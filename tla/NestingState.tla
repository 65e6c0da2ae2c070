---------------------------- MODULE NestingState ----------------------------
(***************************************************************************)
(* NestingState of build_support/cpplint.py: the stack of open namespaces, *)
(* classes and blocks, updated line by line with the regular expressions   *)
(* of Update and carried over #if, #else and #endif.                       *)
(*                                                                         *)
(* A line is its preprocessor directive and its tokens, and the tokens of  *)
(* a directive go through Update as those of code do; words that no        *)
(* expression looks for are left out.  A "class" is the head of a class    *)
(* declaration, "targ" one that InTemplateArgumentList takes for a         *)
(* template argument, "asm(", "asm{" and "extern{" are the braces after    *)
(* these words.  previous_stack_top and access control are left out.       *)
(***************************************************************************)
EXTENDS Integers, SequencesExt

CONSTANTS
    Lines,      \* lines of the first branches of conditionals
    OtherLines, \* lines of the other branches
    Directives, \* tokens of directives, such as the parentheses of #if defined(A)
    MaxNesting, \* bound: blocks open at a time
    MaxIfs      \* bound: #if in #if

VARIABLES
    stack,      \* self.stack
    pp_stack,   \* self.pp_stack
    truth,      \* what a parser of tokens makes of the lines kept (history)
    seen_else,  \* for each #if that is open, whether it had an #else (history)
    ended,      \* all lines were processed
    failed      \* kinds of the blocks CheckCompletedBlocks complains of

vars == <<stack, pp_stack, truth, seen_else, ended, failed>>

Asm == {"no", "inside", "end", "block"}
Kinds == {"namespace", "class", "extern", "block"}
Blocks == [kind : Kinds, seen_open_brace : BOOLEAN, open_parentheses : Int, inline_asm : Asm]

Block(kind, seen) ==
    [kind |-> kind, seen_open_brace |-> seen, open_parentheses |-> 0, inline_asm |-> "no"]

TypeOK ==
    /\ stack \in Seq(Blocks)
    /\ \A k \in DOMAIN pp_stack :
          /\ pp_stack[k].stack_before_if \in Seq(Blocks)
          /\ pp_stack[k].stack_before_else \in Seq(Blocks)
    /\ [k \in DOMAIN pp_stack |-> pp_stack[k].seen_else] = seen_else
    /\ ended \in BOOLEAN
    /\ failed \subseteq {"namespace", "class"}

Init ==
    /\ stack = <<>> /\ pp_stack = <<>>
    /\ truth = [open |-> <<>>, pending |-> "none", parens |-> 0, valid |-> TRUE]
    /\ seen_else = <<>>
    /\ ended = FALSE /\ failed = {}

-----------------------------------------------------------------------------
(***************************************************************************)
(* Update.                                                                 *)
(***************************************************************************)
SeenOpenBrace(s) == s = <<>> \/ Last(s).seen_open_brace

WithTop(s, block) == Append(Front(s), block)

Count(toks, set) == Len(SelectSeq(toks, LAMBDA t : t \in set))

\* inline_asm of the block on top after a line; starts: _MATCH_ASM matches it.
Inline(asm, depth_change, open, starts) ==
    IF asm \in {"no", "end"}
    THEN IF depth_change # 0 /\ open = 1 /\ starts THEN "inside" ELSE "no"
    ELSE IF asm = "inside" /\ open = 0 THEN "end"
    ELSE asm

\* The parentheses of the line count for the block it begins in.
CountParentheses(s, toks) ==
    IF s = <<>> THEN s
    ELSE LET depth_change == Count(toks, {"(", "asm("}) - Count(toks, {")"})
             open == Last(s).open_parentheses + depth_change
         IN  WithTop(s, [Last(s) EXCEPT
                 !.open_parentheses = open,
                 !.inline_asm = Inline(@, depth_change, open,
                                       toks # <<>> /\ toks[1] = "asm(")])

\* Declarations of namespaces at the beginning of what is left of the line; each
\* takes everything up to the next brace with it.
Namespaces[s \in Seq(Blocks), toks \in Seq(STRING)] ==
    IF toks = <<>> \/ toks[1] # "namespace" THEN [stack |-> s, rest |-> toks]
    ELSE LET brace == SelectInSeq(toks, LAMBDA t : t = "{")
         IN  Namespaces[Append(s, Block("namespace", brace # 0)),
                        IF brace = 0 THEN Tail(toks) ELSE SubSeq(toks, brace + 1, Len(toks))]

\* A plausible mistake: a class in a list of parameters is not told apart.
AnyClass(s) == TRUE

\* Not inside parentheses, as far as the block on top knows.
MayDeclareClass(s) == s = <<>> \/ Last(s).open_parentheses = 0

\* A class declared at the beginning of what is left.
Class(at) ==
    IF at.rest # <<>> /\ at.rest[1] = "class" /\ MayDeclareClass(at.stack)
    THEN [stack |-> Append(at.stack, Block("class", FALSE)), rest |-> Tail(at.rest)]
    ELSE at

PopsPending(token) == token \in {";", ")"}

Consume(s, token) ==
    CASE token \in {"{", "asm{", "extern{"} ->
            IF ~SeenOpenBrace(s) THEN WithTop(s, [Last(s) EXCEPT !.seen_open_brace = TRUE])
            ELSE IF token = "extern{" THEN Append(s, Block("extern", TRUE))
            ELSE Append(s, [Block("block", TRUE) EXCEPT
                               !.inline_asm = IF token = "asm{" THEN "block" ELSE "no"])
      [] PopsPending(token) -> IF SeenOpenBrace(s) THEN s ELSE Front(s)
      [] token = "}" -> IF s = <<>> THEN s ELSE Front(s)
      [] OTHER -> s

\* The stack after UpdatePreprocessor when the rest of Update has seen the line.
AfterTokens(s, toks) ==
    LET at == Class(Namespaces[CountParentheses(s, toks), toks])
    IN  FoldLeft(Consume, at.stack, at.rest)

-----------------------------------------------------------------------------
(***************************************************************************)
(* UpdatePreprocessor.                                                     *)
(***************************************************************************)
TopIf == Last(pp_stack)

\* The lines that count: those of no branch but the first.
Kept == \A k \in DOMAIN seen_else : ~seen_else[k]

\* The rest of Update reads the line of the directive: the ")" of #if defined(A) takes
\* a class or namespace that waits for its brace off the stack, and the brace will open
\* a plain block.  This is no C++, but the only trace a directive leaves.
Interrupts(toks) == Kept /\ ")" \in ToSet(toks) /\ truth.pending \in {"namespace", "class"}

Goes(toks) ==
    /\ truth' = IF Interrupts(toks) THEN [truth EXCEPT !.pending = "none"] ELSE truth
    /\ UNCHANGED <<ended, failed>>

If(toks) ==
    /\ ~ended /\ Len(pp_stack) < MaxIfs
    /\ pp_stack' = Append(pp_stack, [stack_before_if   |-> stack,
                                     stack_before_else |-> <<>>,
                                     seen_else         |-> FALSE])
    /\ stack' = AfterTokens(stack, toks)
    /\ seen_else' = Append(seen_else, FALSE)
    /\ Goes(toks)

FirstElse(top) == ~top.seen_else

\* #else, and #elif with the tokens of its condition.
Else(toks) ==
    /\ ~ended /\ pp_stack # <<>>
    /\ pp_stack' = IF FirstElse(TopIf)
                   THEN WithTop(pp_stack, [TopIf EXCEPT !.seen_else = TRUE,
                                                        !.stack_before_else = stack])
                   ELSE pp_stack
    /\ stack' = AfterTokens(TopIf.stack_before_if, toks)
    /\ seen_else' = Append(Front(seen_else), TRUE)
    /\ UNCHANGED <<truth, ended, failed>>

\* Nothing follows #endif but comments.
Endif ==
    /\ ~ended /\ pp_stack # <<>>
    /\ stack' = AfterTokens(IF TopIf.seen_else THEN TopIf.stack_before_else ELSE stack, <<>>)
    /\ pp_stack' = Front(pp_stack)
    /\ seen_else' = Front(seen_else)
    /\ UNCHANGED <<truth, ended, failed>>

\* Any other directive, such as #define F(x).
OtherDirective(toks) ==
    /\ ~ended
    /\ stack' = AfterTokens(stack, toks)
    /\ Goes(toks)
    /\ UNCHANGED <<pp_stack, seen_else>>

-----------------------------------------------------------------------------
(***************************************************************************)
(* The file.                                                               *)
(***************************************************************************)
\* What a parser that knows no lines makes of the next token; valid says whether
\* C++ has it here; at file level, where Update does not count parentheses, one
\* class at most in a list of parameters.
Parse(t, token) ==
    LET pends(kind) == [t EXCEPT !.pending = kind, !.valid = @ /\ t.pending = "none"]
    IN  CASE token = "namespace" -> [pends(token) EXCEPT !.valid = @ /\ t.parens = 0]
          [] token = "class" ->
                IF t.parens = 0 THEN pends(token)
                ELSE [pends("argument") EXCEPT
                         !.valid = @ \/ (t.pending = "argument" /\ t.open # <<>>)]
          [] token = "targ" -> pends("none")
          [] token = "asm(" -> [pends(token) EXCEPT !.parens = @ + 1]
          [] token = "(" -> [t EXCEPT !.parens = @ + 1,
                                      !.valid = @ /\ t.pending \in {"none", "asm("}]
          [] token = ")" -> [t EXCEPT !.parens = @ - 1, !.valid = @ /\ t.parens > 0,
                                      !.pending = IF @ = "asm(" /\ t.parens > 1 THEN @ ELSE "none"]
          [] token = ";" -> [t EXCEPT !.pending = "none",
                                      !.valid = @ /\ t.pending \notin {"argument", "asm("}]
          [] token = "{" ->
                [t EXCEPT !.open = Append(@, IF t.pending = "none" THEN "block" ELSE t.pending),
                          !.pending = "none", !.valid = @ /\ t.parens = 0]
          [] token \in {"asm{", "extern{"} ->
                [pends("none") EXCEPT !.open = Append(@, IF token = "asm{" THEN "block" ELSE "extern"),
                                      !.valid = @ /\ t.parens = 0]
          [] token = "}" ->
                [pends("none") EXCEPT !.open = IF @ = <<>> THEN @ ELSE Front(@),
                                      !.valid = @ /\ t.open # <<>> /\ t.parens = 0]

\* The next line; in the first branches it goes on with valid C++.
Line(toks) ==
    /\ ~ended
    /\ stack' = AfterTokens(stack, toks)
    /\ Len(stack') <= MaxNesting
    /\ stack' # <<>> => Last(stack').open_parentheses \in -1 .. 1
    /\ truth' = IF Kept THEN FoldLeft(Parse, truth, toks) ELSE truth
    /\ truth'.valid /\ truth'.parens <= 1
    /\ UNCHANGED <<pp_stack, seen_else, ended, failed>>

\* CheckCompletedBlocks, at the end of the file.
EndOfFile ==
    /\ ~ended
    /\ ended' = TRUE
    /\ failed' = {stack[k].kind : k \in DOMAIN stack} \cap {"namespace", "class"}
    /\ UNCHANGED <<stack, pp_stack, truth, seen_else>>

Next ==
    \/ \E toks \in Directives : If(toks) \/ Else(toks) \/ OtherDirective(toks)
    \/ \E toks \in IF Kept THEN Lines ELSE OtherLines : Line(toks)
    \/ Endif \/ EndOfFile

Spec == Init /\ [][Next]_vars

-----------------------------------------------------------------------------
\* The blocks whose brace was seen.
OpenKinds(s) ==
    LET seen == SelectSeq(s, LAMBDA b : b.seen_open_brace)
    IN  [k \in 1 .. Len(seen) |-> seen[k].kind]

\* Outside #else parts the stack is the nesting of the first branches: line by line
\* the expressions find what a parser of the tokens finds, and lines after an #else
\* leave nothing behind.  Only a class or namespace with a parenthesized directive, as
\* #if defined(A), between its name and its brace counts as a plain block
\* (cpplint.py:2767-2773, 2814-2976).
StackIsNesting == Kept => OpenKinds(stack) = truth.open

Complete == truth.open = <<>> /\ truth.pending = "none" /\ truth.parens = 0

\* A file whose first branches close everything has no "Failed to find complete
\* declaration", whatever its other branches hold (cpplint.py:2990-3009).
CompleteFilesPass ==
    ended /\ seen_else = <<>> /\ Complete
        => failed = {}

\* Lines are skipped as inline assembly only from an asm word to the parenthesis
\* or the brace that closes it (cpplint.py:2847-2859, 6090).
AsmEnds ==
    Kept /\ stack # <<>> /\ truth.parens = 0 => Last(stack).inline_asm # "inside"
=============================================================================
