-------------------------------- MODULE Shell --------------------------------
(***************************************************************************)
(* main.c: the scripts named on the command line, or the lines typed, are  *)
(* run one after the other on one interpreter; then the managed threads    *)
(* are waited for, the libraries uninstalled and the interpreter freed.    *)
(*                                                                         *)
(* A text is a sequence of the marks that main looks at: "#!" opens a      *)
(* script, n and r end a line, x is any other character.                   *)
(***************************************************************************)
EXTENDS Integers, SequencesExt

CONSTANTS
  MaxArgs,  \* bound: how many scripts the command line names
  MaxText   \* bound: the longest script

Marks == {"#", "!", "n", "r", "x"}
Texts == UNION {[1 .. k -> Marks] : k \in 0 .. MaxText}

VARIABLES
  pc,      \* where main is
  typed,   \* interactive: the command line names no script
  todo,    \* how many scripts are not tried yet
  thrown   \* v7->is_thrown

vars == <<pc, typed, todo, thrown>>

PCs == {"next", "exec", "throw", "print", "run_done", "exit", "dead"}

-----------------------------------------------------------------------------
(* Reading a script. *)

OnlyNewline == {"n"}            \* mutant: a line ends with n alone
LineEnds == {"n", "r"}

\* The suffix of t from its first mark in S on.
From(t, S) ==
  LET hits == {i \in 1 .. Len(t) : t[i] \in S}
  IN  IF hits = {} THEN << >> ELSE SubSeq(t, Min(hits), Len(t))

IsShebang(t) == Len(t) > 2 /\ t[1] = "#" /\ t[2] = "!"

\* The first line goes when it starts with "#!", and the line ends after it.
Body(t) ==
  IF IsShebang(t)
  THEN From(From(SubSeq(t, 3, Len(t)), LineEnds), Marks \ LineEnds)
  ELSE t

OneMore(n) == n >= 0            \* mutant: i <= argc
\* A script is left on the command line.
ArgLeft(n) == n > 0

Init ==
  /\ pc = "next" /\ typed \in BOOLEAN
  /\ todo \in IF typed THEN {0} ELSE 1 .. MaxArgs
  /\ thrown = FALSE

\* read_file gave a text t; v7_exec runs Body(t), unless t has at most two
\* characters.
ReadScript ==
  /\ pc = "next" /\ ~typed /\ ArgLeft(todo)
  /\ todo' = todo - 1
  /\ pc' \in {"exec", "next"}
  /\ UNCHANGED <<typed, thrown>>

\* read_file failed: with no size, and the script is passed over; or after it
\* had set the size (a directory, a short read), and main reads through NULL.
ReadFails ==
  /\ pc = "next" /\ ~typed /\ ArgLeft(todo)
  /\ todo' = todo - 1
  /\ pc' \in {"next", "dead"}
  /\ UNCHANGED <<typed, thrown>>

\* Interactive mode runs every line as it is.
ReadLine ==
  /\ pc = "next" /\ typed
  /\ pc' = "exec"
  /\ UNCHANGED <<typed, todo, thrown>>

-----------------------------------------------------------------------------
(* v7_exec, as far as the libraries are concerned. *)

\* jsc_pwd, jsc_cd and jsc_exec return codes other than "OK", for which the
\* interpreter expects a thrown value; none throws one.  The others answer
\* undefined when they fail.
Returns(f) == CASE f = "pwd"  -> {"OK", "INTERNAL_ERROR"}
                [] f = "cd"   -> {"OK", "INTERNAL_ERROR", "INVALID_ARG"}
                [] f = "exec" -> {"INVALID_ARG"}
                [] OTHER      -> {"OK"}

\* A call of a library function.
Call ==
  /\ pc = "exec"
  /\ \E f \in {"pwd", "cd", "exec", "other"} : \E err \in Returns(f) :
       pc' = IF err = "OK" THEN "exec" ELSE "throw"
  /\ UNCHANGED <<typed, todo, thrown>>

\* jsc_exec gives v7_stringify no buffer; when the toString of the argument
\* throws, v7 writes an empty string to it.
ExecConverts ==
  /\ pc = "exec"
  /\ pc' = "dead"
  /\ UNCHANGED <<typed, todo, thrown>>

\* The script throws.
Throw ==
  /\ pc = "exec"
  /\ thrown' = TRUE
  /\ pc' = "throw"
  /\ UNCHANGED <<typed, todo>>

\* External: bcode_perform_throw of v7.c asserts that there is a thrown value;
\* then the script catches it, or ends.
PerformThrow ==
  /\ pc = "throw"
  /\ IF thrown
     THEN \/ pc' = "exec" /\ thrown' = FALSE
          \/ pc' = "print" /\ thrown' = FALSE
     ELSE pc' = "dead" /\ UNCHANGED thrown
  /\ UNCHANGED <<typed, todo>>

\* v7_exec returns "OK", or an error of the parser, whose name main prints.
ExecEnds ==
  /\ pc = "exec"
  /\ pc' \in {"next", "print"}
  /\ UNCHANGED <<typed, todo, thrown>>

\* print_err_and_res
PrintErr ==
  /\ pc = "print"
  /\ pc' = "next"
  /\ UNCHANGED <<typed, todo, thrown>>

-----------------------------------------------------------------------------
(* The end of main. *)

\* No script is left, or the input ended.
NoMore ==
  /\ pc = "next" /\ todo = 0
  /\ pc' = "run_done"
  /\ UNCHANGED <<typed, todo, thrown>>

\* run_done returns (module Runs), uninstall_all_js_clibs and v7_destroy run.
Finish ==
  /\ pc = "run_done"
  /\ pc' = "exit"
  /\ UNCHANGED <<typed, todo, thrown>>

Next ==
  \/ ReadScript \/ ReadFails \/ ReadLine
  \/ Call \/ ExecConverts \/ Throw \/ PerformThrow \/ ExecEnds \/ PrintErr
  \/ NoMore \/ Finish

Spec == Init /\ [][Next]_vars
-----------------------------------------------------------------------------
(* Properties. *)

\* Every variable keeps its range; todo counts down to 0 and no further, the
\* loop of main over argv does not pass its end.
TypeOK ==
  /\ pc \in PCs /\ typed \in BOOLEAN /\ todo \in 0 .. MaxArgs
  /\ thrown \in BOOLEAN

\* Whatever the text of the next script, it loses its "#!" line and nothing else,
\* with any mix of line ends: what main takes off is one line that starts with
\* "#!" and the line ends behind it, and all of them, or the whole text when no
\* line follows.
TakesFirstLine(text, code) ==
  \E i \in 2 .. Len(text) :
    LET line == SubSeq(text, 1, i)
        ends == SubSeq(text, i + 1, Len(text) - Len(code))
    IN  /\ IsSuffix(code, text)
        /\ Len(code) <= Len(text) - i
        /\ ToSet(line) \cap {"n", "r"} = {}
        /\ ToSet(ends) \subseteq {"n", "r"}
        /\ code # << >> => ends # << >> /\ code[1] \notin {"n", "r"}
ForEveryText == \A t \in Texts :
  IF IsShebang(t) THEN TakesFirstLine(t, Body(t)) ELSE Body(t) = t
OnlyFirstLineGoes == pc = "next" /\ ~typed /\ ArgLeft(todo) => ForEveryText

\* v7/v7.c:12159 asserts take_thrown_value || v7->is_thrown: a library function
\* that returns an error (jsc_cd, jsc_pwd, jsc_exec) has thrown a value.
ErrorsAreThrown == pc = "throw" => thrown
=============================================================================
