-------------------------------- MODULE Jssh ---------------------------------
(***************************************************************************)
(* The whole of jssh: main (Shell), the streams (Files) and the managed    *)
(* threads (Runs) in one process.  One thread goes through main, the       *)
(* scripts, the calls that scripts make and the end of main; beside it run *)
(* the threads that httpd() starts and the commands that popen starts.     *)
(* Once one of the parts dies nothing moves.                               *)
(***************************************************************************)
EXTENDS Integers, FiniteSets, Sequences

CONSTANTS
  IntMax,                                      \* of IdTable
  MaxStreams, MaxLive, MaxDepth, Undefined,    \* of Files
  MaxRuns,                                     \* of Runs
  MaxArgs, MaxText                             \* of Shell

VARIABLES
  main, typed, todo, thrown,                                   \* Shell
  filePc, fileCur, opened, made, files, idOf,                  \* Files
  pipes, type, got, life, ended, dirty, ignored, frames,
  runPc, runCur, runLast, started, running, runIdOf,           \* Runs
  mgn, freed, inst, thr, serves, bound, asked, heap

shell   == <<main, typed, todo, thrown>>
streams == <<filePc, fileCur, opened, made, files, idOf, pipes, type, got, life, ended, dirty, frames>>
runs    == <<runPc, runCur, runLast, started, running, runIdOf,
             mgn, freed, inst, thr, serves, bound, asked, heap>>
vars    == <<shell, streams, ignored, runs>>

S == INSTANCE Shell WITH pc <- main
F == INSTANCE Files WITH pc <- filePc, cur <- fileCur, lastId <- opened, linked <- files
R == INSTANCE Runs WITH pc <- runPc, cur <- runCur, lastId <- runLast, made <- started,
                        linked <- running, idOf <- runIdOf

\* The assumptions of the parts, and bounds that are numbers.
ASSUME JsshAssumption ==
  /\ F!IntMaxAssumption /\ F!FilesAssumption /\ R!RunsAssumption
  /\ MaxArgs \in Nat /\ MaxText \in Nat

Dead == "dead" \in {main, filePc, runPc}

Init == S!Init /\ F!Init /\ R!Init

-----------------------------------------------------------------------------
(* The thread of main. *)

\* Script code runs: a script, or a toString that writestring calls for one.
InScript == main = "exec" /\ F!InScript /\ runPc = "script"

\* The interpreter.  What a toString throws stays inside v7_stringify, and a
\* script does not end before the calls it made.
Interpret ==
  /\ filePc = "script" /\ runPc = "script"
  /\ S!ReadScript \/ S!ReadFails \/ S!ReadLine \/ S!Call \/ S!ExecConverts
     \/ S!Throw \/ S!PerformThrow \/ S!ExecEnds \/ S!PrintErr
  /\ frames # << >> => main' \in {"exec", "throw", "dead"}
  /\ UNCHANGED <<streams, ignored, runs>>

\* Calls of the file library, to the point where libc may wait, and on.
Stream ==
  /\ \/ InScript /\ (F!Fopen \/ F!Popen \/ F!ReadLine \/ F!WriteString \/ F!WriteArg \/ F!CloseStream)
     \/ F!Used \/ F!Closing
  /\ UNCHANGED <<shell, runs>>

\* httpd(): run(_httpd, 0, NULL)
Httpd ==
  /\ \/ InScript /\ R!Run
     \/ R!Fill
     \/ R!Start /\ runCur \in serves'
  /\ UNCHANGED <<shell, streams, ignored>>

\* The loop over the scripts is left, and run_done called.
NoMore ==
  /\ filePc = "script" /\ runPc = "script"
  /\ S!NoMore
  /\ UNCHANGED <<streams, ignored, runs>>

RunDone ==
  /\ main = "run_done"
  /\ R!RunDone \/ R!Pick \/ R!Join \/ R!Destroy \/ R!Release
  /\ UNCHANGED <<shell, streams, ignored>>

AtOnce == main = "run_done"     \* mutant: the libraries are uninstalled first
\* run_done is called before uninstall_all_js_clibs, and returned.
AfterRunDone == runPc = "returned"

Uninstall ==
  /\ main = "run_done" /\ AfterRunDone
  /\ F!ScriptEnds \/ F!Uninstall
  /\ UNCHANGED <<shell, runs>>

Finish ==
  /\ filePc = "exit" /\ runPc = "returned"
  /\ S!Finish
  /\ UNCHANGED <<streams, ignored, runs>>

-----------------------------------------------------------------------------
(* Beside it. *)

KeepsSignal == UNCHANGED ignored   \* mutant: mg_mgr_init leaves SIGPIPE as it is
\* External: mg_mgr_init ignores SIGPIPE, for the process.
IgnoresSignal == ignored' = TRUE

\* The thread of httpd(): mg_mgr_init, then mg_bind; then it serves for ever.
Serve ==
  /\ \E n \in R!Records : R!Bind(n)
  /\ IgnoresSignal
  /\ UNCHANGED <<shell, streams>>

Command ==
  /\ main # "exit"
  /\ \E s \in F!Streams : F!CommandEnds(s)
  /\ UNCHANGED <<shell, runs>>

\* The streams, the interpreter and the servers share the heap that run may break:
\* whatever they allocate or free may abort then.
HeapAborts ==
  /\ main # "exit"
  /\ R!Abort
  /\ UNCHANGED <<shell, streams, ignored>>

-----------------------------------------------------------------------------
Next ==
  /\ ~Dead
  /\ \/ Interpret \/ Stream \/ Httpd \/ NoMore \/ RunDone \/ Uninstall \/ Finish
     \/ Serve \/ Command \/ HeapAborts

\* The end of main goes on when it can, and so does httpd; a command ends once
\* pclose has closed its pipe.
Fairness ==
  /\ WF_vars(~Dead /\ (RunDone \/ Uninstall \/ Finish))
  /\ WF_vars(~Dead /\ Serve)
  /\ WF_vars(~Dead /\ (\E s \in F!Streams : life[s] = "waiting" /\ F!CommandEnds(s))
                   /\ UNCHANGED <<shell, runs>>)

Spec == Init /\ [][Next]_vars
FairSpec == Spec /\ Fairness
-----------------------------------------------------------------------------
(* Properties. *)

\* Each part keeps its ranges when it runs with the others.
TypeOK == S!TypeOK /\ F!TypeOK /\ R!TypeOK

\* main takes the "#!" line off a script, and nothing else.
OnlyFirstLineGoes == S!OnlyFirstLineGoes

\* A script that called httpd() is never left behind: the shell closes no stream
\* on its way out and does not exit while a thread was started, until the last_id
\* of the threads wraps: run_done takes a negative id for an empty table.
ServerHoldsTheShell ==
  started \in 1 .. IntMax + 1 => main # "exit" /\ filePc \notin {"uninstall", "shut", "free", "exit"}

\* Once a server has its port, no write to a command that ended kills the shell:
\* the thread that serves changes what the thread that runs scripts may survive.
ServerShieldsPipes == [][bound # {} /\ filePc # "wild" => filePc' # "dead"]_vars

\* The end of main is an exit with every stream closed, unless a server holds it
\* or the process dies on the way.
Ended == main = "exit" /\ \A s \in 1 .. made : life[s] \in {"fclosed", "pclosed"}
Finishes == main = "run_done" ~> Ended \/ Dead \/ R!Servers # {}
=============================================================================
