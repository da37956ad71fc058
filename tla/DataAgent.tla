----------------------------- MODULE DataAgent -----------------------------
(***************************************************************************)
(* PythonRunner of src/src/python/pyodide-runner.ts and the DataAgent of    *)
(* data-agent.ts that runs on it.  All calls share one interpreter and one  *)
(* stdout buffer; a call is cut at its awaits, so asks that overlap meet    *)
(* there.  Python code prints, and ends or raises; it may await, and leaves *)
(* nothing running when it ends.                                            *)
(***************************************************************************)
EXTENDS Naturals, Sequences, SequencesExt

CONSTANTS
    Asks,           \* calls of DataAgent.ask()
    MaxAttempts,
    MaxLines        \* bound on the lines an attempt prints

ASSUME MaxAttemptsAssumption == MaxAttempts \in Nat \ {0}

VARIABLES
    stdoutBuffer,   \* what was printed: <<ask, attempt>> for each line
    ask             \* ask[a]: how far it is, its attempts, the stdout it got, and
                    \* whether its last attempt met another run()

askVars == <<stdoutBuffer, ask>>

PyInit ==
    /\ stdoutBuffer = <<>>
    /\ ask = [a \in Asks |-> [at |-> "uncalled", attempt |-> 0, lines |-> 0,
                             stdout |-> <<>>, met |-> FALSE]]

Running(a) == ask[a].at = "running"
Update(a, rec) == ask' = [ask EXCEPT ![a] = rec]

\* An attempt of a begins, and meets those under way.
Attempting(a) == [b \in Asks |->
    IF b = a THEN [ask[a] EXCEPT !.at = "running", !.attempt = @ + 1, !.lines = 0,
                                 !.met = \E c \in Asks \ {a} : Running(c)]
             ELSE [ask[b] EXCEPT !.met = @ \/ Running(b)]]
-----------------------------------------------------------------------------
(* ask(): plan, run, and repair while attempts are left.                    *)

Ask(a) ==
    /\ ask[a].at = "uncalled"
    /\ Update(a, [ask[a] EXCEPT !.at = "planning"])
    /\ UNCHANGED stdoutBuffer

\* Mutant: run() leaves the buffer as it is.
RunUnreset(a) ==
    /\ ask[a].at = "planning"
    /\ ask' = Attempting(a)
    /\ UNCHANGED stdoutBuffer

\* run() resets the buffer, then awaits the interpreter.
Run(a) ==
    /\ ask[a].at = "planning"
    /\ ask' = Attempting(a)
    /\ stdoutBuffer' = <<>>

PlanRejects(a) ==
    /\ ask[a].at = "planning"
    /\ Update(a, [ask[a] EXCEPT !.at = "rejected"])
    /\ UNCHANGED stdoutBuffer

Prints(a) ==
    /\ Running(a) /\ ask[a].lines < MaxLines
    /\ stdoutBuffer' = Append(stdoutBuffer, <<a, ask[a].attempt>>)
    /\ Update(a, [ask[a] EXCEPT !.lines = @ + 1])

Ends(a, at) ==
    /\ Running(a)
    /\ Update(a, [ask[a] EXCEPT !.at = at, !.stdout = stdoutBuffer])
    /\ UNCHANGED stdoutBuffer
Succeeds(a) == Ends(a, "answered")
Raises(a) == Ends(a, IF ask[a].attempt < MaxAttempts THEN "planning" ELSE "gaveUp")

AskNext == \E a \in Asks :
    Ask(a) \/ Run(a) \/ PlanRejects(a) \/ Prints(a) \/ Succeeds(a) \/ Raises(a)
-----------------------------------------------------------------------------
\* What an ask returns as stdout holds nothing its earlier attempts printed, and is
\* what its last attempt printed, all of it and nothing else, unless that met
\* another call of run().  (run(): one buffer, reset at the start.)
StdoutIsOfTheAttempt ==
    \A a \in Asks : ask[a].at \in {"answered", "gaveUp"} =>
        /\ \A i \in DOMAIN ask[a].stdout :
            ask[a].stdout[i][1] = a => ask[a].stdout[i][2] = ask[a].attempt
        /\ ~ask[a].met => ask[a].stdout = [i \in 1..ask[a].lines |-> <<a, ask[a].attempt>>]
=============================================================================
