------------------------------- MODULE Probes -------------------------------
(***************************************************************************)
(* ProbeRegistry of src/src/sandbox/probes.ts: probes are attached and      *)
(* detached, and fire() runs those of a tracepoint one after the other in   *)
(* the virtual machine.  onLog is the host's: it is called for each trace   *)
(* and each error of a probe, and may attach and detach while fire() runs.  *)
(***************************************************************************)
EXTENDS EbpfVm, Functions

CONSTANTS
    Tracepoints,
    Menus,          \* sets of ProbeOptions, one of which the host uses
    MapCount,       \* how many maps there are
    Fields,         \* the contexts fire() is called with, as sequences of numbers
    None,           \* no verdict
    MaxFires        \* bound on the calls of fire()

\* ProbeOptions: the number of maps stands for maps, which are a prefix of
\* those of all; a probe without a name is called by its id.
Options == [program : Seq(Insns), tracepoint : Tracepoints, budget : Int,
            fds : 0..MapCount, failClosed : BOOLEAN]
ASSUME MenusAssumption == \A m \in Menus : m \subseteq Options
ASSUME MapCountAssumption == MapCount \in Nat
ASSUME FieldsAssumption == Fields \subseteq Seq(Int)
ASSUME MaxFiresAssumption == MaxFires \in Nat
ASSUME NoneAssumption == None \notin Nat

VARIABLES
    menu,           \* what is left of the menu
    probes,         \* the AttachedProbes; their order is that of their ids
    probeCounter,
    firing,         \* the call of fire() under way, or the last one
    fires           \* how many there were

regVars == <<menu, probes, probeCounter, firing, fires>>
vars == <<vmVars, regVars>>

NotFired == [active |-> FALSE, tracepoint |-> "none", todo |-> {}, roster |-> {},
             ran |-> <<>>, fields |-> <<>>, verdict |-> None]
Ids(S) == {p.id : p \in S}
First(S) == CHOOSE p \in S : \A q \in S : p.id <= q.id

Init ==
    /\ vm = NoRun /\ regs = AtEntry /\ stack = EmptyStack
    /\ ctx = [i \in {} |-> 0]
    /\ maps = [fd \in 1..MapCount |-> EmptyMap]
    /\ menu \in Menus
    /\ probes = {} /\ probeCounter = 0
    /\ firing = NotFired /\ fires = 0
-----------------------------------------------------------------------------
(* attach() and detach().                                                   *)

\* The host runs between calls of fire(), and inside onLog.
HostsTurn == ~firing.active \/ vm.status \in {"tracing"} \cup Faults

\* The id is taken before the verifier throws.
Attach(o) ==
    /\ HostsTurn
    /\ menu' = menu \ {o}
    /\ probeCounter' = probeCounter + 1
    /\ probes' = IF Verified(o.program)
                 THEN probes \cup {[id |-> probeCounter + 1, options |-> o]}
                 ELSE probes
    /\ UNCHANGED <<vmVars, firing, fires>>

Detach(id) ==
    /\ HostsTurn
    /\ probes' = {p \in probes : p.id # id}
    /\ UNCHANGED <<vmVars, menu, probeCounter, firing, fires>>
-----------------------------------------------------------------------------
(* fire().                                                                  *)

\* The fields of the event, as little-endian words.
Encoded(fields) ==
    [i \in 0..(8 * Len(fields) - 1) |-> (fields[(i \div 8) + 1] \div Power(Byte, i % 8)) % Byte]

Matching(tracepoint) == {p \in probes : p.options.tracepoint = tracepoint}

\* A new run: registers and stack are its own, the maps and the context are not.
Run(p) ==
    /\ vm' = Load(p.options.program, p.options.budget, p.options.fds)
    /\ regs' = AtEntry
    /\ stack' = EmptyStack
    /\ UNCHANGED maps

Fire(tracepoint, fields) ==
    /\ ~firing.active /\ fires < MaxFires
    /\ LET matching == Matching(tracepoint)
       IN  /\ matching # {}
           /\ firing' = [NotFired EXCEPT !.active = TRUE, !.tracepoint = tracepoint,
                                         !.todo = matching, !.roster = Ids(matching),
                                         !.fields = fields]
           /\ Run(First(matching))
    /\ ctx' = Encoded(fields)
    /\ fires' = fires + 1
    /\ UNCHANGED <<menu, probes, probeCounter>>

Vetoes == \/ vm.status = "returned" /\ regs[0] # 0
          \/ vm.status \in Faults /\ First(firing.todo).options.failClosed

\* Mutant: the loop runs over the probes as they are by now.
RemainingNow ==
    LET last == First(firing.todo)
    IN  {p \in Matching(last.options.tracepoint) : p.id > last.id}

\* The loop runs over the copy that filter() made.
Remaining == firing.todo \ {First(firing.todo)}

\* The run of a probe is over: the first that vetoes ends the loop.
Conclude ==
    /\ firing.active /\ vm.status \in Ended
    /\ LET p == First(firing.todo)
           ran == Append(firing.ran, [id |-> p.id, vetoed |-> Vetoes])
       IN  IF Vetoes \/ Remaining = {}
           THEN /\ firing' = [firing EXCEPT !.active = FALSE, !.todo = {}, !.ran = ran,
                                            !.verdict = IF Vetoes THEN p.id ELSE None]
                /\ vm' = NoRun
                /\ regs' = AtEntry /\ stack' = EmptyStack
                /\ UNCHANGED maps
           ELSE /\ firing' = [firing EXCEPT !.todo = Remaining, !.ran = ran]
                /\ Run(First(Remaining))
    /\ UNCHANGED <<ctx, menu, probes, probeCounter, fires>>

Next ==
    \/ \E o \in menu : Attach(o)
    \/ \E id \in Ids(probes) : Detach(id)
    \/ \E t \in Tracepoints, f \in Fields : Fire(t, f)
    \/ firing.active /\ VmStep /\ UNCHANGED regVars
    \/ Conclude

\* fire() is synchronous, so its steps are taken; the host returns from onLog.
Spec == Init /\ [][Next]_vars /\ WF_vars(VmStep /\ UNCHANGED regVars) /\ WF_vars(Conclude)
-----------------------------------------------------------------------------
TypeOK ==
    /\ VmTypeOK
    /\ \A fd \in DOMAIN maps :
        /\ DOMAIN maps[fd] \cup Range(maps[fd]) \subseteq Words
        /\ Cardinality(DOMAIN maps[fd]) <= MaxEntries
    /\ probeCounter \in Nat /\ fires \in 0..MaxFires

\* While a probe runs, its context is the event that was fired and its r10 the
\* top of its stack, whatever this probe and those before it did: programs are
\* handed one buffer, and only the verifier keeps them off r10.
\* (fire(), run() and checkInsn().)
RunsOnTheEvent ==
    firing.active => ctx = Encoded(firing.fields) /\ regs[10] = StackTop

\* Called are the probes that were attached when fire() began, in the order of
\* their attachment and each once, up to the first that vetoes, which is named.
CalledInOrder ==
    LET called == Ids(Range(firing.ran))
    IN  /\ called \subseteq firing.roster
        /\ \A i, j \in DOMAIN firing.ran : i < j => firing.ran[i].id < firing.ran[j].id
        /\ \A i \in DOMAIN firing.ran :
            /\ \A id \in firing.roster : id < firing.ran[i].id => id \in called
            /\ firing.ran[i].vetoed <=> i = Len(firing.ran) /\ firing.verdict = firing.ran[i].id
        /\ ~firing.active =>
              IF firing.verdict = None THEN called = firing.roster
              ELSE firing.ran # <<>> /\ firing.verdict = firing.ran[Len(firing.ran)].id

\* Admission to a run is what the probes attached to run:start say, each asked once
\* in the order of their attachment until one vetoes; what the host attaches or
\* detaches inside onLog does not change it.  (fire(): the filtered copy, and the
\* return inside its loop.)
FiresAsAttached == firing.tracepoint = "run:start" => CalledInOrder

\* An observer misses an event for one reason: one before it returned nonzero, or
\* failed and was attached failClosed.  (The return inside the loop of fire(), which
\* asks for no tracepoint.)
ObserversRunUnlessOneVetoes ==
    ~firing.active /\ Ids(Range(firing.ran)) # firing.roster =>
        \E i \in DOMAIN firing.ran : /\ firing.ran[i].vetoed
                                      /\ firing.verdict = firing.ran[i].id

\* fire() returns, and run() with it: whatever the program and the budget it asks
\* for, the steps it is given end it.  (The step count of run(), which counts
\* jumps too.)
EveryFireReturns == firing.active ~> ~firing.active

\* "register bounds" are checked statically, so no verified program names a
\* register that does not exist.  (The comment of verifyProgram().)
RegistersExist == vm.status # "register"
=============================================================================
