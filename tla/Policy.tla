------------------------------- MODULE Policy -------------------------------
(***************************************************************************)
(* src/src/runtime/policy.ts: how a policy editor's template and code       *)
(* become the policy of a sandbox.  Fields are treated alike, so a policy   *)
(* is here one numeric field; what a client writes there is a number, in    *)
(* halves, or not a finite number.                                          *)
(***************************************************************************)
EXTENDS Integers

CONSTANT Halves     \* numbers a client writes, relative to a bound of the field

ASSUME HalvesAssumption == Halves \subseteq Int

\* DEFAULT_SANDBOX_POLICY, the bounds of normalizePolicy() and those of
\* validatePolicy().
Defaults == [timeoutMs |-> 10000, retryCount |-> 1, memoryBudgetMB |-> 512,
             coldStartMs |-> 0, maxGuestCodeLength |-> 20000, snapshotEveryNRuns |-> 0]
Fields == DOMAIN Defaults
Bounds == [timeoutMs |-> <<100, 120000>>, retryCount |-> <<0, 8>>,
           memoryBudgetMB |-> <<64, 16384>>, coldStartMs |-> <<0, 10000>>,
           maxGuestCodeLength |-> <<256, 200000>>, snapshotEveryNRuns |-> <<0, 1000>>]
Validated(f) ==
    CASE f = "timeoutMs" -> <<100, 120000>>
      [] f = "retryCount" -> <<0, 8>>
      [] f = "memoryBudgetMB" -> <<64, 16384>>
      [] f = "coldStartMs" -> <<0, 10000>>
      [] f = "maxGuestCodeLength" -> <<256, 200000>>
      [] f = "snapshotEveryNRuns" -> <<0, 1000>>

\* What a field of a partial policy may be: missing, not finite, or halves/2.
Raw(kind, halves) == [kind |-> kind, halves |-> halves]
Missing == Raw("missing", 0)
NotFinite == Raw("notFinite", 0)
Number(n) == Raw("number", 2 * n)
Raws(f) ==
    {Missing, NotFinite}
    \cup {Raw("number", 2 * Bounds[f][i] + h) : i \in {1, 2}, h \in Halves}

VARIABLES
    editor,         \* what the editor held last, of one field
    resolved        \* what resolvePolicy() made of it

Outcome(status, value) == [status |-> status, value |-> value]
Editor(f, m, t, o) == [field |-> f, mode |-> m, template |-> t, override |-> o]

policyVars == <<editor, resolved>>

PolicyInit ==
    /\ editor = Editor("timeoutMs", "template", Missing, Missing)
    /\ resolved = Outcome("none", 0)
-----------------------------------------------------------------------------
Rounded(halves) == (halves + 1) \div 2
Clamp(value, bounds) ==
    IF value < bounds[1] THEN bounds[1] ELSE IF value > bounds[2] THEN bounds[2] ELSE value

\* Mutant: a number is rounded after it was clamped to what is below the bound.
NormalizeUnclampedBelow(f, raw) ==
    IF raw.kind = "number"
    THEN IF Rounded(raw.halves) > Bounds[f][2] THEN Bounds[f][2] ELSE Rounded(raw.halves)
    ELSE Defaults[f]

\* normalizePolicy(): what is missing or not finite takes the default.
Normalize(f, raw) ==
    IF raw.kind = "number" THEN Clamp(Rounded(raw.halves), Bounds[f]) ELSE Defaults[f]

Valid(f, value) == value >= Validated(f)[1] /\ value <= Validated(f)[2]
Checked(f, value) == IF Valid(f, value) THEN Outcome("ok", value) ELSE Outcome("refused", value)

\* compilePolicyCode(), for code that returns an object with over in the field.
Compile(f, base, over) ==
    Checked(f, Normalize(f, IF over = Missing THEN Number(base) ELSE over))

Resolve(f, mode, template, override) ==
    /\ resolved.status = "none"
    /\ editor' = Editor(f, mode, template, override)
    /\ LET base == Normalize(f, template)
       IN  resolved' = IF mode = "eject" THEN Compile(f, base, override)
                                         ELSE Checked(f, Normalize(f, Number(base)))

PolicyNext ==
    \E f \in Fields, mode \in {"template", "eject"} :
        \E template, override \in Raws(f) : Resolve(f, mode, template, override)
-----------------------------------------------------------------------------
\* "a policy obtained from user input is always safe to hand to the runtime":
\* what the bounds of normalizePolicy() let through, those of validatePolicy()
\* never refuse, in either mode.
EveryPolicyResolves ==
    resolved.status # "none" => resolved.status = "ok" /\ Valid(editor.field, resolved.value)
=============================================================================
