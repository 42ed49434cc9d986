----------------------------- MODULE Variables ------------------------------
(***************************************************************************)
(* VariableResolver (control/variables.py) over computed expressions       *)
(* (control/expressions.py), and the cycle check of control/validation.py. *)
(*                                                                         *)
(* resolve calls itself through _resolve_reference: a stack of frames,     *)
(* with a cache that is written when a frame returns and also when a cycle *)
(* is met.  A value, and the text of an error, is the set of variables     *)
(* whose source data is in it.  An expression is coalesce, which stops at  *)
(* the first value; concat, which stands for every operator that needs all *)
(* its arguments; or convert: to_number or to_boolean of a value that is   *)
(* neither.                                                                *)
(***************************************************************************)
EXTENDS Naturals, Sequences, SequencesExt, FiniteSets

CONSTANTS
  Vars,        \* variable ids
  Definitions, \* what one variable may be: [source, op, args, default, fits, sensitive, enabled]
  Orders       \* orders in which variables are declared

VariablesAssumption ==
  /\ IsFiniteSet(Vars)
  /\ \A o \in Orders : o \in Seq(Vars) /\ Range(o) = Vars /\ Len(o) = Cardinality(Vars)
  /\ \A d \in Definitions : d.args \in Seq(Range(d.args))

VARIABLES
  def,    \* [Vars -> Definitions]
  order,  \* declaration order: resolve_all goes through it
  cache,  \* _cache: resolved variables
  stack   \* frames of resolve, the innermost last; the variables in it are _visiting

resolverVars == <<def, order, cache, stack>>

\* _RESOLVED: with these there is a value.
Valued == {"resolved", "default"}

\* A ResolvedVariable: status, the data in its value or its error, and whether it is
\* marked sensitive.
Result(status, value, sensitive) == [status |-> status, value |-> value, sensitive |-> sensitive]

\* A frame: the next argument to look at and the value collected so far.
Frame(v) == [var |-> v, next |-> 1, value |-> {}]

ResolverInit ==
  /\ def \in [Vars -> Definitions]
  /\ order \in Orders
  /\ cache = <<>>
  /\ stack = <<>>

Top == Last(stack)
Visiting(v) == \E i \in DOMAIN stack : stack[i].var = v
Args(v) == IF def[v].source = "computed" THEN def[v].args ELSE <<>>

\* The variables an expression leads to, itself included: the least set with v that
\* has the references of all its members.
Closed(S) == \A w \in S : Range(Args(w)) \cap Vars \subseteq S
Reachable(v) == {w \in Vars : \A S \in SUBSET Vars : v \in S /\ Closed(S) => w \in S}

\* _sensitive: the variable, or one its expression leads to, is marked or named so.
LeadsToSensitive(v) == \E w \in Reachable(v) : def[w].sensitive

\* Mutant of ComputedCycle: only a variable that refers to itself is found.
ComputedCycleDirect(v) == v \in Range(Args(v))

\* _computed_cycle: references lead from v into a cycle.
ComputedCycle(v) == \E w \in Reachable(v) : \E u \in Range(Args(w)) \cap Vars : w \in Reachable(u)

\* validate_config_payload: what it says of the variables.
Valid == \A v \in Vars : ~ComputedCycle(v) /\ Range(Args(v)) \subseteq Vars

\* Store a result and return it to the frame below.
Remember(v, result) == cache' = [x \in DOMAIN cache \cup {v} |-> IF x = v THEN result ELSE cache[x]]

\* resolve without descending: an unknown or disabled variable, or one under way.
ResolveAtOnce(v) ==
  CASE v \notin Vars -> Result("error", {}, FALSE)
    [] v \in Vars /\ ~def[v].enabled -> Result("disabled", {}, LeadsToSensitive(v))
    [] OTHER -> Result("error", {}, def[v].sensitive)

Descends(v) == v \in Vars /\ def[v].enabled /\ ~Visiting(v)

\* A call of resolve that is not answered by the cache.
Resolve(v) ==
  /\ v \notin DOMAIN cache
  /\ \/ Descends(v) /\ stack' = Append(stack, Frame(v)) /\ UNCHANGED cache
     \/ ~Descends(v) /\ Remember(v, ResolveAtOnce(v)) /\ UNCHANGED stack

\* resolve_all: the next variable of the declaration.
ResolveDeclared ==
  /\ stack = <<>>
  /\ \E i \in DOMAIN order :
       /\ \A j \in 1 .. i - 1 : order[j] \in DOMAIN cache
       /\ Resolve(order[i])
  /\ UNCHANGED <<def, order>>

\* The argument the expression of the innermost frame looks at, and what it got.
More == stack # <<>> /\ Top.next <= Len(Args(Top.var))
Argument == Args(Top.var)[Top.next]
Has(status) == Argument \in DOMAIN cache /\ cache[Argument].status \in status

ResolveArgument ==
  /\ More
  /\ Resolve(Argument)
  /\ UNCHANGED <<def, order>>

\* Status and data once the source has given a value, nothing or an error, whose text may
\* quote a value: a default stands in for nothing, and a value must be of the declared type.
Concluded(v, outcome, value) ==
  LET given == CASE outcome = "found" -> "resolved"
                 [] outcome = "missing" /\ def[v].default -> "default"
                 [] outcome = "missing" /\ ~def[v].default -> "missing"
                 [] OTHER -> "error"
      status == IF given \in Valued /\ ~def[v].fits THEN "error" ELSE given
  IN [status |-> status, value |-> CASE status = "resolved" -> value
                                     [] status = "default" -> {v}
                                     [] outcome = "error" -> value [] OTHER -> {}]

\* _resolve_value: the innermost frame ends.
Settle(outcome, value) ==
  LET v == Top.var
      end == Concluded(v, outcome, value)
  IN /\ Remember(v, Result(end.status, end.value, LeadsToSensitive(v)))
     /\ stack' = Front(stack)

\* _source_value of a variable that is not computed.
ReadSource ==
  /\ stack # <<>> /\ def[Top.var].source # "computed"
  /\ Settle(IF def[Top.var].source = "present" THEN "found" ELSE "missing", {Top.var})
  /\ UNCHANGED <<def, order>>

\* The innermost frame goes on to its next argument, with what it has collected.
GoOn(value) ==
  /\ stack' = [stack EXCEPT ![Len(stack)] =
                [var |-> Top.var, next |-> Top.next + 1, value |-> value]]
  /\ UNCHANGED cache

\* Arguments an expression goes on from: coalesce from a missing one, the others from
\* any that did not raise.
Passed(v) == IF def[v].op = "coalesce" THEN {"missing"} ELSE Valued \cup {"missing"}

PassArgument ==
  /\ More /\ Has(Passed(Top.var))
  /\ GoOn(Top.value \cup cache[Argument].value)
  /\ UNCHANGED <<def, order>>

\* coalesce ends at the first value.
TakeValue ==
  /\ More /\ Has(Valued) /\ def[Top.var].op = "coalesce"
  /\ Settle("found", cache[Argument].value)
  /\ UNCHANGED <<def, order>>

\* ExpressionError: an argument that could not be resolved fails the expression, with
\* the argument's error in its own.
FailArgument ==
  /\ More /\ Has({"error", "disabled"})
  /\ Settle("error", cache[Argument].value)
  /\ UNCHANGED <<def, order>>

\* Among the results of the arguments one is missing; and the data in all of them.
Lacks(results, v) == \E i \in DOMAIN Args(v) : results[Args(v)[i]].status = "missing"
All(results, v) == UNION {results[Args(v)[i]].value : i \in DOMAIN Args(v)}

\* What an expression comes to when all its arguments were passed.
Ending(v, lacks) ==
  CASE def[v].op = "coalesce" -> "missing"
    [] def[v].op # "coalesce" /\ lacks -> "lacking"
    [] def[v].op = "convert" /\ ~lacks -> "error"
    [] OTHER -> "found"

EndExpression ==
  /\ stack # <<>> /\ def[Top.var].source = "computed" /\ ~More
  /\ Settle(Ending(Top.var, Lacks(cache, Top.var)), Top.value)
  /\ UNCHANGED <<def, order>>

ResolverNext ==
  \/ ResolveDeclared \/ ResolveArgument
  \/ ReadSource \/ PassArgument \/ TakeValue \/ FailArgument \/ EndExpression

ResolverSpec == ResolverInit /\ [][ResolverNext]_resolverVars

-----------------------------------------------------------------------------
(* Properties.                                                             *)

Finished == stack = <<>> /\ Vars \subseteq DOMAIN cache

\* What a variable means, given what its references mean: a value or why there is none.
MeaningFrom(v, m) ==
  LET of(i) == m[Args(v)[i]]
      stops == {i \in DOMAIN Args(v) : of(i).status \notin Passed(v)}
      first == CHOOSE i \in stops : \A j \in stops : i <= j
  IN CASE ~def[v].enabled -> [status |-> "disabled", value |-> {}]
       [] def[v].enabled /\ def[v].source = "present" -> Concluded(v, "found", {v})
       [] def[v].enabled /\ def[v].source \notin {"present", "computed"} -> Concluded(v, "missing", {})
       [] OTHER ->
            IF stops # {}
              THEN Concluded(v, IF of(first).status \in Valued THEN "found" ELSE "error", of(first).value)
              ELSE Concluded(v, Ending(v, Lacks(m, v)), All(m, v))

\* Without cycles a variable has one meaning, found after as many rounds as there are
\* variables.
Meaning ==
  LET m[n \in 0 .. Cardinality(Vars)] ==
        [v \in Vars |-> IF n = 0 THEN [status |-> "missing", value |-> {}]
                        ELSE MeaningFrom(v, m[n - 1])]
  IN m[Cardinality(Vars)]

\* "Deterministic variable resolution" (docstring of the module): in a payload the
\* validation accepts every variable gets what its definition means, in whatever
\* order the variables are declared and whichever frame resolved it first.
OrderIrrelevant ==
  Valid /\ Finished =>
    \A v \in Vars : cache[v].status = Meaning[v].status /\ cache[v].value = Meaning[v].value

\* What a trace shows of a result: redacted_value, and the text of an error as it is.
Shown(r) == IF r.sensitive /\ r.status \in Valued THEN {} ELSE r.value

\* Some variable that v leads to is a conversion that fails.
Converts(v) == \E u \in Reachable(v) : def[u].op = "convert"

\* The data of a sensitive variable, also what was computed from it over several steps,
\* is shown at one kind of place only: in the text of the error of a conversion that
\* failed, its own or that of a reference.  There too the result is marked sensitive.
SensitiveRedacted ==
  \A v \in DOMAIN cache \cap Vars :
    (\E w \in Shown(cache[v]) : def[w].sensitive) =>
      cache[v].status = "error" /\ cache[v].sensitive /\ Converts(v)

\* What a variable is resolved to does not depend on the order of declaration, and
\* nothing that was computed from a sensitive variable is shown, but for the texts of
\* failed conversions.
ResolutionSound == OrderIrrelevant /\ SensitiveRedacted
=============================================================================
