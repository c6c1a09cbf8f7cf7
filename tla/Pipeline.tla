----------------------------- MODULE Pipeline -----------------------------
(***************************************************************************)
(* A Pipeline and the Mission that the daemon runs for it (pipeline.py and  *)
(* the run and status half of mission.py): the plan is built step by step,  *)
(* compiled to EAL, submitted, and checked against the child Invocations    *)
(* that the daemon reports.  The daemon is external: it runs the steps in   *)
(* an order that the plan allows and may bind another ability than asked.   *)
(***************************************************************************)
EXTENDS Naturals, Sequences, FiniteSets

CONSTANTS
    Refs,           \* qualified ability names
    BaseOf,         \* [Refs -> base alias]; a name is its tokens, numbered
    Foreign,        \* the output of a step of another pipeline
    MaxSteps,       \* bound of the plan
    MaxFacts        \* bound of the child facts of one Mission

ASSUME PipelineAssumption ==
    /\ BaseOf \in [Refs -> Seq(Nat)]
    /\ {MaxSteps, MaxFacts} \subseteq Nat

VARIABLES
    plan,           \* Pipeline._steps
    eal,            \* the plan as it was submitted; what the daemon runs
    run,            \* the Mission: "none", "running", "cancelled", "finished"
    facts,          \* child_invocations of the Mission's status
    report          \* history: the plans that passed the conformance check

planVars == <<plan, eal, run, facts, report>>

PlanInit ==
    plan = <<>> /\ eal = <<>> /\ run = "none" /\ facts = {} /\ report = {}

Aliases(p) == {p[i].alias : i \in DOMAIN p}

\* Mutant: the counter is the number of steps, not the first free one.
CountedAlias(ref, used) ==
    IF BaseOf[ref] \notin used THEN BaseOf[ref]
    ELSE Append(BaseOf[ref], Cardinality(used))

\* The base of the name, or the base with the first counter that is free.
FreshAlias(ref, used) ==
    LET base   == BaseOf[ref]
        counter == CHOOSE n \in 2 .. Cardinality(used) + 2 :
                     /\ Append(base, n) \notin used
                     /\ \A m \in 2 .. n - 1 : Append(base, m) \in used
    IN  IF base \notin used THEN base ELSE Append(base, counter)

\* A field is a scalar or the output of a step whose alias is in the plan.
ValidField(output, used) == output \in used

\* Pipeline.step(): the fields are checked before the alias is chosen.
Step(ref, outputs) ==
    /\ Len(plan) < MaxSteps
    /\ \A o \in outputs : ValidField(o, Aliases(plan))
    /\ plan' = Append(plan, [alias |-> FreshAlias(ref, Aliases(plan)),
                             ref |-> ref, uses |-> outputs])
    /\ UNCHANGED <<eal, run, facts, report>>

\* Rendered, a step binds its alias and names the outputs that it uses.
Render(step) == [let |-> step.alias, call |-> step.ref, with |-> step.uses]

ToEal(p) == [i \in DOMAIN p |-> Render(p[i])]

\* Pipeline.run(); an empty plan is refused.
RunEal ==
    /\ run = "none" /\ plan # <<>>
    /\ run' = "running"
    /\ eal' = ToEal(plan)
    /\ UNCHANGED <<plan, facts, report>>

Cancel ==
    /\ run = "running"
    /\ run' = "cancelled"
    /\ UNCHANGED <<plan, eal, facts, report>>

\* MissionChildInvocation.from_mapping() refuses a fact that lacks a field.
FactAccepted(f) == f.complete

\* MissionStatus.from_json() refuses two facts of one step.
StatusAccepted(fs) ==
    /\ \A f \in fs : FactAccepted(f)
    /\ \A f, g \in fs : f.step = g.step => f = g

\* Mutant: steps without a fact are not missing.
PassedWithoutMissing(p, fs) ==
    \A i \in DOMAIN p, f \in fs :
      f.step = p[i].alias => f.ability = p[i].ref /\ f.complete

\* _child_complete(): asked again, of a status that was not parsed.
ChildComplete(f) == f.complete

\* Conformance.passed over the intents of the plan as it is now.
Passed(p, fs) ==
    LET expected == Aliases(p)
        observed == {f.step : f \in fs}
    IN  /\ expected \subseteq observed          \* missing_steps
        /\ observed \subseteq expected          \* unexpected_steps
        /\ \A i \in DOMAIN p, f \in fs :
             f.step = p[i].alias => f.ability = p[i].ref /\ ChildComplete(f)

\* validate_child_invocations() over the status as it is now.
Validate ==
    /\ run # "none"
    /\ StatusAccepted(facts) /\ Passed(plan, facts)
    /\ report' = report \cup {plan}
    /\ UNCHANGED <<plan, eal, run, facts>>

----------------------------------------------------------------------------
(* The daemon                                                               *)

Done == {f.step : f \in facts}

\* One step of the submitted plan runs.  The runtime may have bound another
\* ability, a fact may lack a field, and a retry is a fact of its own.
DaemonStep(i) ==
    /\ run = "running"
    /\ eal[i].with \subseteq Done
    /\ Cardinality(facts) < MaxFacts
    /\ \E ability \in Refs, complete \in BOOLEAN :
         LET fact == [step |-> eal[i].let, ability |-> ability, complete |-> complete]
         IN  /\ complete \/ ability = eal[i].call
             /\ fact \notin facts
             /\ facts' = facts \cup {fact}
    /\ UNCHANGED <<plan, eal, run, report>>

DaemonFinish ==
    /\ run \in {"running", "cancelled"}
    /\ run' = "finished"
    /\ UNCHANGED <<plan, eal, facts, report>>

----------------------------------------------------------------------------
\* The outputs that a caller passes.
Outputs == {{}, {Foreign}} \cup {{o} : o \in Aliases(plan)}

PlanNext ==
    \/ \E ref \in Refs, outputs \in Outputs : Step(ref, outputs)
    \/ RunEal \/ Cancel \/ Validate
    \/ \E i \in DOMAIN eal : DaemonStep(i)
    \/ DaemonFinish

----------------------------------------------------------------------------
(* Properties                                                               *)

\* The EAL names a step by its alias.  Every alias names one step only, and a
\* step uses outputs of earlier steps of its own plan (pipeline.py: "earlier-step
\* outputs are its only dependency edges").
PlanOrdered ==
    \A i \in DOMAIN plan :
      /\ \A j \in DOMAIN plan : plan[i].alias = plan[j].alias => i = j
      /\ \A o \in plan[i].uses : \E j \in 1 .. i - 1 : plan[j].alias = o

\* A plan that passed the conformance check is the plan that was submitted, and
\* each of its steps ran under its own ability: steps appended after run() or
\* still running do not pass.
PassedMeansRun ==
    \A p \in report :
      /\ ToEal(p) = eal
      /\ \A i \in DOMAIN p : \E f \in facts :
           f.step = p[i].alias /\ f.ability = p[i].ref /\ f.complete

=============================================================================
