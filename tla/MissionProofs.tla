--------------------------- MODULE MissionProofs ---------------------------
(***************************************************************************)
(* Theorems about Pipeline and EventTail: plans of any length over any      *)
(* names, and logs, pages and faults of any number.                         *)
(***************************************************************************)
EXTENDS Mission, FiniteSetTheorems, WellFoundedInduction, TLAPS

\* A Mission that was submitted runs a first part of the plan, and what it
\* reports are steps of that part.
SubmittedIsPlan ==
    /\ Len(eal) <= Len(plan)
    /\ \A i \in 1..Len(eal) : eal[i] = Render(plan[i])
    /\ \A f \in facts : \E i \in 1..Len(eal) : f.step = eal[i].let
    /\ run = "none" => facts = {} /\ report = {}

PlanSteps == [alias : Seq(Nat), ref : Refs, uses : SUBSET Seq(Nat)]
EalSteps == [let : Seq(Nat), call : Refs, with : SUBSET Seq(Nat)]

PlanTypeOK == plan \in Seq(PlanSteps) /\ eal \in Seq(EalSteps)

PipelineInv == PlanTypeOK /\ PlanOrdered /\ SubmittedIsPlan /\ PassedMeansRun

Increasing(s) == \A i, j \in 1 .. Len(s) : i < j => s[i] < s[j]

\* s lists the members of S in order.
Lists(s, S) ==
    /\ s \in Seq(S)
    /\ Increasing(s)
    /\ \A e \in S : \E i \in 1 .. Len(s) : s[i] = e

MineIn(from, to) == {i \in from + 1 .. to : log[i] # "other"}

TailTypeOK ==
    /\ log \in Seq({"step", "terminal", "other"})
    /\ floor \in 0 .. Len(log)
    /\ cursor \in 0 .. Len(log)
    /\ delivered \in Seq(Nat) /\ buffer \in Seq(Nat)

\* The Mission has no event after its terminal one.
TerminalIsLast ==
    \A i, j \in 1 .. Len(log) : log[i] = "terminal" /\ i < j => log[j] = "other"

\* What was handed out, with what is buffered, is all up to the cursor, and a page
\* is requested only when the buffer is empty.
HandedInOrder ==
    /\ Lists(delivered \o buffer, MineIn(0, cursor))
    /\ pc # "idle" => buffer = <<>>

TailInv == TailTypeOK /\ TerminalIsLast /\ HandedInOrder

-----------------------------------------------------------------------------
(* Natural numbers                                                          *)

\* The order of the natural numbers, as a set of pairs, is well-founded.
LEMMA NatBelow ==
    \E R : /\ IsWellFoundedOn(R, Nat)
           /\ \A x, y \in Nat : <<x, y>> \in R <=> x < y
<1>1. \A x, y \in Nat : <<x, y>> \in OpToRel(<, Nat) <=> x < y
  BY DEF OpToRel
<1>. QED  BY <1>1, NatLessThanWellFounded, Zenon

\* A set of natural numbers that is not empty has a least one.
LEMMA SetLeast ==
    ASSUME NEW S \in SUBSET Nat, S # {}
    PROVE  \E m \in S : \A k \in S : m <= k
<1>1. PICK R : IsWellFoundedOn(R, Nat) /\ \A x, y \in Nat : <<x, y>> \in R <=> x < y
  BY NatBelow
<1>2. S \subseteq Nat
  OBVIOUS
<1>3. IsWellFoundedOn(R, Nat)
  BY <1>1
<1>4. \E m \in S : \A k \in S : ~(<<k, m>> \in R)
  BY <1>2, <1>3, WFMin, Zenon
<1>5. PICK m \in S : \A k \in S : ~(<<k, m>> \in R)
  BY <1>4
<1>6. \A k \in S : k \in Nat /\ m \in Nat /\ ~(k < m)
  BY <1>1, <1>2, <1>5
<1>7. \A k, l \in Nat : ~(k < l) => l <= k
  OBVIOUS
<1>. QED  BY <1>6, <1>7

\* A set that contains zero and the successor of each member contains all.
LEMMA SetInduction ==
    ASSUME NEW S \in SUBSET Nat, 0 \in S, \A n \in S : n + 1 \in S
    PROVE  S = Nat
<1> SUFFICES ASSUME Nat \ S # {} PROVE FALSE
  OBVIOUS
<1>1. PICK m \in Nat \ S : \A k \in Nat \ S : m <= k
  <2>1. Nat \ S \in SUBSET Nat
    OBVIOUS
  <2>. QED  BY <2>1, SetLeast
<1>2. m # 0 /\ m - 1 \in Nat
  BY <1>1
<1>3. m - 1 \in S
  BY <1>1, <1>2
<1>. QED  BY <1>1, <1>2, <1>3

-----------------------------------------------------------------------------
(* Aliases                                                                  *)

\* A numbered alias tells its number.
LEMMA AppendInjective ==
    ASSUME NEW s \in Seq(Nat), NEW k \in Nat, NEW l \in Nat, Append(s, k) = Append(s, l)
    PROVE  k = l
<1>1. Append(s, k)[Len(s) + 1] = k /\ Append(s, l)[Len(s) + 1] = l
  OBVIOUS
<1>. QED  BY <1>1

\* Of one more number than there are aliases, one is free.
LEMMA FreeCounter ==
    ASSUME NEW base \in Seq(Nat), NEW used, IsFiniteSet(used)
    PROVE  \E n \in 2 .. Cardinality(used) + 2 : Append(base, n) \notin used
<1> DEFINE last == Cardinality(used) + 2
<1> DEFINE f == [n \in 2 .. last |-> Append(base, n)]
<1>1. Cardinality(used) \in Nat
  BY FS_CardinalityType
<1>2. IsFiniteSet(2 .. last) /\ Cardinality(2 .. last) = Cardinality(used) + 1
  <2>1. 2 \in Int /\ last \in Int /\ ~(2 > last) /\ last - 2 + 1 = Cardinality(used) + 1
    BY <1>1
  <2> HIDE DEF last
  <2>. QED  BY <2>1, FS_Interval
<1> SUFFICES ASSUME \A n \in 2 .. last : Append(base, n) \in used PROVE FALSE
  OBVIOUS
<1>3. f \in [2 .. last -> used]
  OBVIOUS
<1>4. PICK x, y \in 2 .. last : x # y /\ f[x] = f[y]
  <2> HIDE DEF f, last
  <2>1. Cardinality(used) < Cardinality(2 .. last)
    BY <1>1, <1>2
  <2>. QED  BY <1>2, <1>3, <2>1, FS_PigeonHole
<1>5. x \in Nat /\ y \in Nat /\ Append(base, x) = Append(base, y)
  BY <1>1, <1>4
<1>. QED  BY <1>4, <1>5, AppendInjective

\* The alias that a step gets is one that no step has.
LEMMA AliasIsFresh ==
    ASSUME NEW ref \in Refs, NEW used, IsFiniteSet(used)
    PROVE  FreshAlias(ref, used) \in Seq(Nat) /\ FreshAlias(ref, used) \notin used
<1> DEFINE base == BaseOf[ref]
<1> DEFINE free == {n \in 2 .. Cardinality(used) + 2 : Append(base, n) \notin used}
<1>1. base \in Seq(Nat)
  BY PipelineAssumption
<1>2. CASE base \notin used
  BY <1>1, <1>2 DEF FreshAlias
<1>3. CASE base \in used
  <2>1. free # {}
    BY <1>1, FreeCounter
  <2>2. free \in SUBSET Nat
    BY FS_CardinalityType
  <2>3. PICK n \in free : \A k \in free : n <= k
    <3> HIDE DEF free
    <3>. QED  BY <2>1, <2>2, SetLeast
  <2>4. /\ n \in 2 .. Cardinality(used) + 2
        /\ Append(base, n) \notin used
        /\ \A m \in 2 .. n - 1 : Append(base, m) \in used
    BY <2>3, FS_CardinalityType
  <2> DEFINE counter == CHOOSE c \in 2 .. Cardinality(used) + 2 :
                          /\ Append(base, c) \notin used
                          /\ \A m \in 2 .. c - 1 : Append(base, m) \in used
  <2>5. counter \in 2 .. Cardinality(used) + 2 /\ Append(base, counter) \notin used
    BY <2>4
  <2>6. FreshAlias(ref, used) = Append(base, counter)
    BY <1>3 DEF FreshAlias
  <2>7. counter \in Nat
    BY <2>5, FS_CardinalityType
  <2> HIDE DEF counter, base
  <2>. QED  BY <1>1, <2>5, <2>6, <2>7
<1>. QED  BY <1>2, <1>3

\* A plan has finitely many aliases.
LEMMA AliasesFinite ==
    ASSUME NEW p, NEW S, p \in Seq(S)
    PROVE  IsFiniteSet(Aliases(p))
<1> DEFINE s == [i \in 1 .. Len(p) |-> p[i].alias]
<1>1. s \in Seq(Aliases(p)) /\ Len(s) = Len(p)
  BY DEF Aliases
<1>2. \A a \in Aliases(p) : \E i \in 1 .. Len(s) : s[i] = a
  BY <1>1 DEF Aliases
<1>. QED  BY <1>1, <1>2 DEF IsFiniteSet

-----------------------------------------------------------------------------
(* The pipeline                                                             *)

\* The positions of a plan and of what was submitted, and the type of an alias.
LEMMA PlanDomain ==
    PlanTypeOK =>
      /\ Len(plan) \in Nat /\ DOMAIN plan = 1 .. Len(plan)
      /\ Len(eal) \in Nat /\ DOMAIN eal = 1 .. Len(eal)
      /\ \A i \in 1 .. Len(plan) :
           plan[i].alias \in Seq(Nat) /\ plan[i].ref \in Refs /\ plan[i].uses \subseteq Seq(Nat)
<1> SUFFICES ASSUME PlanTypeOK PROVE /\ Len(plan) \in Nat /\ DOMAIN plan = 1 .. Len(plan)
                      /\ Len(eal) \in Nat /\ DOMAIN eal = 1 .. Len(eal)
                      /\ \A i \in 1 .. Len(plan) :
                           /\ plan[i].alias \in Seq(Nat) /\ plan[i].ref \in Refs
                           /\ plan[i].uses \subseteq Seq(Nat)
  OBVIOUS
<1>1. plan \in Seq(PlanSteps) /\ eal \in Seq(EalSteps)
  BY DEF PlanTypeOK
<1>2. /\ Len(plan) \in Nat /\ DOMAIN plan = 1 .. Len(plan)
      /\ Len(eal) \in Nat /\ DOMAIN eal = 1 .. Len(eal)
      /\ \A i \in 1 .. Len(plan) : plan[i] \in PlanSteps
  BY <1>1
<1>3. \A s \in PlanSteps : s.alias \in Seq(Nat) /\ s.ref \in Refs /\ s.uses \subseteq Seq(Nat)
  BY DEF PlanSteps
<1>. QED  BY <1>2, <1>3

\* An empty plan is ordered and was not submitted.
LEMMA PipelineStarts == PlanInit => PipelineInv
BY DEF PlanInit, PipelineInv, PlanTypeOK, PlanOrdered, SubmittedIsPlan, PassedMeansRun

\* A step that is appended keeps the plan ordered, and what was submitted a first
\* part of it.
LEMMA StepOrdered ==
    ASSUME PipelineInv, NEW ref \in Refs, NEW outputs \in Outputs, Step(ref, outputs)
    PROVE  PipelineInv'
<1> DEFINE alias == FreshAlias(ref, Aliases(plan))
<1> DEFINE step == [alias |-> alias, ref |-> ref, uses |-> outputs]
<1> USE DEF PipelineInv
<1>1. plan' = Append(plan, step) /\ UNCHANGED <<eal, run, facts, report>>
  BY DEF Step
<1>2. alias \in Seq(Nat) /\ alias \notin Aliases(plan)
  BY AliasesFinite, AliasIsFresh DEF PlanTypeOK
<1>3. \A i \in 1 .. Len(plan) : plan[i].alias \in Aliases(plan)
  BY DEF Aliases, PlanTypeOK
<1>4. \A o \in outputs : \E j \in 1 .. Len(plan) : plan[j].alias = o
  <2>1. \A o \in outputs : o \in Aliases(plan)
    BY DEF Step, ValidField
  <2>. QED  BY <2>1, PlanDomain DEF Aliases
<1>5. outputs \in SUBSET Seq(Nat)
  BY <1>4, PlanDomain
<1> HIDE DEF alias
<1>6. /\ Len(plan') = Len(plan) + 1
      /\ \A i \in 1 .. Len(plan) : plan'[i] = plan[i]
      /\ plan'[Len(plan) + 1] = step
  BY <1>1 DEF PlanTypeOK
<1>7. PlanTypeOK'
  <2>1. step \in PlanSteps
    BY <1>2, <1>5 DEF PlanSteps
  <2> HIDE DEF step
  <2>. QED  BY <1>1, <2>1 DEF PlanTypeOK
<1>8. PlanOrdered'
  <2> SUFFICES ASSUME NEW i \in 1 .. Len(plan) + 1
               PROVE  /\ \A j \in 1 .. Len(plan) + 1 : plan'[i].alias = plan'[j].alias => i = j
                      /\ \A o \in plan'[i].uses : \E j \in 1 .. i - 1 : plan'[j].alias = o
    <3>1. DOMAIN plan' = 1 .. Len(plan) + 1
      BY <1>6, <1>7, PlanDomain DEF PlanTypeOK
    <3>. QED  BY <3>1 DEF PlanOrdered
  <2>1. CASE i = Len(plan) + 1
    <3>1. plan'[i].alias = alias /\ plan'[i].uses = outputs
      BY <1>6, <2>1
    <3>2. \A j \in 1 .. Len(plan) : plan'[j].alias # alias
      BY <1>2, <1>3, <1>6
    <3>3. \A o \in outputs : \E j \in 1 .. i - 1 : plan'[j].alias = o
      <4>1. i - 1 = Len(plan)
        BY <2>1, PlanDomain
      <4>. QED  BY <1>4, <1>6, <4>1
    <3>4. \A j \in 1 .. Len(plan) + 1 : j = i \/ j \in 1 .. Len(plan)
      BY <2>1, PlanDomain
    <3>. QED  BY <3>1, <3>2, <3>3, <3>4
  <2>2. CASE i \in 1 .. Len(plan)
    <3>1. \A j \in 1 .. Len(plan) : plan[i].alias = plan[j].alias => i = j
      BY <2>2, PlanDomain DEF PlanOrdered
    <3>2. \A o \in plan[i].uses : \E j \in 1 .. i - 1 : plan[j].alias = o
      BY <2>2, PlanDomain DEF PlanOrdered
    <3>3. plan'[Len(plan) + 1].alias = alias /\ alias # plan[i].alias
      BY <1>2, <1>3, <1>6, <2>2
    <3>4. \A j \in 1 .. i - 1 : plan'[j] = plan[j]
      BY <1>6, <2>2, PlanDomain
    <3>5. \A j \in 1 .. Len(plan) + 1 : j = Len(plan) + 1 \/ j \in 1 .. Len(plan)
      <4>1. \A n \in Nat : \A j \in 1 .. n + 1 : j = n + 1 \/ j \in 1 .. n
        OBVIOUS
      <4>2. Len(plan) \in Nat
        BY PlanDomain
      <4>. QED  BY <4>1, <4>2
    <3>6. plan'[i] = plan[i] /\ \A j \in 1 .. Len(plan) : plan'[j] = plan[j]
      BY <1>6, <2>2
    <3>. QED  BY <3>1, <3>2, <3>3, <3>4, <3>5, <3>6
  <2>. QED  BY <2>1, <2>2 DEF PlanTypeOK
<1>9. SubmittedIsPlan'
  <2>1. Len(eal) <= Len(plan')
    BY <1>6 DEF SubmittedIsPlan, PlanTypeOK
  <2>2. \A i \in 1 .. Len(eal) : eal[i] = Render(plan'[i])
    <3> SUFFICES ASSUME NEW i \in 1 .. Len(eal) PROVE eal[i] = Render(plan'[i])
      OBVIOUS
    <3>1. plan'[i] = plan[i] /\ eal[i] = Render(plan[i])
      BY <1>6 DEF SubmittedIsPlan, PlanTypeOK
    <3>. QED  BY <3>1
  <2>. QED  BY <1>1, <2>1, <2>2 DEF SubmittedIsPlan, Render
<1>10. PassedMeansRun'
  BY <1>1 DEF PassedMeansRun, ToEal, Render
<1>. QED  BY <1>7, <1>8, <1>9, <1>10

\* The plan is submitted as it is.
LEMMA RunSubmits == PipelineInv /\ RunEal => PipelineInv'
<1> SUFFICES ASSUME PipelineInv, RunEal PROVE PipelineInv'
  OBVIOUS
<1> USE DEF PipelineInv
<1>1. eal' = ToEal(plan) /\ run' # "none" /\ UNCHANGED <<plan, facts, report>>
  BY DEF RunEal
<1>2. Len(eal') = Len(plan) /\ \A i \in 1 .. Len(plan) : eal'[i] = Render(plan[i])
  BY <1>1 DEF ToEal, PlanTypeOK
<1>3. PlanTypeOK'
  <2>1. \A i \in 1 .. Len(plan) : Render(plan[i]) \in EalSteps
    BY PlanDomain DEF EalSteps, Render
  <2>. QED  BY <1>1, <2>1, PlanDomain DEF PlanTypeOK, ToEal
<1>4. facts = {} /\ report = {}
  BY DEF RunEal, SubmittedIsPlan
<1>5. SubmittedIsPlan'
  BY <1>1, <1>2, <1>4 DEF SubmittedIsPlan, Render, PlanTypeOK
<1>. QED  BY <1>1, <1>3, <1>4, <1>5 DEF PlanOrdered, PassedMeansRun

\* A plan passes only if every alias was reported, and then nothing was appended
\* since it was submitted.
LEMMA ValidateMeansRun == PipelineInv /\ Validate => PipelineInv'
<1> SUFFICES ASSUME PipelineInv, Validate PROVE PipelineInv'
  OBVIOUS
<1> USE DEF PipelineInv
<1>1. Passed(plan, facts) /\ report' = report \cup {plan} /\ UNCHANGED <<plan, eal, run, facts>>
  BY DEF Validate
<1>2. \A i \in 1 .. Len(plan) : \E f \in facts :
        f.step = plan[i].alias /\ f.ability = plan[i].ref /\ f.complete
  <2> SUFFICES ASSUME NEW i \in 1 .. Len(plan)
               PROVE  \E f \in facts :
                        f.step = plan[i].alias /\ f.ability = plan[i].ref /\ f.complete
    OBVIOUS
  <2>1. i \in DOMAIN plan
    BY DEF PlanTypeOK
  <2>2. PICK f \in facts : f.step = plan[i].alias
    BY <1>1, <2>1 DEF Passed, Aliases
  <2>. QED  BY <1>1, <2>1, <2>2 DEF Passed, ChildComplete
<1>3. Len(eal) = Len(plan)
  <2> SUFFICES ASSUME Len(eal) < Len(plan) PROVE FALSE
    BY DEF SubmittedIsPlan, PlanTypeOK
  <2>1. Len(plan) \in 1 .. Len(plan)
    BY DEF PlanTypeOK
  <2>2. PICK f \in facts : f.step = plan[Len(plan)].alias
    BY <1>2, <2>1
  <2>3. PICK j \in 1 .. Len(eal) : f.step = eal[j].let
    BY DEF SubmittedIsPlan
  <2>4. eal[j].let = plan[j].alias
    <3>1. eal[j] = Render(plan[j])
      BY DEF SubmittedIsPlan
    <3>. QED  BY <3>1 DEF Render
  <2>5. DOMAIN plan = 1 .. Len(plan) /\ Len(plan) \in Nat /\ Len(eal) \in Nat
    BY PlanDomain
  <2>6. j \in 1 .. Len(plan) /\ j # Len(plan)
    <3>1. \A a, b \in Nat : a < b => \A k \in 1 .. a : k \in 1 .. b /\ k # b
      OBVIOUS
    <3>. QED  BY <2>3, <2>5, <3>1
  <2>. QED  BY <2>1, <2>2, <2>3, <2>4, <2>5, <2>6 DEF PlanOrdered
<1>4. ToEal(plan) = eal
  <2>1. DOMAIN plan = 1 .. Len(eal) /\ DOMAIN eal = 1 .. Len(eal)
    BY <1>3 DEF PlanTypeOK
  <2>2. eal = [i \in 1 .. Len(eal) |-> eal[i]]
    BY DEF PlanTypeOK
  <2>. QED  BY <2>1, <2>2 DEF ToEal, SubmittedIsPlan
<1>5. PassedMeansRun'
  <2> SUFFICES ASSUME NEW p \in report'
               PROVE  /\ ToEal(p) = eal
                      /\ \A i \in DOMAIN p : \E f \in facts :
                           f.step = p[i].alias /\ f.ability = p[i].ref /\ f.complete
    BY <1>1 DEF PassedMeansRun, ToEal, Render
  <2>1. CASE p \in report
    BY <2>1 DEF PassedMeansRun
  <2>2. CASE p = plan
    BY <1>2, <1>4, <2>2, PlanDomain
  <2>. QED  BY <1>1, <2>1, <2>2
<1>6. run # "none"
  BY DEF Validate
<1>. QED  BY <1>1, <1>5, <1>6 DEF PlanTypeOK, PlanOrdered, SubmittedIsPlan, Render

\* The daemon reports steps of what was submitted and takes nothing back.
LEMMA DaemonKeepsPlan ==
    ASSUME PipelineInv, \/ \E i \in DOMAIN eal : DaemonStep(i)
                        \/ Cancel
                        \/ DaemonFinish
    PROVE  PipelineInv'
<1> USE DEF PipelineInv
<1>1. UNCHANGED <<plan, eal, report>> /\ facts \subseteq facts' /\ run' # "none"
  BY DEF DaemonStep, Cancel, DaemonFinish
<1>2. \A f \in facts' : \E i \in 1 .. Len(eal) : f.step = eal[i].let
  <2>1. CASE \E i \in DOMAIN eal : DaemonStep(i)
    <3>1. PICK i \in 1 .. Len(eal) : DaemonStep(i)
      BY <2>1, PlanDomain
    <3>2. \A f \in facts' : f \in facts \/ f.step = eal[i].let
      BY <3>1 DEF DaemonStep
    <3>. QED  BY <3>2 DEF SubmittedIsPlan
  <2>2. CASE Cancel \/ DaemonFinish
    BY <2>2 DEF Cancel, DaemonFinish, SubmittedIsPlan
  <2>. QED  BY <2>1, <2>2
<1>3. PassedMeansRun'
  BY <1>1 DEF PassedMeansRun, ToEal, Render
<1>. QED  BY <1>1, <1>2, <1>3 DEF PlanTypeOK, PlanOrdered, SubmittedIsPlan, Render

\* The invariant of the pipeline is inductive.
LEMMA PipelineKept == PipelineInv /\ [Next]_vars => PipelineInv'
<1> SUFFICES ASSUME PipelineInv, [Next]_vars PROVE PipelineInv'
  OBVIOUS
<1>1. CASE PlanNext
  BY <1>1, StepOrdered, RunSubmits, ValidateMeansRun, DaemonKeepsPlan DEF PlanNext
<1>2. CASE UNCHANGED planVars
  BY <1>2 DEF planVars, PipelineInv, PlanTypeOK, PlanOrdered, SubmittedIsPlan,
              PassedMeansRun, ToEal, Render
<1>. QED  BY <1>1, <1>2 DEF Next, vars

\* Every reachable state of a pipeline satisfies its inductive invariant.
THEOREM PipelineInvariance == Spec => []PipelineInv
<1>1. Init => PipelineInv
  BY PipelineStarts DEF Init
<1>. QED  BY <1>1, PipelineKept, PTL DEF Spec

\* Every alias of a plan names one step, and a step uses outputs of earlier steps of
\* its own plan (PlanOrdered).
THEOREM PlanStaysOrdered == Spec => []PlanOrdered
BY PipelineInvariance, PTL DEF PipelineInv

\* A plan that passed the conformance check is the plan that was submitted, and each
\* of its steps ran under its own ability (PassedMeansRun).
THEOREM PassedPlanRan == Spec => []PassedMeansRun
BY PipelineInvariance, PTL DEF PipelineInv

-----------------------------------------------------------------------------
(* Sequences that list a set                                                *)

\* Every set of numbers up to a bound is listed by a sequence of as many members.
LEMMA ListExists ==
    ASSUME NEW n \in Nat, NEW S \in SUBSET (1 .. n)
    PROVE  /\ IsFiniteSet(S) /\ Cardinality(S) \in Nat
           /\ \E s \in [1 .. Cardinality(S) -> S] : Increasing(s)
<1> DEFINE Listed(m) == \A T \in SUBSET (1 .. m) :
                          /\ IsFiniteSet(T)
                          /\ \E s \in [1 .. Cardinality(T) -> T] : Increasing(s)
<1> DEFINE Ns == {m \in Nat : Listed(m)}
<1>1. Listed(0)
  <2> SUFFICES ASSUME NEW T \in SUBSET (1 .. 0)
               PROVE  IsFiniteSet(T) /\ \E s \in [1 .. Cardinality(T) -> T] : Increasing(s)
    OBVIOUS
  <2>1. T = {} /\ 1 .. 0 = {}
    OBVIOUS
  <2>2. IsFiniteSet({}) /\ Cardinality({}) = 0
    BY FS_EmptySet
  <2>3. <<>> \in [1 .. 0 -> {}] /\ Len(<<>>) = 0
    OBVIOUS
  <2>4. Increasing(<<>>)
    BY <2>1, <2>3 DEF Increasing
  <2>. QED  BY <2>1, <2>2, <2>3, <2>4
<1>2. ASSUME NEW m \in Nat, Listed(m) PROVE Listed(m + 1)
  <2> SUFFICES ASSUME NEW T \in SUBSET (1 .. m + 1)
               PROVE  IsFiniteSet(T) /\ \E s \in [1 .. Cardinality(T) -> T] : Increasing(s)
    OBVIOUS
  <2>1. CASE m + 1 \notin T
    <3>1. T \in SUBSET (1 .. m)
      BY <2>1
    <3>. QED  BY <1>2, <3>1
  <2>2. CASE m + 1 \in T
    <3> DEFINE U == T \ {m + 1}
    <3>1. U \in SUBSET (1 .. m) /\ U \cup {m + 1} = T /\ m + 1 \notin U
      BY <2>2
    <3> HIDE DEF U
    <3>2. IsFiniteSet(U)
      BY <1>2, <3>1
    <3>3. PICK s \in [1 .. Cardinality(U) -> U] : Increasing(s)
      BY <1>2, <3>1
    <3>4. IsFiniteSet(T) /\ Cardinality(T) = Cardinality(U) + 1
      BY <3>1, <3>2, FS_AddElement
    <3>5. Cardinality(U) \in Nat
      BY <3>2, FS_CardinalityType
    <3> DEFINE c == Cardinality(U)
    <3> DEFINE t == [i \in 1 .. c + 1 |-> IF i = c + 1 THEN m + 1 ELSE s[i]]
    <3>6. c \in Nat /\ \A i \in 1 .. c + 1 : i = c + 1 \/ i \in 1 .. c
      BY <3>5
    <3>7. \A i \in 1 .. c : s[i] \in U /\ s[i] \in 1 .. m /\ i # c + 1
      <4>1. \A u \in U : u \in 1 .. m
        BY <3>1
      <4>2. \A i \in 1 .. c : s[i] \in U /\ i # c + 1
        BY <3>3, <3>5
      <4>. QED  BY <4>1, <4>2
    <3>8. t \in [1 .. c + 1 -> T]
      BY <2>2, <3>1, <3>6, <3>7
    <3>9. Len(t) = c + 1 /\ Len(s) = c
      BY <3>5
    <3>10. Increasing(t)
      <4> SUFFICES ASSUME NEW i \in 1 .. c + 1, NEW j \in 1 .. c + 1, i < j PROVE t[i] < t[j]
        BY <3>9 DEF Increasing
      <4>1. i \in 1 .. c /\ t[i] = s[i]
        BY <3>6
      <4>2. CASE j = c + 1
        BY <3>7, <4>1, <4>2
      <4>3. CASE j \in 1 .. c
        BY <3>3, <3>7, <3>9, <4>1, <4>3 DEF Increasing
      <4>. QED  BY <3>6, <4>2, <4>3
    <3>. QED  BY <3>4, <3>8, <3>10
  <2>. QED  BY <2>1, <2>2
<1>3. Ns = Nat
  <2> HIDE DEF Listed
  <2>1. Ns \in SUBSET Nat /\ 0 \in Ns /\ \A m \in Ns : m + 1 \in Ns
    BY <1>1, <1>2
  <2> HIDE DEF Ns
  <2>. QED  BY <2>1, SetInduction
<1>4. Listed(n)
  BY <1>3
<1>. QED  BY <1>4, FS_CardinalityType

\* A sequence of all members of a finite set, in order, repeats none and misses none.
LEMMA ListComplete ==
    ASSUME NEW S \in SUBSET Nat, IsFiniteSet(S),
           NEW s \in [1 .. Cardinality(S) -> S], Increasing(s)
    PROVE  Lists(s, S)
<1>1. Cardinality(S) \in Nat
  BY FS_CardinalityType
<1> DEFINE c == Cardinality(S)
<1>2. IsFiniteSet(1 .. c) /\ Cardinality(1 .. c) = c
  <2>1. 1 \in Int /\ c \in Int /\ (IF 1 > c THEN 0 ELSE c - 1 + 1) = c
    BY <1>1
  <2> HIDE DEF c
  <2>. QED  BY <2>1, FS_Interval
<1>3. s \in Seq(S) /\ Len(s) = c
  BY <1>1
<1>4. s \in Injection(1 .. c, S)
  <2> SUFFICES ASSUME NEW i \in 1 .. c, NEW j \in 1 .. c, s[i] = s[j] PROVE i = j
    BY DEF Injection, IsInjective
  <2>1. s[i] \in S /\ i \in Nat /\ j \in Nat
    BY <1>1
  <2>2. s[i] \in Nat
    BY <2>1
  <2>. QED  BY <1>1, <1>3, <2>1, <2>2 DEF Increasing
<1>5. s \in Surjection(1 .. c, S)
  BY <1>2, <1>4, FS_Injection
<1>. QED  BY <1>3, <1>5 DEF Lists, Surjection

\* A sequence that lists the members of T up to its own last one begins every
\* sequence that lists T.
LEMMA ListPrefix ==
    ASSUME NEW T \in SUBSET Nat, NEW d \in Seq(T), NEW m, Lists(m, T), Increasing(d),
           \A i \in 1 .. Len(d), e \in T : e < d[i] => \E j \in 1 .. Len(d) : d[j] = e
    PROVE  IsPrefix(d, m)
<1> DEFINE Same(i) == i <= Len(m) /\ d[i] = m[i]
<1> DEFINE bad == {i \in 1 .. Len(d) : ~Same(i)}
<1>1. m \in Seq(T) /\ Len(m) \in Nat /\ Len(d) \in Nat
  BY DEF Lists
<1>2. ASSUME bad # {} PROVE FALSE
  <2>1. PICK i \in bad : \A k \in bad : i <= k
    <3>1. bad \in SUBSET Nat
      BY <1>1
    <3> HIDE DEF bad
    <3>. QED  BY <1>2, <3>1, SetLeast
  <2>2. i \in 1 .. Len(d) /\ ~Same(i) /\ i \in Nat
    BY <1>1, <2>1
  <2>3. \A k \in 1 .. Len(d) : k < i => Same(k)
    BY <1>1, <2>1
  <2>4. d[i] \in T /\ d[i] \in Nat
    <3>1. d[i] \in T
      BY <2>2
    <3>. QED  BY <3>1
  <2>5. PICK j \in 1 .. Len(m) : m[j] = d[i]
    BY <2>4 DEF Lists
  <2>6. j >= i
    <3> SUFFICES ASSUME j < i PROVE FALSE
      BY <1>1, <2>2, <2>5
    <3>1. j \in 1 .. Len(d) /\ d[j] = d[i]
      BY <1>1, <2>2, <2>3, <2>5
    <3>. QED  BY <2>2, <2>4, <3>1 DEF Increasing
  <2>7. i \in 1 .. Len(m) /\ m[i] \in T /\ m[i] \in Nat
    <3>1. i \in 1 .. Len(m)
      BY <1>1, <2>2, <2>5, <2>6
    <3>2. m[i] \in T
      BY <1>1, <3>1
    <3>. QED  BY <3>1, <3>2
  <2>8. m[i] < d[i]
    <3>1. m[i] # d[i]
      BY <1>1, <2>2, <2>7
    <3>2. i # j
      BY <2>5, <3>1
    <3>3. i < j
      BY <1>1, <2>2, <2>5, <2>6, <3>2
    <3>. QED  BY <2>5, <2>7, <3>3 DEF Lists, Increasing
  <2>9. PICK k \in 1 .. Len(d) : d[k] = m[i]
    BY <2>2, <2>7, <2>8
  <2>10. k < i
    <3>1. ~(i < k) /\ k # i
      BY <2>2, <2>4, <2>7, <2>8, <2>9 DEF Increasing
    <3>. QED  BY <1>1, <2>2, <2>9, <3>1
  <2>11. d[k] = m[k] /\ k \in 1 .. Len(m)
    BY <1>1, <2>3, <2>9, <2>10
  <2>12. m[k] < m[i]
    BY <2>7, <2>10, <2>11 DEF Lists, Increasing
  <2>. QED  BY <2>7, <2>9, <2>11, <2>12
<1>3. \A i \in 1 .. Len(d) : i <= Len(m) /\ d[i] = m[i]
  BY <1>2
<1>4. Len(d) <= Len(m)
  BY <1>1, <1>3
<1>. QED  BY <1>1, <1>3, <1>4 DEF IsPrefix

\* A list of larger members continues a list.
LEMMA ListConcat ==
    ASSUME NEW S \in SUBSET Nat, NEW T \in SUBSET Nat, NEW s, NEW t,
           Lists(s, S), Lists(t, T), \A x \in S, y \in T : x < y
    PROVE  Lists(s \o t, S \cup T)
<1> DEFINE u == s \o t
<1>1. s \in Seq(S) /\ t \in Seq(T) /\ Len(s) \in Nat /\ Len(t) \in Nat
  BY DEF Lists
<1>2. /\ u \in Seq(S \cup T) /\ Len(u) = Len(s) + Len(t)
      /\ \A i \in 1 .. Len(s) : u[i] = s[i]
      /\ \A i \in 1 .. Len(t) : u[Len(s) + i] = t[i]
  <2>1. s \in Seq(S \cup T) /\ t \in Seq(S \cup T)
    BY <1>1
  <2>. QED  BY <1>1, <2>1
<1> HIDE DEF u
<1>3. ASSUME NEW i \in 1 .. Len(u), NEW j \in 1 .. Len(u), i < j PROVE u[i] < u[j]
  <2>1. CASE j \in 1 .. Len(s)
    <3>1. i \in 1 .. Len(s)
      BY <1>1, <1>2, <1>3, <2>1
    <3>. QED  BY <1>2, <1>3, <2>1, <3>1 DEF Lists, Increasing
  <2>2. CASE i \in 1 .. Len(s) /\ j \notin 1 .. Len(s)
    <3>1. j - Len(s) \in 1 .. Len(t) /\ j = Len(s) + (j - Len(s))
      BY <1>1, <1>2, <1>3, <2>2
    <3>2. u[j] = t[j - Len(s)] /\ u[i] = s[i]
      BY <1>2, <2>2, <3>1
    <3>3. s[i] \in S /\ t[j - Len(s)] \in T
      BY <1>1, <2>2, <3>1
    <3>. QED  BY <3>2, <3>3
  <2>3. CASE i \notin 1 .. Len(s)
    <3>1. /\ i - Len(s) \in 1 .. Len(t) /\ i = Len(s) + (i - Len(s))
          /\ j - Len(s) \in 1 .. Len(t) /\ j = Len(s) + (j - Len(s))
          /\ i - Len(s) < j - Len(s)
      BY <1>1, <1>2, <1>3, <2>3
    <3>2. u[i] = t[i - Len(s)] /\ u[j] = t[j - Len(s)]
      BY <1>2, <3>1
    <3>. QED  BY <3>1, <3>2 DEF Lists, Increasing
  <2>. QED  BY <2>1, <2>2, <2>3
<1>4. ASSUME NEW e \in S \cup T PROVE \E i \in 1 .. Len(u) : u[i] = e
  <2>1. CASE e \in S
    <3>1. PICK i \in 1 .. Len(s) : s[i] = e
      BY <2>1 DEF Lists
    <3>2. i \in 1 .. Len(u)
      BY <1>1, <1>2, <3>1
    <3>. QED  BY <1>2, <3>1, <3>2
  <2>2. CASE e \in T
    <3>1. PICK i \in 1 .. Len(t) : t[i] = e
      BY <2>2 DEF Lists
    <3>2. Len(s) + i \in 1 .. Len(u)
      BY <1>1, <1>2, <3>1
    <3>. QED  BY <1>2, <3>1, <3>2
  <2>. QED  BY <1>4, <2>1, <2>2
<1>5. u \in Seq(S \cup T) /\ Increasing(u)
  BY <1>2, <1>3 DEF Increasing
<1>. QED  BY <1>4, <1>5 DEF Lists, u

-----------------------------------------------------------------------------
(* The tail                                                                 *)

\* Mine lists the Mission's events of an interval.
LEMMA MineLists ==
    ASSUME NEW from \in Nat, NEW to \in Nat
    PROVE  MineIn(from, to) \in SUBSET Nat /\ Lists(Mine(from, to), MineIn(from, to))
<1> DEFINE S == MineIn(from, to)
<1> DEFINE Ordered(s) == \A i, j \in DOMAIN s : i < j => s[i] < s[j]
<1>1. S \in SUBSET (1 .. to) /\ S \in SUBSET Nat
  BY DEF MineIn
<1>2. IsFiniteSet(S) /\ Cardinality(S) \in Nat
  BY <1>1, ListExists
<1>3. \A s \in [1 .. Cardinality(S) -> S] : Ordered(s) <=> Increasing(s)
  <2>1. \A s \in [1 .. Cardinality(S) -> S] : DOMAIN s = 1 .. Len(s)
    BY <1>2
  <2>. QED  BY <2>1 DEF Increasing
<1>4. \E s \in [1 .. Cardinality(S) -> S] : Ordered(s)
  <2>1. PICK s \in [1 .. Cardinality(S) -> S] : Increasing(s)
    BY <1>1, ListExists
  <2>. QED  BY <1>3, <2>1
<1>5. Mine(from, to) = CHOOSE s \in [1 .. Cardinality(S) -> S] : Ordered(s)
  BY DEF Mine, MineIn
<1>6. Mine(from, to) \in [1 .. Cardinality(S) -> S] /\ Increasing(Mine(from, to))
  <2> HIDE DEF Ordered
  <2>1. Mine(from, to) \in [1 .. Cardinality(S) -> S] /\ Ordered(Mine(from, to))
    BY <1>4, <1>5
  <2>. QED  BY <1>3, <2>1
<1>. QED  BY <1>1, <1>2, <1>6, ListComplete

\* The types of what the tail reads.
LEMMA TailDomain ==
    TailTypeOK =>
      /\ Len(log) \in Nat /\ DOMAIN log = 1 .. Len(log)
      /\ cursor \in Nat /\ cursor <= Len(log) /\ floor \in Nat /\ floor <= Len(log)
BY DEF TailTypeOK

\* A list that is its own reverse in part is too short to be out of order.
LEMMA ReverseLists ==
    ASSUME NEW S \in SUBSET Nat, NEW s, Lists(s, S),
           \A i \in 1 .. Len(Reverse(s)) - 1 : Reverse(s)[i] < Reverse(s)[i + 1]
    PROVE  Reverse(s) = s
<1>1. s \in Seq(S) /\ Len(s) \in Nat
  BY DEF Lists
<1>2. Len(Reverse(s)) = Len(s) /\ \A i \in 1 .. Len(s) : Reverse(s)[i] = s[Len(s) - i + 1]
  BY <1>1 DEF Reverse
<1>3. Len(s) <= 1
  <2> SUFFICES ASSUME Len(s) >= 2 PROVE FALSE
    BY <1>1
  <2>1. /\ 1 \in 1 .. Len(s) - 1 /\ 1 \in 1 .. Len(s) /\ 2 \in 1 .. Len(s)
        /\ Len(s) \in 1 .. Len(s) /\ Len(s) - 1 \in 1 .. Len(s)
        /\ Len(s) - 1 + 1 = Len(s) /\ Len(s) - 2 + 1 = Len(s) - 1 /\ Len(s) - 1 < Len(s)
    BY <1>1
  <2>2. s[Len(s)] < s[Len(s) - 1]
    <3>1. Reverse(s)[1] < Reverse(s)[2]
      BY <1>2, <2>1
    <3>. QED  BY <1>2, <2>1, <3>1
  <2>3. s[Len(s) - 1] < s[Len(s)]
    BY <2>1 DEF Lists, Increasing
  <2>4. s[Len(s)] \in S /\ s[Len(s) - 1] \in S
    BY <1>1, <2>1
  <2>5. \A x, y \in S : ~(x < y /\ y < x)
    OBVIOUS
  <2>. QED  BY <2>2, <2>3, <2>4, <2>5
<1>4. \A i \in 1 .. Len(s) : Len(s) - i + 1 = i
  BY <1>1, <1>3
<1>5. Reverse(s) = [i \in 1 .. Len(s) |-> s[i]]
  BY <1>4 DEF Reverse
<1>6. s = [i \in 1 .. Len(s) |-> s[i]]
  BY <1>1
<1>. QED  BY <1>5, <1>6

\* A page that is not refused holds the Mission's events from the cursor to the next
\* cursor, whatever the daemon forgot, repeated or answered late.
LEMMA AcceptedIsHonest ==
    ASSUME TailTypeOK, NEW page \in Pages(cursor), ~Refused(page)
    PROVE  /\ page.next \in cursor .. Len(log)
           /\ Lists(page.events, MineIn(cursor, page.next))
<1> DEFINE honest == HonestPage(cursor)
<1>1. page.cursor = cursor /\ ~(page.dropped > 0) /\ WellFormed(page) /\ page.reached
  BY DEF Refused
<1>2. ~((page.events # <<>> \/ page.more) /\ page.next <= cursor)
  BY DEF Refused, Stalled
<1>3. /\ honest.cursor = cursor /\ honest.next \in Nat /\ honest.next <= Len(log)
      /\ ~(honest.dropped > 0) => honest.events = Mine(cursor, honest.next)
  BY TailDomain, TailAssumption DEF HonestPage
<1>4. \/ page = honest
      \/ page = [honest EXCEPT !.reached = FALSE]
      \/ page = [honest EXCEPT !.next = cursor, !.more = TRUE]
      \/ \E d \in 0 .. cursor : page = HonestPage(d)
      \/ page = [honest EXCEPT !.events = Reverse(@)]
  BY TailDomain DEF Pages
<1>5. \A d \in 0 .. cursor : HonestPage(d).cursor = d
  BY DEF HonestPage
<1>6. page = honest \/ page = [honest EXCEPT !.events = Reverse(@)]
  <2>1. [honest EXCEPT !.reached = FALSE].reached = FALSE
    BY DEF HonestPage
  <2>2. /\ [honest EXCEPT !.next = cursor, !.more = TRUE].next = cursor
        /\ [honest EXCEPT !.next = cursor, !.more = TRUE].more
    BY DEF HonestPage
  <2>3. cursor <= cursor
    BY TailDomain
  <2>. QED  BY <1>1, <1>2, <1>4, <1>5, <2>1, <2>2, <2>3
<1>7. /\ page.next = honest.next /\ page.dropped = honest.dropped
      /\ page.events \in {honest.events, Reverse(honest.events)}
  BY <1>6 DEF HonestPage
<1>8. page.next \in cursor .. Len(log)
  BY <1>1, <1>3, <1>7, TailDomain DEF WellFormed
<1>9. /\ honest.events = Mine(cursor, page.next)
      /\ MineIn(cursor, page.next) \in SUBSET Nat
      /\ Lists(honest.events, MineIn(cursor, page.next))
  BY <1>1, <1>3, <1>7, TailDomain, MineLists
<1>10. page.events = honest.events
  <2>1. CASE page.events = Reverse(honest.events)
    BY <1>1, <1>9, <2>1, ReverseLists DEF WellFormed
  <2>. QED  BY <1>7, <2>1
<1>. QED  BY <1>8, <1>9, <1>10

\* Nothing is cut off after a terminal event.
LEMMA TerminalCutsNothing ==
    ASSUME TailTypeOK, TerminalIsLast, NEW to \in 0 .. Len(log), NEW events,
           Lists(events, MineIn(cursor, to))
    PROVE  UpToTerminal(events) = events
<1> DEFINE S == MineIn(cursor, to)
<1> DEFINE ends == {i \in DOMAIN events : log[events[i]] = "terminal"}
<1>1. S \in SUBSET (1 .. Len(log)) /\ \A e \in S : log[e] # "other"
  BY TailDomain DEF MineIn
<1> HIDE DEF S
<1>2. events \in Seq(S) /\ Len(events) \in Nat /\ DOMAIN events = 1 .. Len(events)
  BY DEF Lists, S
<1>3. ends \subseteq {Len(events)}
  <2> SUFFICES ASSUME NEW i \in 1 .. Len(events), log[events[i]] = "terminal", i # Len(events)
               PROVE  FALSE
    BY <1>2
  <2>1. i + 1 \in 1 .. Len(events) /\ i < i + 1
    <3>1. \A n \in Nat : \A k \in 1 .. n : k # n => k + 1 \in 1 .. n /\ k < k + 1
      OBVIOUS
    <3>. QED  BY <1>2, <3>1
  <2>2. events[i] < events[i + 1]
    BY <2>1 DEF Lists, Increasing
  <2>3. events[i] \in S /\ events[i + 1] \in S
    <3>1. \A k \in 1 .. Len(events) : events[k] \in S
      BY <1>2
    <3>. QED  BY <2>1, <3>1
  <2>. QED  BY <1>1, <2>2, <2>3 DEF TerminalIsLast
<1>4. SubSeq(events, 1, Len(events)) = events
  BY <1>2
<1>5. CASE ends = {}
  BY <1>4, <1>5 DEF UpToTerminal
<1>6. CASE ends = {Len(events)}
  <2>1. (CHOOSE i \in ends : \A j \in ends : i <= j) = Len(events)
    <3> HIDE DEF ends
    <3>. QED  BY <1>2, <1>6
  <2>. QED  BY <1>4, <1>6, <2>1 DEF UpToTerminal
<1>. QED  BY <1>3, <1>5, <1>6

\* The tail begins with nothing.
LEMMA TailStarts == TailInit => TailInv
<1> SUFFICES ASSUME TailInit PROVE TailInv
  OBVIOUS
<1>1. TailTypeOK /\ TerminalIsLast
  BY DEF TailInit, TailTypeOK, TerminalIsLast
<1>2. delivered \o buffer = <<>> /\ MineIn(0, cursor) = {}
  BY DEF TailInit, MineIn
<1>3. Lists(<<>>, {})
  BY DEF Lists, Increasing
<1>. QED  BY <1>1, <1>2, <1>3 DEF TailInv, HandedInOrder, TailInit

\* The log grows behind the cursor, and a terminal event is followed by those of
\* other Missions only.
LEMMA EmitKeeps ==
    ASSUME TailInv, NEW kind \in {"step", "terminal", "other"}, DaemonEmit(kind)
    PROVE  TailInv'
<1> USE DEF TailInv
<1>1. /\ log' = Append(log, kind)
      /\ UNCHANGED <<floor, cursor, buffer, pc, delivered>>
  BY DEF DaemonEmit
<1>2. /\ Len(log') = Len(log) + 1
      /\ \A i \in 1 .. Len(log) : log'[i] = log[i]
      /\ log'[Len(log) + 1] = kind
  BY <1>1 DEF TailTypeOK
<1>3. TailTypeOK'
  BY <1>1, TailDomain DEF TailTypeOK
<1>4. TerminalIsLast'
  <2> SUFFICES ASSUME NEW i \in 1 .. Len(log) + 1, NEW j \in 1 .. Len(log) + 1,
                      log'[i] = "terminal", i < j
               PROVE  log'[j] = "other"
    BY <1>2 DEF TerminalIsLast
  <2>1. i \in 1 .. Len(log) /\ log[i] = "terminal"
    <3>1. i \in 1 .. Len(log)
      BY TailDomain
    <3>. QED  BY <1>2, <3>1
  <2>2. CASE j \in 1 .. Len(log)
    BY <1>2, <2>1, <2>2 DEF TerminalIsLast
  <2>3. CASE j = Len(log) + 1
    <3> DEFINE ends == {k \in DOMAIN log : log[k] = "terminal"}
    <3>1. i \in ends /\ ends \in SUBSET (1 .. Len(log))
      BY <2>1, TailDomain
    <3>2. IsFiniteSet(ends)
      <4> HIDE DEF ends
      <4>. QED  BY <3>1, TailDomain, ListExists
    <3>3. Cardinality(ends) # 0
      BY <3>1, <3>2, FS_EmptySet
    <3>. QED  BY <1>2, <2>3, <3>3 DEF DaemonEmit, Count
  <2>. QED  BY <2>2, <2>3, TailDomain
<1>5. MineIn(0, cursor)' = MineIn(0, cursor)
  <2>1. \A i \in 1 .. cursor : log'[i] = log[i]
    BY <1>2, TailDomain
  <2>2. \A i \in 0 + 1 .. cursor : log'[i] = log[i]
    BY <2>1, TailDomain
  <2>. QED  BY <1>1, <2>2 DEF MineIn
<1>. QED  BY <1>1, <1>3, <1>4, <1>5 DEF HandedInOrder, Lists, Increasing

\* What was buffered is handed out in its order.
LEMMA NextKeeps == TailInv /\ NextBuffered => TailInv'
<1> SUFFICES ASSUME TailInv, NextBuffered PROVE TailInv'
  OBVIOUS
<1> USE DEF TailInv
<1>1. /\ delivered' = Append(delivered, Head(buffer)) /\ buffer' = Tail(buffer)
      /\ UNCHANGED <<log, floor, cursor, pc>> /\ buffer # <<>> /\ pc = "idle"
  BY DEF NextBuffered, logVars
<1>2. delivered \in Seq(Nat) /\ buffer \in Seq(Nat)
  BY DEF TailTypeOK
<1>3. TailTypeOK'
  BY <1>1, <1>2 DEF TailTypeOK
<1>4. delivered' \o buffer' = delivered \o buffer
  BY <1>1, <1>2
<1>. QED  BY <1>1, <1>3, <1>4 DEF HandedInOrder, TerminalIsLast, MineIn

\* A page that is accepted continues what was handed out.
LEMMA AcceptKeeps ==
    ASSUME TailInv, NEW page \in Pages(cursor), AcceptPage(page)
    PROVE  TailInv'
<1> USE DEF TailInv
<1> DEFINE rest == MineIn(cursor, page.next)
<1>1. /\ cursor' = page.next /\ buffer' = UpToTerminal(page.events)
      /\ UNCHANGED <<log, floor, delivered>> /\ pc = "waiting" /\ ~Refused(page)
      /\ pc' = IF page.events # <<>> THEN "idle" ELSE "filling"
  BY DEF AcceptPage, logVars
<1>2. page.next \in cursor .. Len(log) /\ Lists(page.events, rest)
  BY <1>1, AcceptedIsHonest
<1>3. page.next \in 0 .. Len(log)
  BY <1>2, TailDomain
<1>4. buffer' = page.events
  BY <1>1, <1>2, <1>3, TerminalCutsNothing
<1>5. rest \in SUBSET Nat /\ MineIn(0, cursor) \in SUBSET Nat
  BY TailDomain DEF MineIn
<1>6. MineIn(0, page.next) = MineIn(0, cursor) \cup rest
  BY <1>2, TailDomain DEF MineIn
<1>7. \A x \in MineIn(0, cursor), y \in rest : x < y
  BY TailDomain DEF MineIn
<1>8. delivered \o buffer = delivered
  BY <1>1 DEF HandedInOrder, TailTypeOK
<1>9. Lists(delivered, MineIn(0, cursor))
  BY <1>8 DEF HandedInOrder
<1>10. Lists(delivered \o page.events, MineIn(0, page.next))
  <2> HIDE DEF rest
  <2>. QED  BY <1>2, <1>5, <1>6, <1>7, <1>9, ListConcat
<1>11. TailTypeOK'
  <2>1. page.events \in Seq(Nat)
    BY <1>2, <1>5 DEF Lists
  <2>. QED  BY <1>1, <1>3, <1>4, <2>1 DEF TailTypeOK
<1>12. MineIn(0, cursor)' = MineIn(0, page.next)
  BY <1>1 DEF MineIn
<1>13. HandedInOrder'
  BY <1>1, <1>4, <1>10, <1>12 DEF HandedInOrder, Lists, Increasing
<1>. QED  BY <1>1, <1>11, <1>13 DEF TerminalIsLast

\* The other steps move nothing between daemon, buffer and consumer.
LEMMA OthersKeep ==
    ASSUME TailInv,
           \/ DaemonForget \/ OpenTail \/ NextEmpty \/ Fill \/ CloseTail \/ PassOthers
           \/ \E page \in Pages(cursor) : RefusePage(page)
           \/ UNCHANGED tailVars
    PROVE  TailInv'
<1> USE DEF TailInv
<1>1. /\ UNCHANGED <<log, cursor, delivered, buffer>> /\ floor' \in 0 .. Len(log)
      /\ pc' # "idle" => buffer = <<>>
  <2>1. CASE DaemonForget
    BY <2>1, TailDomain DEF DaemonForget, HandedInOrder
  <2>2. CASE OpenTail
    BY <2>2 DEF OpenTail, logVars, HandedInOrder, TailTypeOK
  <2>3. CASE NextEmpty
    BY <2>3 DEF NextEmpty, logVars, TailTypeOK
  <2>4. CASE Fill
    BY <2>4 DEF Fill, logVars, HandedInOrder, TailTypeOK
  <2>5. CASE CloseTail
    BY <2>5 DEF CloseTail, logVars, HandedInOrder, TailTypeOK
  <2>6. CASE \E page \in Pages(cursor) : RefusePage(page)
    BY <2>6 DEF RefusePage, logVars, HandedInOrder, TailTypeOK
  <2>7. CASE PassOthers
    BY <2>7 DEF PassOthers, logVars, HandedInOrder, TailTypeOK
  <2>8. CASE UNCHANGED tailVars
    BY <2>8 DEF tailVars, logVars, HandedInOrder, TailTypeOK
  <2>. QED  BY <2>1, <2>2, <2>3, <2>4, <2>5, <2>6, <2>7, <2>8
<1>. QED  BY <1>1 DEF TailTypeOK, TerminalIsLast, HandedInOrder, Lists, Increasing, MineIn

\* The invariant of the tail is inductive.
LEMMA TailKept == TailInv /\ [Next]_vars => TailInv'
<1> SUFFICES ASSUME TailInv, [Next]_vars PROVE TailInv'
  OBVIOUS
<1>1. CASE TailNext
  <2>1. CASE \E kind \in {"step", "terminal", "other"} : DaemonEmit(kind)
    BY <2>1, EmitKeeps
  <2>2. CASE Answered
    BY <2>2, AcceptKeeps, OthersKeep DEF Answered
  <2>3. CASE DaemonForget \/ OpenTail \/ NextEmpty \/ Fill \/ CloseTail
    BY <2>3, OthersKeep
  <2>. QED  BY <1>1, <2>1, <2>2, <2>3, NextKeeps DEF TailNext
<1>2. CASE UNCHANGED tailVars
  BY <1>2, OthersKeep
<1>. QED  BY <1>1, <1>2 DEF Next, vars

\* The events that are handed out are the Mission's from the first on, in order, none
\* twice and none missing (DeliveredIsPrefix).
THEOREM EventsDelivered == Spec => []DeliveredIsPrefix
<1>1. Init => TailInv
  BY TailStarts DEF Init
<1>2. TailInv => DeliveredIsPrefix
  <2> SUFFICES ASSUME TailInv PROVE IsPrefix(delivered, Mine(0, Len(log)))
    BY DEF DeliveredIsPrefix
  <2> DEFINE T == MineIn(0, Len(log))
  <2> DEFINE all == delivered \o buffer
  <2>1. T \in SUBSET Nat /\ Lists(Mine(0, Len(log)), T)
    BY TailDomain, MineLists DEF TailInv
  <2>2. delivered \in Seq(Nat) /\ buffer \in Seq(Nat) /\ Lists(all, MineIn(0, cursor))
    BY DEF TailInv, TailTypeOK, HandedInOrder
  <2>3. \A e \in T : e <= cursor => e \in MineIn(0, cursor)
    BY TailDomain DEF TailInv, MineIn
  <2>4. \A e \in MineIn(0, cursor) : e \in T /\ e <= cursor
    BY TailDomain DEF TailInv, MineIn
  <2>5. /\ Len(all) = Len(delivered) + Len(buffer) /\ Len(delivered) \in Nat /\ Len(buffer) \in Nat
        /\ \A i \in 1 .. Len(delivered) : all[i] = delivered[i] /\ i \in 1 .. Len(all)
    BY <2>2
  <2> HIDE DEF all, T
  <2>6. \A i \in 1 .. Len(all) : all[i] \in MineIn(0, cursor)
    BY <2>2 DEF Lists
  <2>7. \A i \in 1 .. Len(delivered) : delivered[i] \in T /\ delivered[i] <= cursor
    BY <2>4, <2>5, <2>6
  <2>8. delivered \in Seq(T)
    <3>1. delivered = [i \in 1 .. Len(delivered) |-> delivered[i]]
      BY <2>2
    <3>. QED  BY <2>5, <2>7, <3>1
  <2>9. Increasing(delivered)
    BY <2>2, <2>5 DEF Lists, Increasing
  <2>10. ASSUME NEW i \in 1 .. Len(delivered), NEW e \in T, e < delivered[i]
         PROVE  \E j \in 1 .. Len(delivered) : delivered[j] = e
    <3>1. e \in MineIn(0, cursor)
      <4>1. delivered[i] <= cursor /\ delivered[i] \in T
        BY <2>7
      <4>2. \A x \in T : x \in Nat
        BY <2>1
      <4>3. e <= cursor
        BY <2>10, <4>1, <4>2, TailDomain DEF TailInv
      <4>. QED  BY <2>3, <4>3
    <3>2. PICK k \in 1 .. Len(all) : all[k] = e
      BY <2>2, <3>1 DEF Lists
    <3>3. ~(i < k) /\ i # k
      <4>1. all[k] < all[i] /\ i \in 1 .. Len(all)
        BY <2>5, <2>10, <3>2
      <4>2. all[i] \in Nat /\ all[k] \in Nat
        <5>1. \A j \in 1 .. Len(all) : all[j] \in T
          BY <2>4, <2>6
        <5>. QED  BY <2>1, <3>2, <4>1, <5>1
      <4>3. i < k => all[i] < all[k]
        BY <2>2, <3>2, <4>1 DEF Lists, Increasing
      <4>. QED  BY <4>1, <4>2, <4>3
    <3>4. k \in 1 .. Len(delivered)
      BY <2>5, <3>2, <3>3
    <3>. QED  BY <2>5, <3>2, <3>4
  <2>. QED  BY <2>1, <2>8, <2>9, <2>10, ListPrefix
<1>. QED  BY <1>1, <1>2, TailKept, PTL DEF Spec

=============================================================================
