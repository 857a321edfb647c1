------------------------- MODULE Distillation_proofs -------------------------
(***************************************************************************)
(* The theorems about self-distillation: the batch of a training step, for *)
(* every number of prompts, answers and workers and every set of settings, *)
(* and the actor it is given to, for every number of mini-batches, epochs, *)
(* updates and restarts.                                                   *)
(***************************************************************************)
EXTENDS SelfDistillation, SdpoActor, FiniteSetTheorems, SequenceTheorems, TLAPS

(***************************************************************************)
(* The sum over a group of rows                                            *)
(***************************************************************************)

\* The element the fold takes next, the function it computes, and one such function.
Some(S) == CHOOSE x \in S : TRUE
IsTotal(g, f, S) ==
  g = [s \in SUBSET S |-> IF s = {} THEN 0 ELSE f[Some(s)] + g[s \ {Some(s)}]]
Totals(f, S) == CHOOSE g : IsTotal(g, f, S)

\* Among sets of subsets of a finite set there is a smallest one.
LEMMA SmallestSubset ==
  ASSUME NEW S, IsFiniteSet(S), NEW B, B \subseteq SUBSET S, B # {}
  PROVE  \E M \in B : \A U \in SUBSET M : U # M => U \notin B
<1>1. IsWellFoundedOn(StrictSubsetOrdering(S), SUBSET S)
  BY FS_StrictSubsetOrderingWellFounded, FS_FiniteSubsetsOfFinite
<1>2. PICK M \in B : \A U \in B : <<U, M>> \notin StrictSubsetOrdering(S)
  BY <1>1, WFMin
<1>3. ASSUME NEW U \in SUBSET M, U # M, U \in B PROVE FALSE
  BY <1>2, <1>3 DEF StrictSubsetOrdering
<1> QED  BY <1>3

\* What the fold computes of a set does not depend on the set it was started with.
LEMMA TotalsAgree ==
  ASSUME NEW f, NEW S, NEW T, IsFiniteSet(T), T \subseteq S,
         NEW g, IsTotal(g, f, S), NEW h, IsTotal(h, f, T)
  PROVE  \A U \in SUBSET T : g[U] = h[U]
<1> DEFINE B == {U \in SUBSET T : g[U] # h[U]}
<1> SUFFICES ASSUME B # {} PROVE FALSE  OBVIOUS
<1>1. PICK M \in B : \A U \in SUBSET M : U # M => U \notin B
  <2>1. B \subseteq SUBSET T  OBVIOUS
  <2> HIDE DEF B
  <2> QED  BY <2>1, SmallestSubset
<1>2. \A U \in SUBSET T :
        /\ g[U] = IF U = {} THEN 0 ELSE f[Some(U)] + g[U \ {Some(U)}]
        /\ h[U] = IF U = {} THEN 0 ELSE f[Some(U)] + h[U \ {Some(U)}]
  BY DEF IsTotal
<1>3. M # {}  BY <1>2
<1>4. Some(M) \in M  BY <1>3 DEF Some
<1>5. g[M \ {Some(M)}] = h[M \ {Some(M)}]  BY <1>1, <1>4
<1> QED  BY <1>2, <1>3, <1>5

\* The fold is defined on every finite set.
LEMMA TotalsExist ==
  ASSUME NEW f, NEW S, IsFiniteSet(S) PROVE IsTotal(Totals(f, S), f, S)
<1> DEFINE B == {T \in SUBSET S : ~\E g : IsTotal(g, f, T)}
<1> SUFFICES ASSUME B # {} PROVE FALSE
  <2>1. B = {} => \E g : IsTotal(g, f, S)  OBVIOUS
  <2> QED  BY <2>1 DEF Totals
<1>1. PICK M \in B : \A U \in SUBSET M : U # M => U \notin B
  <2>1. B \subseteq SUBSET S  OBVIOUS
  <2> HIDE DEF B
  <2> QED  BY <2>1, SmallestSubset
<1>2. M \subseteq S /\ ~\E g : IsTotal(g, f, M)  OBVIOUS
<1>3. ASSUME NEW U \in SUBSET M, U # M PROVE IsTotal(Totals(f, U), f, U)
  <2>1. U \notin B  BY <1>1, <1>3
  <2>2. \E g : IsTotal(g, f, U)  BY <1>2, <2>1
  <2> QED  BY <2>2 DEF Totals
<1>4. ASSUME NEW U \in SUBSET M PROVE IsFiniteSet(U)  BY <1>2, FS_Subset
<1>5. M # {}
  <2> SUFFICES ASSUME M = {} PROVE FALSE  OBVIOUS
  <2>1. IsTotal([s \in SUBSET M |-> 0], f, M)  BY DEF IsTotal
  <2> QED  BY <1>2, <2>1
<1> DEFINE value == [U \in SUBSET M |-> Totals(f, U)[U]]
           h == [U \in SUBSET M |-> IF U = M THEN f[Some(M)] + value[M \ {Some(M)}] ELSE value[U]]
<1>6. ASSUME NEW U \in SUBSET M, U # {}
      PROVE  Some(U) \in U /\ U \ {Some(U)} \in SUBSET M /\ U \ {Some(U)} # M
  BY <1>6 DEF Some
<1>7. ASSUME NEW U \in SUBSET M, U # M
      PROVE  value[U] = IF U = {} THEN 0 ELSE f[Some(U)] + value[U \ {Some(U)}]
  <2>1. IsTotal(Totals(f, U), f, U)  BY <1>3, <1>7
  <2>2. Totals(f, U)[U] = IF U = {} THEN 0 ELSE f[Some(U)] + Totals(f, U)[U \ {Some(U)}]
    BY <2>1 DEF IsTotal
  <2>3. CASE U = {}  BY <2>2, <2>3
  <2>4. CASE U # {}
    <3> DEFINE V == U \ {Some(U)}
    <3>1. V \in SUBSET M /\ V # M /\ V \subseteq U  BY <1>6, <2>4
    <3>2. IsTotal(Totals(f, V), f, V) /\ IsFiniteSet(V)  BY <1>3, <1>4, <3>1
    <3>3. Totals(f, U)[V] = Totals(f, V)[V]  BY <2>1, <3>1, <3>2, TotalsAgree
    <3> QED  BY <2>2, <2>4, <3>1, <3>3
  <2> QED  BY <2>3, <2>4
<1> HIDE DEF value
<1>8. ASSUME NEW U \in SUBSET M
      PROVE  h[U] = IF U = {} THEN 0 ELSE f[Some(U)] + h[U \ {Some(U)}]
  <2>1. CASE U = M
    <3>1. h[M] = f[Some(M)] + value[M \ {Some(M)}]  OBVIOUS
    <3>2. h[M \ {Some(M)}] = value[M \ {Some(M)}]  BY <1>5, <1>6
    <3> QED  BY <1>5, <2>1, <3>1, <3>2
  <2>2. CASE U # M /\ U = {}  BY <1>7, <2>2
  <2>3. CASE U # M /\ U # {}
    <3>1. h[U] = value[U]  BY <2>3
    <3>2. h[U \ {Some(U)}] = value[U \ {Some(U)}]  BY <1>6, <2>3
    <3> QED  BY <1>7, <2>3, <3>1, <3>2
  <2> QED  BY <2>1, <2>2, <2>3
<1>9. h = [U \in SUBSET M |-> h[U]]  OBVIOUS
<1> HIDE DEF h
<1>10. IsTotal(h, f, M)  BY <1>8, <1>9 DEF IsTotal
<1> QED  BY <1>2, <1>10

\* The sum over a group of rows is the value of the fold.
LEMMA SumIsTotal == ASSUME NEW f, NEW S PROVE GroupSum(f, S) = Totals(f, S)[S]
BY DEF GroupSum, MapThenSumSet, MapThenFoldSet, Totals, IsTotal, Some

\* The sum over no row is 0.
LEMMA SumEmpty == ASSUME NEW f PROVE GroupSum(f, {}) = 0
<1>1. IsTotal(Totals(f, {}), f, {})  BY TotalsExist, FS_EmptySet
<1>2. Totals(f, {})[{}] = 0  BY <1>1 DEF IsTotal
<1> QED  BY <1>2, SumIsTotal

\* The fold adds the element it takes to the sum of the others.
LEMMA SumTakes ==
  ASSUME NEW f, NEW S, IsFiniteSet(S), S # {}
  PROVE  Some(S) \in S /\ GroupSum(f, S) = f[Some(S)] + GroupSum(f, S \ {Some(S)})
<1> DEFINE T == S \ {Some(S)}
<1>1. Some(S) \in S  BY DEF Some
<1>2. T \subseteq S /\ T \in SUBSET S /\ IsFiniteSet(T)  BY FS_Subset
<1>3. IsTotal(Totals(f, S), f, S) /\ IsTotal(Totals(f, T), f, T)  BY <1>2, TotalsExist
<1>4. Totals(f, S)[S] = f[Some(S)] + Totals(f, S)[T]  BY <1>3 DEF IsTotal
<1> HIDE DEF T
<1>5. Totals(f, S)[T] = Totals(f, T)[T]  BY <1>2, <1>3, TotalsAgree
<1>6. GroupSum(f, S) = f[Some(S)] + GroupSum(f, T)  BY <1>4, <1>5, SumIsTotal
<1> QED  BY <1>1, <1>6 DEF T

\* The sum of integers is an integer.
LEMMA SumInteger ==
  ASSUME NEW f, NEW S, IsFiniteSet(S), \A x \in S : f[x] \in Int
  PROVE  GroupSum(f, S) \in Int
<1> DEFINE B == {T \in SUBSET S : GroupSum(f, T) \notin Int}
<1> SUFFICES ASSUME B # {} PROVE FALSE  OBVIOUS
<1>1. PICK M \in B : \A U \in SUBSET M : U # M => U \notin B
  <2>1. B \subseteq SUBSET S  OBVIOUS
  <2> HIDE DEF B
  <2> QED  BY <2>1, SmallestSubset
<1>2. M \in SUBSET S /\ IsFiniteSet(M) /\ GroupSum(f, M) \notin Int  BY FS_Subset
<1>3. M # {}  BY <1>2, SumEmpty
<1>4. Some(M) \in M /\ GroupSum(f, M) = f[Some(M)] + GroupSum(f, M \ {Some(M)})
  BY <1>2, <1>3, SumTakes
<1>5. GroupSum(f, M \ {Some(M)}) \in Int  BY <1>1, <1>4
<1> QED  BY <1>2, <1>4, <1>5

\* Any element can be taken first.
LEMMA SumRemoves ==
  ASSUME NEW f, NEW S, IsFiniteSet(S), \A x \in S : f[x] \in Int, NEW e \in S
  PROVE  GroupSum(f, S) = f[e] + GroupSum(f, S \ {e})
<1> DEFINE B == {T \in SUBSET S : \E x \in T : GroupSum(f, T) # f[x] + GroupSum(f, T \ {x})}
<1> SUFFICES ASSUME B # {} PROVE FALSE  OBVIOUS
<1>1. PICK M \in B : \A U \in SUBSET M : U # M => U \notin B
  <2>1. B \subseteq SUBSET S  OBVIOUS
  <2> HIDE DEF B
  <2> QED  BY <2>1, SmallestSubset
<1>2. M \in SUBSET S /\ IsFiniteSet(M)  BY FS_Subset
<1>3. PICK x \in M : GroupSum(f, M) # f[x] + GroupSum(f, M \ {x})  OBVIOUS
<1> DEFINE c == Some(M)
<1>4. c \in M /\ GroupSum(f, M) = f[c] + GroupSum(f, M \ {c})
  BY <1>2, <1>3, SumTakes
<1> HIDE DEF c
<1>5. x # c  BY <1>3, <1>4
<1>6. ASSUME NEW y \in M, NEW z \in M, y # z
      PROVE  GroupSum(f, M \ {y}) = f[z] + GroupSum(f, (M \ {y}) \ {z})
  <2>1. M \ {y} \in SUBSET M /\ M \ {y} # M /\ z \in M \ {y}  BY <1>6
  <2>2. M \ {y} \notin B /\ M \ {y} \in SUBSET S  BY <1>1, <1>2, <2>1
  <2> QED  BY <2>1, <2>2
<1>7. (M \ {c}) \ {x} = (M \ {x}) \ {c}  OBVIOUS
<1> DEFINE rest == GroupSum(f, (M \ {x}) \ {c})
<1>8. rest \in Int
  <2>1. (M \ {x}) \ {c} \in SUBSET S  BY <1>2
  <2>2. IsFiniteSet((M \ {x}) \ {c})  BY <2>1, FS_Subset
  <2> QED  BY <2>1, <2>2, SumInteger
<1>9. GroupSum(f, M) = f[c] + (f[x] + rest) /\ f[x] + GroupSum(f, M \ {x}) = f[x] + (f[c] + rest)
  BY <1>4, <1>5, <1>6, <1>7
<1>10. f[c] \in Int /\ f[x] \in Int  BY <1>2, <1>4
<1> HIDE DEF rest
<1>11. f[c] + (f[x] + rest) = f[x] + (f[c] + rest)  BY <1>8, <1>10
<1> QED  BY <1>3, <1>9, <1>11

\* The sum does not depend on the names of what is added.
LEMMA SumRenamed ==
  ASSUME NEW f, NEW g, NEW b, NEW S, IsFiniteSet(S), \A x \in S : f[x] \in Int,
         \A x \in S : g[b[x]] = f[x], \A x, y \in S : b[x] = b[y] => x = y
  PROVE  GroupSum(f, S) = GroupSum(g, {b[x] : x \in S})
<1> DEFINE Image(T) == {b[x] : x \in T}
           B == {T \in SUBSET S : GroupSum(f, T) # GroupSum(g, Image(T))}
<1> SUFFICES ASSUME B # {} PROVE FALSE  OBVIOUS
<1>1. PICK M \in B : \A U \in SUBSET M : U # M => U \notin B
  <2>1. B \subseteq SUBSET S  OBVIOUS
  <2> HIDE DEF B
  <2> QED  BY <2>1, SmallestSubset
<1>2. M \in SUBSET S /\ IsFiniteSet(M) /\ GroupSum(f, M) # GroupSum(g, Image(M))  BY FS_Subset
<1>3. M # {}
  <2>1. Image({}) = {}  OBVIOUS
  <2> QED  BY <1>2, <2>1, SumEmpty
<1>4. PICK e : e \in M  BY <1>3
<1> DEFINE N == M \ {e}
<1>5. GroupSum(f, M) = f[e] + GroupSum(f, N)  BY <1>2, <1>4, SumRemoves
<1>6. GroupSum(f, N) = GroupSum(g, Image(N))
  <2>1. N \in SUBSET M /\ N # M /\ N \in SUBSET S  BY <1>2, <1>4
  <2>2. N \notin B  BY <1>1, <2>1
  <2> QED  BY <2>1, <2>2
<1>7. Image(N) = Image(M) \ {b[e]} /\ b[e] \in Image(M)  BY <1>2, <1>4
<1>8. IsFiniteSet(Image(M))
  <2> DEFINE k == [x \in M |-> b[x]]
  <2>1. k \in Surjection(M, Image(M))  BY DEF Surjection
  <2> QED  BY <1>2, <2>1, FS_Surjection
<1>9. \A y \in Image(M) : g[y] \in Int  BY <1>2
<1>10. GroupSum(g, Image(M)) = g[b[e]] + GroupSum(g, Image(M) \ {b[e]})
  <2> HIDE DEF Image
  <2> QED  BY <1>7, <1>8, <1>9, SumRemoves
<1>11. g[b[e]] = f[e]  BY <1>2, <1>4
<1> QED  BY <1>2, <1>5, <1>6, <1>7, <1>10, <1>11

(***************************************************************************)
(* The invariant of the step                                               *)
(***************************************************************************)

\* The prompt of a row before the rows are reordered.
PromptOf(i) == ((i - 1) \div RolloutN) + 1
First(i) == Answer(PromptOf(i), i)

\* The trainer's batch of prompts.
PromptsInv ==
    /\ prompts.tensors = <<>>
    /\ DOMAIN prompts.objects = {"uid", "raw_prompt", "module", "answer"}
    /\ \A key \in DOMAIN prompts.objects : DOMAIN prompts.objects[key] = 1 .. NumPrompts
    /\ \A p \in 1 .. NumPrompts :
        /\ prompts.objects.uid[p] = p /\ prompts.objects.raw_prompt[p] = p
        /\ prompts.objects.answer[p] = (p \in answers)

\* An answer is one of a row, never the expert's, and its score is a number.
OutcomeInv ==
    \A r \in DOMAIN outcome : r.copy \in Rows /\ outcome[r].score \in Int

\* The columns the agent loops return, in the order of the rows.
GenInv ==
    /\ DOMAIN gen.tensors = {"responses", "rm_scores"} /\ DOMAIN gen.objects \subseteq {"feedback"}
    /\ \A key \in DOMAIN gen.tensors : DOMAIN gen.tensors[key] = Rows
    /\ \A key \in DOMAIN gen.objects : DOMAIN gen.objects[key] = Rows
    /\ DOMAIN outcome = {First(i) : i \in Rows}
    /\ \A i \in Rows :
        /\ gen.tensors.responses[i] = First(i)
        /\ gen.tensors.rm_scores[i] = outcome[First(i)].score
        /\ "feedback" \in DOMAIN gen.objects =>
            gen.objects.feedback[i] = Feedback(First(i), outcome[First(i)])

\* All columns of a part have one entry per row.
RowsOf(part) == \A key \in DOMAIN part : DOMAIN part[key] = Rows

\* Every row of the merged batch belongs, in all its columns, to the answer in it, and
\* every answer has a row of its own.
RowFits(d, i) ==
    LET r == d.tensors.responses[i]
    IN  /\ r \in DOMAIN outcome /\ d.tensors.rm_scores[i] = outcome[r].score
        /\ d.objects.uid[i] = r.prompt /\ d.objects.raw_prompt[i] = r.prompt
        /\ d.objects.answer[i] = (r.prompt \in answers)
        /\ "feedback" \in DOMAIN d.objects => d.objects.feedback[i] = Feedback(r, outcome[r])

Fitting(d) ==
    /\ DOMAIN d.tensors = {"responses", "rm_scores"}
    /\ {"uid", "raw_prompt", "answer"} \subseteq DOMAIN d.objects
    /\ DOMAIN d.objects \subseteq {"uid", "raw_prompt", "module", "answer", "feedback"}
    /\ RowsOf(d.tensors) /\ RowsOf(d.objects)
    /\ \A i \in Rows : RowFits(d, i)
    /\ \A i, j \in Rows : d.tensors.responses[i] = d.tensors.responses[j] => i = j
    /\ \A r \in DOMAIN outcome : \E i \in Rows : d.tensors.responses[i] = r

\* What holds of the batch the actor is given.
Delivered ==
    TypeOK /\ DemonstrationFits /\ FeedbackAboutOwnAnswer /\ MaskTellsReprompted
    /\ AdvantageWithinPrompt

StepInv ==
    /\ PromptsInv /\ Delivered
    /\ pc \in {"union", "balance", "reward", "build"} => OutcomeInv
    /\ pc = "union" => GenInv
    /\ pc \in {"balance", "reward", "build"} => Fitting(batch)
    /\ pc = "build" => reward = ExtractReward(batch)

\* Every row has a prompt.
LEMMA RowHasPrompt == \A i \in Rows : PromptOf(i) \in 1 .. NumPrompts
<1>1. NumPrompts \in Nat \ {0} /\ RolloutN \in Nat \ {0}  BY SizesAssumption
<1>2. ASSUME NEW i \in Rows PROVE PromptOf(i) \in 1 .. NumPrompts
  <2>1. NumPrompts * RolloutN \in Nat  BY <1>1
  <2>2. i \in Int /\ 0 <= i - 1 /\ i - 1 < NumPrompts * RolloutN  BY <2>1 DEF Rows
  <2> DEFINE q == (i - 1) \div RolloutN
  <2>3. q \in Int /\ RolloutN * q <= i - 1 /\ i - 1 < RolloutN * q + RolloutN  BY <1>1, <2>2
  <2> HIDE DEF q
  <2>4. 0 <= q
    <3> SUFFICES ASSUME q <= -1 PROVE FALSE  BY <2>3
    <3>1. RolloutN * q <= RolloutN * (-1)  BY <1>1, <2>3
    <3> QED  BY <1>1, <2>2, <2>3, <3>1
  <2>5. q < NumPrompts
    <3> SUFFICES ASSUME NumPrompts <= q PROVE FALSE  BY <1>1, <2>3
    <3>1. RolloutN * NumPrompts <= RolloutN * q  BY <1>1, <2>3
    <3> QED  BY <1>1, <2>2, <2>3, <3>1
  <2> QED  BY <1>1, <2>3, <2>4, <2>5 DEF PromptOf, q
<1> QED  BY <1>2

\* The rows are finitely many.
LEMMA RowsFinite == IsFiniteSet(Rows)
<1>1. NumPrompts * RolloutN \in Nat  BY SizesAssumption
<1> QED  BY <1>1, FS_Interval DEF Rows

\* The prompts as the trainer repeats them.
LEMMA Repeated ==
  ASSUME PromptsInv, NEW d, d = Repeat(prompts, RolloutN, NumPrompts)
  PROVE  /\ DOMAIN d.tensors = {} /\ DOMAIN d.objects = {"uid", "raw_prompt", "module", "answer"}
         /\ RowsOf(d.objects)
         /\ \A i \in Rows : /\ d.objects.uid[i] = PromptOf(i)
                             /\ d.objects.raw_prompt[i] = PromptOf(i)
                             /\ d.objects.answer[i] = (PromptOf(i) \in answers)
                             /\ d.objects.module[i] = prompts.objects.module[PromptOf(i)]
<1> DEFINE idx == [i \in Rows |-> PromptOf(i)]
<1>1. d.tensors = Pick(prompts.tensors, idx) /\ d.objects = Pick(prompts.objects, idx)
  BY DEF Repeat, Select, Rows, PromptOf
<1>2. DOMAIN idx = Rows /\ \A i \in Rows : idx[i] = PromptOf(i) /\ idx[i] \in 1 .. NumPrompts
  BY RowHasPrompt
<1> HIDE DEF idx
<1>3. DOMAIN d.tensors = {} /\ DOMAIN d.objects = {"uid", "raw_prompt", "module", "answer"}
  BY <1>1 DEF PromptsInv, Pick
<1>4. \A key \in DOMAIN d.objects : d.objects[key] = [i \in Rows |-> prompts.objects[key][idx[i]]]
  BY <1>1, <1>2, <1>3 DEF PromptsInv, Pick
<1> QED  BY <1>2, <1>3, <1>4 DEF PromptsInv, RowsOf

\* The step begins with the prompts.
LEMMA StepInitially == Init => StepInv
<1> SUFFICES ASSUME Init PROVE StepInv  OBVIOUS
<1>1. pc = "generate" /\ cfg \in Configs /\ answers \subseteq 1 .. NumPrompts
  <2>1. cfg \in Configs /\ answers \in SUBSET (IF cfg.expert THEN 1 .. NumPrompts ELSE {})
    BY DEF Init
  <2>2. (IF cfg.expert THEN 1 .. NumPrompts ELSE {}) \subseteq 1 .. NumPrompts  BY Zenon
  <2>3. answers \subseteq 1 .. NumPrompts  BY <2>1, <2>2
  <2>4. pc = "generate"  BY DEF Init
  <2> QED  BY <2>1, <2>3, <2>4
<1>2. PromptsInv
  <2> DEFINE answered == [p \in 1 .. NumPrompts |-> p \in answers]
             ids == [p \in 1 .. NumPrompts |-> p]
  <2>0. PICK module \in [1 .. NumPrompts -> Modules] :
          prompts = [tensors |-> <<>>,
                     objects |-> [uid |-> ids, raw_prompt |-> ids, module |-> module,
                                  answer |-> answered]]
    BY Zenon DEF Init
  <2> HIDE DEF answered, ids
  <2>1. /\ prompts.tensors = <<>>
        /\ prompts.objects = [uid |-> ids, raw_prompt |-> ids, module |-> module,
                              answer |-> answered]
    BY <2>0
  <2>2. DOMAIN prompts.objects = {"uid", "raw_prompt", "module", "answer"}  BY <2>1
  <2>3. /\ prompts.objects.uid = ids /\ prompts.objects.raw_prompt = ids
        /\ prompts.objects.module = module /\ prompts.objects.answer = answered
    BY <2>1
  <2>4. \A p \in 1 .. NumPrompts : answered[p] = (p \in answers)  BY Zenon DEF answered
  <2>5. \A p \in 1 .. NumPrompts :
          /\ prompts.objects.uid[p] = p /\ prompts.objects.raw_prompt[p] = p
          /\ prompts.objects.answer[p] = (p \in answers)
    BY <2>3, <2>4, Zenon DEF ids
  <2>6. DOMAIN answered = 1 .. NumPrompts /\ DOMAIN ids = 1 .. NumPrompts  BY DEF answered, ids
  <2>7. \A key \in DOMAIN prompts.objects : DOMAIN prompts.objects[key] = 1 .. NumPrompts
    BY <2>2, <2>3, <2>6
  <2> QED  BY <2>1, <2>2, <2>5, <2>7, Zenon DEF PromptsInv
<1>3. Delivered
  BY <1>1 DEF Delivered, TypeOK, DemonstrationFits, FeedbackAboutOwnAnswer,
              MaskTellsReprompted, AdvantageWithinPrompt, Ready
<1> QED  BY <1>1, <1>2, <1>3 DEF StepInv

\* Away from the end of the step nothing is delivered.
LEMMA NotReady ==
  ASSUME Delivered, pc' # "ready", UNCHANGED <<cfg, answers>>,
         pc' \in {"generate", "union", "balance", "reward", "build", "failed"}
  PROVE  Delivered'
BY DEF Delivered, TypeOK, DemonstrationFits, FeedbackAboutOwnAnswer, MaskTellsReprompted,
       AdvantageWithinPrompt, Ready

\* The score of an answer is a number.
LEMMA ScoreInteger ==
  ASSUME NEW m, NEW result \in Outcomes(m) PROVE result.score \in Int
<1>1. ScoresOf(m) \subseteq Int
  <2>1. CASE m = "llm"  BY <2>1 DEF ScoresOf
  <2>2. CASE m = "zero"  BY <2>2 DEF ScoresOf
  <2>3. CASE m # "llm" /\ m # "zero"
    <3>1. ScoresOf(m) = {0, 2}  BY <2>3 DEF ScoresOf
    <3> QED  BY <3>1
  <2> QED  BY <2>1, <2>2, <2>3
<1> DEFINE answered == [keys : {ResultKeys(m)}, score : ScoresOf(m), said : SaysSomething(m)]
           failed == [keys : FailureKeys, score : {0}, said : {FALSE}]
<1>2. result \in answered \/ result \in failed  BY Zenon DEF Outcomes
<1>3. \A x \in answered : x.score \in ScoresOf(m)  OBVIOUS
<1>4. \A x \in failed : x.score \in Int  OBVIOUS
<1> QED  BY <1>1, <1>2, <1>3, <1>4

\* The agent loops' columns are in the order of the repeated prompts.
LEMMA GenerateKeeps ==
  ASSUME StepInv, Generate PROVE StepInv'
<1> DEFINE input == Repeat(prompts, RolloutN, NumPrompts)
           resp == [i \in Rows |-> Answer(input.objects.raw_prompt[i], i)]
           size == Cardinality(Rows) \div NumWorkers
<1>1. PICK results \in [Rows -> UNION {Outcomes(m) : m \in Modules}] :
        /\ outcome' = [r \in {resp[i] : i \in Rows} |-> results[CHOOSE i \in Rows : resp[i] = r]]
        /\ IF Stacks(results, size) /\ Joins(results, size)
              THEN pc' = "union" /\ gen' = Generated(resp, results)
              ELSE pc' = "failed" /\ gen' = gen
        /\ \A i \in Rows : results[i] \in Outcomes(input.objects.module[i])
  BY DEF Generate
<1>2. PromptsInv  BY DEF StepInv
<1>3. \A i \in Rows : resp[i] = First(i)  BY <1>2, Repeated DEF First
<1>4. DOMAIN resp = Rows  OBVIOUS
<1>5. pc' = "failed" \/ (pc' = "union" /\ gen' = Generated(resp, results))  BY <1>1
<1>6. \A i \in Rows : results[i].score \in Int  BY <1>1, ScoreInteger
<1> HIDE DEF resp, input, size
<1>7. \A i, j \in Rows : First(i) = First(j) => i = j  BY DEF First, Answer
<1>8. DOMAIN outcome' = {First(i) : i \in Rows}  BY <1>1, <1>3
<1>9. ASSUME NEW i \in Rows PROVE outcome'[First(i)] = results[i]
  <2>1. (CHOOSE j \in Rows : resp[j] = First(i)) = i  BY <1>3, <1>7
  <2>2. First(i) \in {resp[j] : j \in Rows}  BY <1>3
  <2> QED  BY <1>1, <2>1, <2>2
<1>10. OutcomeInv'
  <2>1. \A i \in Rows : First(i).copy = i  BY DEF First, Answer
  <2> QED  BY <1>6, <1>8, <1>9, <2>1 DEF OutcomeInv
<1>11. PromptsInv'  BY <1>2 DEF Generate, PromptsInv
<1>12. Delivered'
  <2>1. Delivered /\ pc' # "ready" /\ pc' \in {"generate", "union", "balance", "reward", "build", "failed"}
    BY <1>5 DEF StepInv
  <2> QED  BY <2>1, NotReady DEF Generate
<1>13. CASE pc' = "union" /\ gen' = Generated(resp, results)
  <2>1. GenInv'
    <3>1. DOMAIN gen'.tensors = {"responses", "rm_scores"} /\ DOMAIN gen'.objects \subseteq {"feedback"}
      BY <1>13 DEF Generated
    <3>2. gen'.tensors.responses = resp /\ gen'.tensors.rm_scores = [i \in Rows |-> results[i].score]
      BY <1>13 DEF Generated
    <3>3. "feedback" \in DOMAIN gen'.objects
            => gen'.objects.feedback = [i \in Rows |-> Feedback(resp[i], results[i])]
      BY <1>13 DEF Generated
    <3>4. \A key \in DOMAIN gen'.tensors : DOMAIN gen'.tensors[key] = Rows
      BY <1>4, <3>1, <3>2
    <3>5. \A key \in DOMAIN gen'.objects : DOMAIN gen'.objects[key] = Rows
      BY <3>1, <3>3
    <3>6. ASSUME NEW i \in Rows
          PROVE  /\ gen'.tensors.responses[i] = First(i)
                 /\ gen'.tensors.rm_scores[i] = outcome'[First(i)].score
                 /\ "feedback" \in DOMAIN gen'.objects =>
                      gen'.objects.feedback[i] = Feedback(First(i), outcome'[First(i)])
      BY <1>3, <1>9, <3>2, <3>3
    <3> QED  BY <1>8, <3>1, <3>4, <3>5, <3>6 DEF GenInv
  <2> QED  BY <1>10, <1>11, <1>12, <1>13, <2>1 DEF StepInv
<1>14. CASE pc' = "failed"
  BY <1>11, <1>12, <1>14 DEF StepInv
<1> QED  BY <1>5, <1>13, <1>14

\* Whether rows fit is a matter of the batch, the answers and their outcome.
LEMMA FittingStays ==
  ASSUME NEW d, Fitting(d), UNCHANGED <<outcome, answers>>, batch' = d
  PROVE  Fitting(batch)'
BY DEF Fitting, RowsOf, RowFits

\* The answers, joined with the repeated prompts by position, fit them.
LEMMA MergedFits ==
  ASSUME PromptsInv, GenInv,
         NEW d, d = Union(Repeat(prompts, RolloutN, NumPrompts), gen)
  PROVE  Fitting(d)
<1>1. PICK rep : rep = Repeat(prompts, RolloutN, NumPrompts)  OBVIOUS
<1>2. d.tensors = Extend(rep.tensors, gen.tensors) /\ d.objects = Extend(rep.objects, gen.objects)
  BY <1>1 DEF Union
<1>3. /\ DOMAIN rep.tensors = {} /\ DOMAIN rep.objects = {"uid", "raw_prompt", "module", "answer"}
      /\ RowsOf(rep.objects)
      /\ \A i \in Rows : /\ rep.objects.uid[i] = PromptOf(i)
                          /\ rep.objects.raw_prompt[i] = PromptOf(i)
                          /\ rep.objects.answer[i] = (PromptOf(i) \in answers)
  BY <1>1, Repeated
<1>4. /\ DOMAIN d.tensors = {"responses", "rm_scores"}
      /\ DOMAIN d.objects = DOMAIN rep.objects \cup DOMAIN gen.objects
  BY <1>2, <1>3 DEF GenInv, Extend
<1>5. \A key \in DOMAIN d.tensors : d.tensors[key] = gen.tensors[key]
  BY <1>2, <1>3, <1>4 DEF Extend
<1>6. \A key \in DOMAIN rep.objects : d.objects[key] = rep.objects[key]
  BY <1>2 DEF Extend
<1>7. "feedback" \in DOMAIN d.objects =>
        "feedback" \in DOMAIN gen.objects /\ d.objects["feedback"] = gen.objects["feedback"]
  BY <1>2, <1>3 DEF Extend
<1>8. RowsOf(d.tensors) /\ RowsOf(d.objects)
  BY <1>3, <1>4, <1>5, <1>6, <1>7 DEF GenInv, RowsOf
<1>9. \A i \in Rows : d.tensors.responses[i] = First(i) /\ d.tensors.rm_scores[i] = outcome[First(i)].score
  BY <1>4, <1>5 DEF GenInv
<1>10. \A i \in Rows : First(i).prompt = PromptOf(i) /\ First(i).copy = i
  BY DEF First, Answer
<1>11. ASSUME NEW i \in Rows PROVE RowFits(d, i)
  <2>1. d.objects.uid[i] = PromptOf(i) /\ d.objects.raw_prompt[i] = PromptOf(i)
    BY <1>3, <1>6
  <2>2. d.objects.answer[i] = (PromptOf(i) \in answers)
    <3>1. d.objects.answer = rep.objects.answer  BY <1>3, <1>6
    <3> QED  BY <1>3, <3>1, Zenon
  <2>3. "feedback" \in DOMAIN d.objects => d.objects.feedback[i] = Feedback(First(i), outcome[First(i)])
    BY <1>7 DEF GenInv
  <2>4. First(i) \in DOMAIN outcome  BY DEF GenInv
  <2>5. d.tensors.responses[i] = First(i) /\ d.tensors.rm_scores[i] = outcome[First(i)].score
    BY <1>9
  <2>6. First(i).prompt = PromptOf(i)  BY <1>10
  <2> QED  BY <2>1, <2>2, <2>3, <2>4, <2>5, <2>6, Zenon DEF RowFits
<1>12. \A i, j \in Rows : d.tensors.responses[i] = d.tensors.responses[j] => i = j
  BY <1>9, <1>10
<1>13. \A r \in DOMAIN outcome : \E i \in Rows : d.tensors.responses[i] = r
  BY <1>9 DEF GenInv
<1>14. /\ {"uid", "raw_prompt", "answer"} \subseteq DOMAIN d.objects
       /\ DOMAIN d.objects \subseteq {"uid", "raw_prompt", "module", "answer", "feedback"}
  BY <1>3, <1>4 DEF GenInv
<1> QED  BY <1>4, <1>8, <1>11, <1>12, <1>13, <1>14 DEF Fitting

\* Moving all columns alike keeps the rows fitting.
LEMMA ReorderedFits ==
  ASSUME NEW d, Fitting(d), NEW idx \in Bijection(Rows, Rows), NEW e, e = Reorder(d, idx)
  PROVE  Fitting(e)
<1>1. /\ DOMAIN idx = Rows /\ \A i \in Rows : idx[i] \in Rows
      /\ \A i, j \in Rows : idx[i] = idx[j] => i = j
      /\ \A j \in Rows : \E i \in Rows : idx[i] = j
  BY DEF Bijection, Injection, Surjection, IsInjective
<1>2. e.tensors = Pick(d.tensors, idx) /\ e.objects = Pick(d.objects, idx)
  BY DEF Reorder, Select
<1>3. DOMAIN e.tensors = DOMAIN d.tensors /\ DOMAIN e.objects = DOMAIN d.objects
  BY <1>2 DEF Pick
<1>4. \A key \in DOMAIN d.tensors : DOMAIN e.tensors[key] = Rows
        /\ \A i \in Rows : e.tensors[key][i] = d.tensors[key][idx[i]]
  BY <1>1, <1>2 DEF Pick
<1>5. \A key \in DOMAIN d.objects : DOMAIN e.objects[key] = Rows
        /\ \A i \in Rows : e.objects[key][i] = d.objects[key][idx[i]]
  BY <1>1, <1>2 DEF Pick
<1>6. RowsOf(e.tensors) /\ RowsOf(e.objects)  BY <1>3, <1>4, <1>5 DEF RowsOf
<1>7. ASSUME NEW i \in Rows
      PROVE  /\ e.tensors.responses[i] = d.tensors.responses[idx[i]]
             /\ e.tensors.rm_scores[i] = d.tensors.rm_scores[idx[i]]
             /\ e.objects.uid[i] = d.objects.uid[idx[i]]
             /\ e.objects.raw_prompt[i] = d.objects.raw_prompt[idx[i]]
             /\ e.objects.answer[i] = d.objects.answer[idx[i]]
             /\ "feedback" \in DOMAIN d.objects => e.objects.feedback[i] = d.objects.feedback[idx[i]]
  BY <1>4, <1>5 DEF Fitting
<1>8. ASSUME NEW i \in Rows PROVE RowFits(e, i)
  <2>1. RowFits(d, idx[i])  BY <1>1 DEF Fitting
  <2> QED  BY <1>3, <1>7, <2>1, Zenon DEF RowFits
<1>9. \A i, j \in Rows : e.tensors.responses[i] = e.tensors.responses[j] => i = j
  BY <1>1, <1>7 DEF Fitting
<1>10. ASSUME NEW r \in DOMAIN outcome PROVE \E i \in Rows : e.tensors.responses[i] = r
  <2>1. PICK j \in Rows : d.tensors.responses[j] = r  BY DEF Fitting
  <2> QED  BY <1>1, <1>7, <2>1
<1> QED  BY <1>3, <1>6, <1>8, <1>9, <1>10 DEF Fitting

\* Steps of the batch on its way to the teacher's prompts.
LEMMA BatchKeeps ==
  ASSUME StepInv, MergeRollouts \/ Balance \/ KeepOrder \/ TakeReward PROVE StepInv'
<1>1. UNCHANGED <<cfg, answers, prompts, outcome>>
  BY DEF MergeRollouts, Balance, KeepOrder, TakeReward
<1>2. PromptsInv'  BY <1>1 DEF StepInv, PromptsInv
<1>3. Delivered'
  <2>1. pc' \in {"balance", "reward", "build"}
    BY DEF MergeRollouts, Balance, KeepOrder, TakeReward
  <2> QED  BY <1>1, <2>1, NotReady DEF StepInv
<1>4. OutcomeInv'
  <2>1. OutcomeInv  BY DEF StepInv, MergeRollouts, Balance, KeepOrder, TakeReward
  <2> QED  BY <1>1, <2>1 DEF OutcomeInv
<1>5. CASE MergeRollouts
  <2>1. PICK d : d = Union(Repeat(prompts, RolloutN, NumPrompts), gen)  OBVIOUS
  <2>2. batch' = d /\ pc' = "balance"  BY <1>5, <2>1 DEF MergeRollouts
  <2>3. PromptsInv /\ GenInv  BY <1>5 DEF StepInv, MergeRollouts
  <2>4. Fitting(batch)'  BY <1>1, <2>1, <2>2, <2>3, MergedFits, FittingStays
  <2> QED  BY <1>2, <1>3, <1>4, <2>2, <2>4 DEF StepInv
<1>6. CASE Balance
  <2>1. PICK d : d = batch  OBVIOUS
  <2>2. PICK idx \in Bijection(Rows, Rows) : batch' = Reorder(d, idx)  BY <1>6, <2>1 DEF Balance
  <2>3. PICK e : e = Reorder(d, idx)  OBVIOUS
  <2>4. Fitting(d)  BY <1>6, <2>1 DEF StepInv, Balance
  <2>5. Fitting(e)  BY <2>3, <2>4, ReorderedFits
  <2>6. Fitting(batch)'  BY <1>1, <2>2, <2>3, <2>5, FittingStays
  <2>7. pc' = "reward"  BY <1>6 DEF Balance
  <2> QED  BY <1>2, <1>3, <1>4, <2>6, <2>7 DEF StepInv
<1>7. CASE KeepOrder
  <2>1. PICK d : d = batch  OBVIOUS
  <2>2. Fitting(d) /\ batch' = d /\ pc' = "reward"  BY <1>7, <2>1 DEF StepInv, KeepOrder
  <2>3. Fitting(batch)'  BY <1>1, <2>2, FittingStays
  <2> QED  BY <1>2, <1>3, <1>4, <2>2, <2>3 DEF StepInv
<1>8. CASE TakeReward
  <2>1. PICK d : d = batch  OBVIOUS
  <2>2. Fitting(d) /\ batch' = d /\ pc' = "build"  BY <1>8, <2>1 DEF StepInv, TakeReward
  <2>3. Fitting(batch)'  BY <1>1, <2>2, FittingStays
  <2>4. reward' = ExtractReward(batch)'  BY <1>8 DEF TakeReward, ExtractReward
  <2> QED  BY <1>2, <1>3, <1>4, <2>2, <2>3, <2>4 DEF StepInv
<1> QED  BY <1>5, <1>6, <1>7, <1>8

\* The columns of the batch once the teacher's rows and the advantages are merged into it.
LEMMA TeacherColumns ==
  ASSUME NEW d, Fitting(d), NEW t, NEW advantages, DOMAIN advantages = Rows,
         DOMAIN t.tensors = {"teacher_responses", "self_distillation_mask"},
         DOMAIN t.objects = {"teacher_messages"}, RowsOf(t.tensors), RowsOf(t.objects),
         NEW e, e = Union(Union(d, t), [tensors |-> [advantages |-> advantages], objects |-> <<>>])
  PROVE  /\ RowsOf(e.tensors) /\ RowsOf(e.objects)
         /\ e.tensors.responses = d.tensors.responses
         /\ e.tensors.teacher_responses = t.tensors.teacher_responses
         /\ e.tensors.self_distillation_mask = t.tensors.self_distillation_mask
         /\ e.tensors.advantages = advantages
         /\ e.objects.teacher_messages = t.objects.teacher_messages
<1>1. PICK m : m = Union(d, t)  OBVIOUS
<1>2. PICK a : a = [tensors |-> [advantages |-> advantages], objects |-> <<>>]  OBVIOUS
<1>3. e = Union(m, a)  BY <1>1, <1>2
<1>4. /\ DOMAIN m.tensors = {"responses", "rm_scores", "teacher_responses", "self_distillation_mask"}
      /\ \A key \in {"responses", "rm_scores"} : m.tensors[key] = d.tensors[key]
      /\ \A key \in {"teacher_responses", "self_distillation_mask"} : m.tensors[key] = t.tensors[key]
  BY <1>1 DEF Union, Extend, Fitting
<1>5. /\ DOMAIN m.objects = DOMAIN d.objects \cup {"teacher_messages"}
      /\ \A key \in DOMAIN d.objects : m.objects[key] = d.objects[key]
      /\ m.objects["teacher_messages"] = t.objects["teacher_messages"]
  BY <1>1 DEF Union, Extend, Fitting
<1>6. DOMAIN a.tensors = {"advantages"} /\ a.tensors["advantages"] = advantages /\ DOMAIN a.objects = {}
  BY <1>2
<1>7. /\ DOMAIN e.tensors = DOMAIN m.tensors \cup {"advantages"}
      /\ \A key \in DOMAIN m.tensors : e.tensors[key] = m.tensors[key]
      /\ e.tensors["advantages"] = advantages
  <2>1. e.tensors = Extend(m.tensors, a.tensors)  BY <1>3 DEF Union
  <2>2. PICK f : f = m.tensors  OBVIOUS
  <2>3. PICK g : g = a.tensors  OBVIOUS
  <2>4. "advantages" \notin DOMAIN f /\ DOMAIN g = {"advantages"} /\ g["advantages"] = advantages
    BY <1>4, <1>6, <2>2, <2>3
  <2>5. /\ DOMAIN Extend(f, g) = DOMAIN f \cup {"advantages"}
        /\ \A key \in DOMAIN f : Extend(f, g)[key] = f[key]
        /\ Extend(f, g)["advantages"] = advantages
    BY <2>4 DEF Extend
  <2> QED  BY <2>1, <2>2, <2>3, <2>5
<1>8. DOMAIN e.objects = DOMAIN m.objects /\ \A key \in DOMAIN m.objects : e.objects[key] = m.objects[key]
  <2>1. e.objects = Extend(m.objects, a.objects)  BY <1>3 DEF Union
  <2>2. PICK f : f = m.objects  OBVIOUS
  <2>3. PICK g : g = a.objects  OBVIOUS
  <2>4. DOMAIN g = {}  BY <1>6, <2>3
  <2>5. DOMAIN Extend(f, g) = DOMAIN f /\ \A key \in DOMAIN f : Extend(f, g)[key] = f[key]
    BY <2>4 DEF Extend
  <2> QED  BY <2>1, <2>2, <2>3, <2>5
<1>9. RowsOf(m.tensors) /\ RowsOf(m.objects)
  BY <1>4, <1>5 DEF RowsOf, Fitting
<1>10. RowsOf(e.tensors) /\ RowsOf(e.objects)  BY <1>7, <1>8, <1>9 DEF RowsOf
<1> QED  BY <1>4, <1>5, <1>7, <1>8, <1>10

\* A set of rows has a first one.
LEMMA FirstRow ==
  ASSUME NEW S, S \subseteq Rows, S # {} PROVE Min(S) \in S
<1> DEFINE UpTo(x) == {y \in S : y =< x}
           B == {UpTo(x) : x \in S}
<1>1. S \subseteq Int
  <2>1. NumPrompts * RolloutN \in Nat  BY SizesAssumption
  <2> QED  BY <2>1 DEF Rows
<1>2. PICK M \in B : \A U \in SUBSET M : U # M => U \notin B
  <2>0. IsFiniteSet(S)  BY RowsFinite, FS_Subset
  <2>1. B \subseteq SUBSET S /\ B # {}  OBVIOUS
  <2> HIDE DEF B
  <2> QED  BY <2>0, <2>1, SmallestSubset
<1>3. PICK x \in S : M = UpTo(x)  OBVIOUS
<1>4. ASSUME NEW y \in S, ~(x =< y) PROVE FALSE
  <2>1. y < x  BY <1>1, <1>4
  <2>2. \A z \in UpTo(y) : z \in UpTo(x)
    <3> SUFFICES ASSUME NEW z \in UpTo(y) PROVE z \in UpTo(x)  OBVIOUS
    <3>1. x \in Int /\ y \in Int /\ z \in Int /\ z \in S /\ z =< y  BY <1>1
    <3> QED  BY <2>1, <3>1
  <2>3. x \in UpTo(x) /\ x \notin UpTo(y)  BY <1>1, <2>1
  <2>4. UpTo(y) \in B  OBVIOUS
  <2> HIDE DEF B, UpTo
  <2>5. UpTo(y) \in SUBSET M /\ UpTo(y) # M  BY <1>3, <2>2, <2>3
  <2> QED  BY <1>2, <2>4, <2>5
<1> QED  BY <1>4 DEF Min

\* The demonstration found for a row answers the row's prompt, with success.
LEMMA SolutionFits ==
  ASSUME Fitting(batch), reward = ExtractReward(batch), NEW i \in Rows, NEW s, s = SolutionStrs[i]
  PROVE  \/ s = None
         \/ s = ExpertAnswer(batch.tensors.responses[i].prompt)
         \/ /\ s \in DOMAIN outcome /\ s.prompt = batch.tensors.responses[i].prompt
            /\ outcome[s].score >= Threshold
<1>1. RowFits(batch, i)  BY DEF Fitting
<1>2. s = GetExpertSolution(i) \/ s = GetSolution(i)  BY Zenon DEF SolutionStrs
<1>3. CASE s = GetExpertSolution(i)
  BY <1>1, <1>3, Zenon DEF GetExpertSolution, RowFits
<1>4. CASE s = GetSolution(i)
  <2> DEFINE found == SolutionsByUid(batch.objects.uid[i])
             others == IF cfg.notself THEN found \ {i} ELSE found
  <2>1. s = IF others = {} THEN None ELSE batch.tensors.responses[Min(others)]
    BY <1>4 DEF GetSolution
  <2>2. others \subseteq found  BY Zenon
  <2>3. \A j \in found : j \in Rows /\ batch.objects.uid[j] = batch.objects.uid[i] /\ reward.tensor[j] >= Threshold
    BY DEF SolutionsByUid
  <2> HIDE DEF found, others
  <2>4. CASE others # {}
    <3>1. others \subseteq Rows  BY <2>2, <2>3
    <3>2. PICK j : j = Min(others)  OBVIOUS
    <3>3. j \in others  BY <2>4, <3>1, <3>2, FirstRow
    <3>4. j \in Rows /\ batch.objects.uid[j] = batch.objects.uid[i] /\ reward.tensor[j] >= Threshold
      BY <2>2, <2>3, <3>3
    <3>5. s = batch.tensors.responses[j]  BY <2>1, <2>4, <3>2
    <3>6. RowFits(batch, j)  BY <3>4 DEF Fitting
    <3>7. reward.tensor[j] = batch.tensors.rm_scores[j]  BY DEF ExtractReward
    <3> QED  BY <1>1, <3>4, <3>5, <3>6, <3>7 DEF RowFits
  <2> QED  BY <2>1, <2>4
<1> QED  BY <1>2, <1>3, <1>4

\* The feedback collected for a row was said about the answer in it.
LEMMA FeedbackFits ==
  ASSUME Fitting(batch), reward = ExtractReward(batch), NEW i \in Rows,
         NEW r, r = batch.tensors.responses[i],
         NEW f, f = CollectFeedback[i], f # NoFeedback
  PROVE  f.about = r /\ outcome[r].said
<1>1. "feedback" \in DOMAIN reward.extra /\ ~reward.extra.feedback[i].blank
      /\ f = reward.extra.feedback[i]
  BY Zenon DEF CollectFeedback
<1>2. "feedback" \in DOMAIN batch.objects /\ reward.extra.feedback[i] = batch.objects.feedback[i]
  <2>1. CASE "feedback" \in DOMAIN batch.objects
    <3>1. reward.extra = [feedback |-> batch.objects.feedback]  BY <2>1 DEF ExtractReward
    <3> QED  BY <2>1, <3>1
  <2>2. CASE "feedback" \notin DOMAIN batch.objects
    <3>1. reward.extra = <<>>  BY <2>2 DEF ExtractReward
    <3>2. DOMAIN reward.extra = {}  BY <3>1
    <3> QED  BY <1>1, <3>2
  <2> QED  BY <2>1, <2>2
<1>3. RowFits(batch, i)  BY DEF Fitting
<1>4. f = Feedback(r, outcome[r])  BY <1>1, <1>2, <1>3 DEF RowFits
<1>5. f.about = r /\ f.blank = ~outcome[r].said  BY <1>4 DEF Feedback
<1>6. ~f.blank  BY <1>1
<1> QED  BY <1>5, <1>6, Zenon

\* The answers in a group of rows: as many, and of the same scores, as the answers to the prompt.
LEMMA AdvantageFits ==
  ASSUME Fitting(batch), OutcomeInv, reward = ExtractReward(batch), NEW i \in Rows,
         NEW own, own = batch.tensors.responses[i],
         NEW group, group = {r \in DOMAIN outcome : r.prompt = own.prompt}
  PROVE  Advantage(i, reward.tensor, batch.objects.uid) =
           IF Cardinality(group) = 1 THEN outcome[own].score
           ELSE Cardinality(group) * outcome[own].score
                  - GroupSum([r \in group |-> outcome[r].score], group)
<1> DEFINE S == {j \in Rows : batch.objects.uid[j] = batch.objects.uid[i]}
           b == batch.tensors.responses
           f == reward.tensor
           g == [r \in group |-> outcome[r].score]
<1>1. DOMAIN batch.objects.uid = Rows  BY DEF Fitting, RowsOf
<1>2. ASSUME NEW j \in Rows
      PROVE  /\ b[j] \in DOMAIN outcome /\ f[j] = outcome[b[j]].score
             /\ batch.objects.uid[j] = b[j].prompt
  BY DEF Fitting, RowFits, ExtractReward
<1>3. \A j, k \in Rows : b[j] = b[k] => j = k  BY DEF Fitting
<1>4. \A r \in DOMAIN outcome : \E j \in Rows : b[j] = r  BY DEF Fitting
<1>5. \A j \in S : b[j] \in group /\ f[j] = outcome[b[j]].score /\ f[j] \in Int
  BY <1>2 DEF OutcomeInv
<1>6. {b[j] : j \in S} = group
  <2>1. ASSUME NEW r \in group PROVE r \in {b[j] : j \in S}
    <3>1. PICK j \in Rows : b[j] = r  BY <1>4
    <3> QED  BY <1>2, <3>1
  <2> QED  BY <1>5, <2>1
<1>7. IsFiniteSet(S)  BY RowsFinite, FS_Subset
<1>8. S \subseteq Rows  OBVIOUS
<1>9. f[i] = outcome[own].score  BY <1>2
<1>10. Advantage(i, f, batch.objects.uid) =
         IF Cardinality(S) = 1 THEN f[i] ELSE Cardinality(S) * f[i] - GroupSum(f, S)
  BY <1>1 DEF Advantage
<1>11. \A j \in S : g[b[j]] = f[j]  BY <1>5
<1> HIDE DEF S, b, f, g
<1>12. GroupSum(f, S) = GroupSum(g, group)
  <2>1. \A j \in S : f[j] \in Int  BY <1>5
  <2>2. \A x, y \in S : b[x] = b[y] => x = y  BY <1>3, <1>8
  <2>3. GroupSum(f, S) = GroupSum(g, {b[j] : j \in S})  BY <1>7, <1>11, <2>1, <2>2, SumRenamed
  <2> QED  BY <1>6, <2>3
<1>13. Cardinality(S) = Cardinality(group)
  <2> DEFINE k == [j \in S |-> b[j]]
  <2>1. k \in Bijection(S, group)  BY <1>3, <1>6, <1>8 DEF Bijection, Injection, Surjection, IsInjective
  <2>2. ExistsBijection(S, group)  BY <2>1 DEF ExistsBijection
  <2> QED  BY <1>7, <2>2, FS_Bijection
<1> QED  BY <1>9, <1>10, <1>12, <1>13 DEF f, g

\* The teacher's rows are written for the answers they are put beside.
LEMMA BuildKeeps ==
  ASSUME StepInv, BuildTeacher PROVE StepInv'
<1>1. /\ Fitting(batch) /\ OutcomeInv /\ reward = ExtractReward(batch)
      /\ PromptsInv /\ TypeOK
  BY DEF StepInv, BuildTeacher, Delivered
<1>2. pc' = "ready" /\ UNCHANGED <<cfg, answers, prompts, gen, reward, outcome>>
  BY DEF BuildTeacher
<1>3. PromptsInv'  BY <1>1, <1>2 DEF PromptsInv
<1> DEFINE sols == SolutionStrs
           feeds == CollectFeedback
           masks == [i \in Rows |-> DistillationMask(i, sols[i], feeds[i])]
           messages == [i \in Rows |-> TeacherMessage(i, sols[i], feeds[i])]
           advs == [i \in Rows |-> Advantage(i, reward.tensor, batch.objects.uid)]
<1>4. PICK d : d = batch  OBVIOUS
<1>5. PICK t : t = TeacherBatch  OBVIOUS
<1>6. PICK advantages : advantages = advs  OBVIOUS
<1>7. PICK e : e = Union(Union(d, t), [tensors |-> [advantages |-> advantages], objects |-> <<>>])
  OBVIOUS
<1>8. batch' = e  BY <1>4, <1>5, <1>6, <1>7 DEF BuildTeacher
<1>9. /\ t.tensors = [teacher_responses |-> d.tensors.responses, self_distillation_mask |-> masks]
      /\ t.objects = [teacher_messages |-> messages]
  BY <1>4, <1>5, Zenon DEF TeacherBatch
<1>10. DOMAIN masks = Rows /\ DOMAIN messages = Rows /\ DOMAIN advs = Rows  OBVIOUS
<1>11. ASSUME NEW i \in Rows
       PROVE  /\ masks[i] = DistillationMask(i, sols[i], feeds[i])
              /\ messages[i] = TeacherMessage(i, sols[i], feeds[i])
              /\ advs[i] = Advantage(i, reward.tensor, batch.objects.uid)
  BY Zenon
<1> HIDE DEF sols, feeds, masks, messages, advs
<1>12. /\ RowsOf(e.tensors) /\ RowsOf(e.objects)
       /\ e.tensors.responses = d.tensors.responses
       /\ e.tensors.teacher_responses = d.tensors.responses
       /\ e.tensors.self_distillation_mask = masks
       /\ e.tensors.advantages = advs
       /\ e.objects.teacher_messages = messages
  <2>1. /\ DOMAIN t.tensors = {"teacher_responses", "self_distillation_mask"}
        /\ DOMAIN t.objects = {"teacher_messages"}
        /\ t.tensors.teacher_responses = d.tensors.responses
        /\ t.tensors.self_distillation_mask = masks
        /\ t.objects.teacher_messages = messages
    BY <1>9
  <2>2. Fitting(d)  BY <1>1, <1>4
  <2>3. DOMAIN d.tensors.responses = Rows  BY <2>2 DEF Fitting, RowsOf
  <2>4. RowsOf(t.tensors) /\ RowsOf(t.objects)  BY <1>10, <2>1, <2>3 DEF RowsOf
  <2>5. DOMAIN advantages = Rows  BY <1>6, <1>10
  <2> QED  BY <1>6, <1>7, <2>1, <2>2, <2>4, <2>5, TeacherColumns
<1> DEFINE R(i) == d.tensors.responses[i]
<1>13. ASSUME NEW i \in Rows
       PROVE  /\ R(i) \in DOMAIN outcome /\ reward.tensor[i] = outcome[R(i)].score
              /\ batch.objects.raw_prompt[i] = R(i).prompt
  <2>1. RowFits(batch, i)  BY <1>1 DEF Fitting
  <2>2. reward.tensor[i] = batch.tensors.rm_scores[i]  BY <1>1 DEF ExtractReward
  <2> QED  BY <1>4, <2>1, <2>2 DEF RowFits
<1>14. ASSUME NEW i \in Rows
       PROVE  /\ messages[i].prompt = R(i).prompt /\ messages[i].solution = sols[i]
              /\ messages[i].feedback =
                   IF UseFeedback(feeds[i], sols[i]) THEN feeds[i] ELSE NoFeedback
              /\ messages[i].reprompted =
                   (sols[i] # None \/ UseFeedback(feeds[i], sols[i]) \/ cfg.always)
  <2>1. messages[i] = [prompt     |-> batch.objects.raw_prompt[i],
                       solution   |-> sols[i],
                       feedback   |-> IF UseFeedback(feeds[i], sols[i]) THEN feeds[i] ELSE NoFeedback,
                       reprompted |-> sols[i] # None \/ UseFeedback(feeds[i], sols[i]) \/ cfg.always]
    BY <1>11, Zenon DEF TeacherMessage
  <2> QED  BY <1>13, <2>1
<1>15. TypeOK'
  <2>1. \A part \in {e.tensors, e.objects} : \A key \in DOMAIN part : DOMAIN part[key] = Rows
    BY <1>12 DEF RowsOf
  <2>2. {e.tensors.responses[i] : i \in Rows} = DOMAIN outcome
    <3>1. \A r \in DOMAIN outcome : \E i \in Rows : R(i) = r  BY <1>1, <1>4 DEF Fitting
    <3>2. \A i \in Rows : e.tensors.responses[i] = R(i) /\ R(i) \in DOMAIN outcome  BY <1>12, <1>13
    <3> HIDE DEF R
    <3>3. {e.tensors.responses[i] : i \in Rows} = {R(i) : i \in Rows}  BY <3>2
    <3> QED  BY <3>1, <3>2, <3>3
  <2> QED  BY <1>1, <1>2, <1>8, <2>1, <2>2 DEF TypeOK, Ready, Columns, Response
<1>16. DemonstrationFits'
  <2>1. ASSUME NEW i \in Rows
        PROVE  \/ sols[i] = None
               \/ sols[i] = ExpertAnswer(R(i).prompt)
               \/ /\ sols[i] \in DOMAIN outcome /\ sols[i].prompt = R(i).prompt
                  /\ outcome[sols[i]].score >= Threshold
    <3>1. PICK s : s = sols[i]  OBVIOUS
    <3> QED  BY <1>1, <1>4, <3>1, SolutionFits DEF sols
  <2>2. \A p : ExpertAnswer(p).prompt = p  BY DEF ExpertAnswer, Answer
  <2>3. ASSUME NEW i \in Rows, sols[i] # None
        PROVE  /\ sols[i].prompt = messages[i].prompt /\ sols[i].prompt = R(i).prompt
               /\ sols[i] # ExpertAnswer(sols[i].prompt) => outcome[sols[i]].score >= Threshold
    BY <1>14, <2>1, <2>2, <2>3
  <2> QED  BY <1>2, <1>8, <1>12, <1>14, <2>3
           DEF DemonstrationFits, Message, OwnPrompt, Response, Succeeded
<1>17. FeedbackAboutOwnAnswer'
  <2>1. ASSUME NEW i \in Rows, messages[i].feedback # NoFeedback
        PROVE  messages[i].feedback.about = R(i) /\ outcome[R(i)].said
    <3>1. feeds[i] # NoFeedback /\ messages[i].feedback = feeds[i]  BY <1>14, <2>1
    <3>2. PICK r : r = R(i)  OBVIOUS
    <3>3. PICK f : f = feeds[i]  OBVIOUS
    <3> QED  BY <1>1, <1>4, <3>1, <3>2, <3>3, FeedbackFits DEF feeds
  <2>2. \A i \in Rows : e.tensors.teacher_responses[i] = e.tensors.responses[i]  BY <1>12
  <2> QED  BY <1>2, <1>8, <1>12, <2>1, <2>2 DEF FeedbackAboutOwnAnswer, Message, Response
<1>18. MaskTellsReprompted'
  <2>1. ASSUME NEW i \in Rows
        PROVE  /\ masks[i] => messages[i].reprompted
               /\ messages[i].reprompted /\ ~masks[i] =>
                    cfg.expert /\ cfg.skipcorrect /\ outcome[R(i)].score >= Threshold
    <3>1. messages[i].reprompted = (sols[i] # None \/ UseFeedback(feeds[i], sols[i]) \/ cfg.always)
      BY <1>14
    <3>2. masks[i] = (/\ sols[i] # None \/ UseFeedback(feeds[i], sols[i]) \/ cfg.always
                      /\ ~(cfg.expert /\ cfg.skipcorrect /\ reward.tensor[i] >= Threshold))
      BY <1>11, Zenon DEF DistillationMask, AlreadyCorrect
    <3>3. reward.tensor[i] = outcome[R(i)].score  BY <1>13
    <3> QED  BY <3>1, <3>2, <3>3, Zenon
  <2> QED  BY <1>2, <1>8, <1>12, <2>1
           DEF MaskTellsReprompted, Message, Response, Succeeded
<1>19. AdvantageWithinPrompt'
  <2> DEFINE G(i) == {r \in DOMAIN outcome : r.prompt = R(i).prompt}
  <2>1. ASSUME NEW i \in Rows
        PROVE  advs[i] =
                 IF Cardinality(G(i)) = 1 THEN outcome[R(i)].score
                 ELSE Cardinality(G(i)) * outcome[R(i)].score
                        - GroupSum([r \in G(i) |-> outcome[r].score], G(i))
    <3>1. PICK own : own = R(i)  OBVIOUS
    <3>2. PICK group : group = G(i)  OBVIOUS
    <3> QED  BY <1>1, <1>4, <1>11, <3>1, <3>2, AdvantageFits
  <2>2. \A i \in Rows : e.tensors.responses[i] = R(i) /\ e.tensors.advantages[i] = advs[i]
    BY <1>12
  <2> QED  BY <1>2, <1>8, <2>1, <2>2 DEF AdvantageWithinPrompt, OwnPrompt, Response
<1>20. Delivered'  BY <1>15, <1>16, <1>17, <1>18, <1>19 DEF Delivered
<1> QED  BY <1>2, <1>3, <1>20 DEF StepInv

\* Every step of the program keeps the invariant.
LEMMA StepKeeps == StepInv /\ [Next]_vars => StepInv'
<1> SUFFICES ASSUME StepInv, [Next]_vars PROVE StepInv'  OBVIOUS
<1>1. CASE Generate  BY <1>1, GenerateKeeps
<1>2. CASE MergeRollouts \/ Balance \/ KeepOrder \/ TakeReward  BY <1>2, BatchKeeps
<1>3. CASE BuildTeacher  BY <1>3, BuildKeeps
<1>4. CASE NextStep
  <2>1. PromptsInv'  BY <1>4 DEF StepInv, NextStep, PromptsInv
  <2>2. Delivered'  BY <1>4, NotReady DEF StepInv, NextStep
  <2> QED  BY <1>4, <2>1, <2>2 DEF StepInv, NextStep
<1>5. CASE UNCHANGED vars
  <2>1. UNCHANGED <<cfg, pc, answers, prompts, gen, batch, reward, outcome>>  BY <1>5 DEF vars
  <2>2. PromptsInv'  BY <2>1 DEF StepInv, PromptsInv
  <2>3. TypeOK' = TypeOK  BY <2>1 DEF TypeOK, Ready, Columns, Response
  <2>4. DemonstrationFits' = DemonstrationFits
    BY <2>1 DEF DemonstrationFits, Ready, Message, OwnPrompt, Response, Succeeded
  <2>5. FeedbackAboutOwnAnswer' = FeedbackAboutOwnAnswer
    BY <2>1 DEF FeedbackAboutOwnAnswer, Ready, Message, Response
  <2>6. MaskTellsReprompted' = MaskTellsReprompted
    BY <2>1 DEF MaskTellsReprompted, Ready, Message, Response, Succeeded
  <2>7. AdvantageWithinPrompt' = AdvantageWithinPrompt
    BY <2>1 DEF AdvantageWithinPrompt, Ready, OwnPrompt, Response
  <2>8. Delivered'  BY <2>3, <2>4, <2>5, <2>6, <2>7 DEF StepInv, Delivered
  <2>9. OutcomeInv => OutcomeInv'  BY <2>1 DEF OutcomeInv
  <2>10. GenInv => GenInv'  BY <2>1 DEF GenInv
  <2>11. Fitting(batch) => Fitting(batch)'
    <3>1. PICK d : d = batch  OBVIOUS
    <3> QED  BY <2>1, <3>1, FittingStays
  <2>12. reward = ExtractReward(batch) => reward' = ExtractReward(batch)'
    BY <2>1 DEF ExtractReward
  <2>13. pc' = pc  BY <2>1
  <2> QED  BY <2>2, <2>8, <2>9, <2>10, <2>11, <2>12, <2>13, Zenon DEF StepInv
<1> QED  BY <1>1, <1>2, <1>3, <1>4, <1>5 DEF Next

\* The inductive invariant of the step: from the agent loops' columns to the batch of
\* the actor, every row of every column belongs to the answer in it.
THEOREM StepInvariant == Spec => []StepInv
<1>1. Init => StepInv  BY StepInitially
<1>2. StepInv /\ [Next]_vars => StepInv'  BY StepKeeps
<1> QED  BY <1>1, <1>2, PTL DEF Spec

\* The batch the actor is given has one entry per row in every column, and all answers.
THEOREM DistillationTypeCorrect == Spec => []TypeOK
<1>1. StepInv => TypeOK  BY DEF StepInv, Delivered
<1> QED  BY <1>1, StepInvariant, PTL

\* A teacher's demonstration is a successful answer to its own prompt, whatever the order
\* the rows were balanced into.
THEOREM DemonstrationAnswersPrompt == Spec => []DemonstrationFits
<1>1. StepInv => DemonstrationFits  BY DEF StepInv, Delivered
<1> QED  BY <1>1, StepInvariant, PTL

\* A teacher's feedback was said about the answer it scores.
THEOREM FeedbackBelongsToAnswer == Spec => []FeedbackAboutOwnAnswer
<1>1. StepInv => FeedbackAboutOwnAnswer  BY DEF StepInv, Delivered
<1> QED  BY <1>1, StepInvariant, PTL

\* The two computations of which prompts were rewritten agree.
THEOREM MaskAgrees == Spec => []MaskTellsReprompted
<1>1. StepInv => MaskTellsReprompted  BY DEF StepInv, Delivered
<1> QED  BY <1>1, StepInvariant, PTL

\* The advantages compare an answer with all answers to its prompt, in any order of the rows.
THEOREM AdvantageOfPrompt == Spec => []AdvantageWithinPrompt
<1>1. StepInv => AdvantageWithinPrompt  BY DEF StepInv, Delivered
<1> QED  BY <1>1, StepInvariant, PTL

\* A step that fails has answers whose scorers returned different keys.
KeysMixed == \E r, s \in DOMAIN outcome : outcome[r].keys # outcome[s].keys
FailsOnMixedKeys == pc = "failed" => KeysMixed

\* The chunks of the workers are made of rows, and none is empty.
LEMMA ChunkRows ==
  ASSUME NEW w \in 1 .. NumWorkers, NEW size, size = Cardinality(Rows) \div NumWorkers
  PROVE  Chunk(w, size) \subseteq Rows /\ (w - 1) * size + 1 \in Rows
<1>1. NumPrompts * RolloutN \in Nat \ {0} /\ NumWorkers \in Nat \ {0} /\ w \in Nat \ {0} /\ w <= NumWorkers
  BY SizesAssumption
<1>2. Cardinality(Rows) = NumPrompts * RolloutN
  <2>1. PICK m \in Nat \ {0} : m = NumPrompts * RolloutN  BY <1>1
  <2>2. Cardinality(1 .. m) = m  BY <2>1, FS_Interval
  <2> QED  BY <2>1, <2>2 DEF Rows
<1> DEFINE n == NumPrompts * RolloutN
<1>3. n \in Nat \ {0} /\ n % NumWorkers = 0 /\ size = n \div NumWorkers /\ Rows = 1 .. n
  BY <1>1, <1>2, SizesAssumption DEF Rows
<1> HIDE DEF n
<1>4. size \in Int /\ n = NumWorkers * size
  BY <1>1, <1>3
<1>5. size \in Nat /\ size > 0
  <2> SUFFICES ASSUME size <= 0 PROVE FALSE  BY <1>4
  <2>1. NumWorkers * size <= NumWorkers * 0  BY <1>1, <1>4
  <2> QED  BY <1>1, <1>3, <1>4, <2>1
<1>6. 0 <= (w - 1) * size /\ (w - 1) * size \in Int
  BY <1>1, <1>5
<1>7. w * size <= NumWorkers * size /\ w * size = (w - 1) * size + size
  BY <1>1, <1>5
<1> DEFINE a == (w - 1) * size
           b == w * size
<1>8. a \in Int /\ 0 <= a /\ b = a + size /\ b <= n
  BY <1>4, <1>6, <1>7
<1> HIDE DEF a, b
<1>9. a + 1 .. b \subseteq 1 .. n /\ a + 1 \in 1 .. n
  BY <1>3, <1>5, <1>8
<1> QED  BY <1>3, <1>9 DEF Chunk, a, b

\* Results with the same keys can be stacked and joined.
LEMMA SameKeysJoin ==
  ASSUME NEW results, NEW size, size = Cardinality(Rows) \div NumWorkers,
         NEW k, \A i \in Rows : results[i].keys = k
  PROVE  Stacks(results, size) /\ Joins(results, size)
<1>1. ASSUME NEW w \in 1 .. NumWorkers PROVE KeysOfChunk(results, w, size) = k
  BY ChunkRows DEF KeysOfChunk
<1>2. \A w \in 1 .. NumWorkers : \A i \in Chunk(w, size) : results[i].keys = k
  BY ChunkRows
<1>3. 1 \in 1 .. NumWorkers  BY SizesAssumption
<1>4. Stacks(results, size)  BY <1>1, <1>2 DEF Stacks
<1>5. Joins(results, size)  BY <1>1, <1>3 DEF Joins
<1> QED  BY <1>4, <1>5

\* A batch that cannot be put together is that of several scorers, or of one
\* that failed.
LEMMA GenerateFails == ASSUME StepInv, Generate PROVE FailsOnMixedKeys'
<1> DEFINE input == Repeat(prompts, RolloutN, NumPrompts)
           resp == [i \in Rows |-> Answer(input.objects.raw_prompt[i], i)]
           size == Cardinality(Rows) \div NumWorkers
<1>1. PICK results \in [Rows -> UNION {Outcomes(m) : m \in Modules}] :
        /\ outcome' = [r \in {resp[i] : i \in Rows} |-> results[CHOOSE i \in Rows : resp[i] = r]]
        /\ Stacks(results, size) /\ Joins(results, size) => pc' # "failed"
  BY DEF Generate
<1>2. \A i \in Rows : resp[i] = First(i)
  BY Repeated DEF StepInv, First
<1>3. PICK z : z = size  OBVIOUS
<1> HIDE DEF resp, input, size
<1>4. \A i, j \in Rows : First(i) = First(j) => i = j  BY DEF First, Answer
<1>5. ASSUME NEW i \in Rows
      PROVE  First(i) \in DOMAIN outcome' /\ outcome'[First(i)] = results[i]
  <2>1. (CHOOSE j \in Rows : resp[j] = First(i)) = i  BY <1>2, <1>4
  <2>2. First(i) \in {resp[j] : j \in Rows}  BY <1>2
  <2> QED  BY <1>1, <2>1, <2>2
<1> SUFFICES ASSUME ~KeysMixed' PROVE pc' # "failed"  BY DEF FailsOnMixedKeys
<1>6. \A i, j \in Rows : results[i].keys = results[j].keys
  BY <1>5 DEF KeysMixed
<1>7. 1 \in Rows
  <2>1. NumPrompts * RolloutN \in Nat /\ 1 <= NumPrompts * RolloutN  BY SizesAssumption
  <2> QED  BY <2>1 DEF Rows
<1>8. PICK k : k = results[1].keys  OBVIOUS
<1>9. \A i \in Rows : results[i].keys = k  BY <1>6, <1>7, <1>8
<1>10. Stacks(results, size) /\ Joins(results, size)  BY <1>9, SameKeysJoin DEF size
<1> QED  BY <1>1, <1>10

\* A step fails in _postprocess or generate_sequences only where two answers of the batch
\* have results with different keys.
THEOREM FailureNeedsMixedKeys == Spec => []FailsOnMixedKeys
<1>1. Init => FailsOnMixedKeys  BY DEF Init, FailsOnMixedKeys
<1>2. StepInv /\ FailsOnMixedKeys /\ [Next]_vars => FailsOnMixedKeys'
  <2> SUFFICES ASSUME StepInv, FailsOnMixedKeys, [Next]_vars PROVE FailsOnMixedKeys'  OBVIOUS
  <2>1. CASE Generate  BY <2>1, GenerateFails
  <2>2. CASE MergeRollouts \/ Balance \/ KeepOrder \/ TakeReward \/ BuildTeacher \/ NextStep
    <3>1. pc' # "failed"
      BY <2>2 DEF MergeRollouts, Balance, KeepOrder, TakeReward, BuildTeacher, NextStep
    <3> QED  BY <3>1 DEF FailsOnMixedKeys
  <2>3. CASE UNCHANGED vars
    BY <2>3 DEF vars, FailsOnMixedKeys, KeysMixed
  <2> QED  BY <2>1, <2>2, <2>3 DEF Next
<1> QED  BY <1>1, <1>2, StepInvariant, PTL DEF Spec

\* All scorers of the data return the same keys, and no call of them times out or raises.
OneScorer == ~Timeouts /\ ~Raises /\ \A m, n \in Modules : ResultKeys(m) = ResultKeys(n)
NeverFails == OneScorer => pc # "failed"

\* A data set whose scorers return the same keys, and whose calls neither time out nor
\* raise, never loses a step in _postprocess or generate_sequences, whatever the chunks.
THEOREM OneScorerNeverFails == Spec => []NeverFails
<1>1. Init => NeverFails  BY DEF Init, NeverFails
<1>2. StepInv /\ NeverFails /\ [Next]_vars => NeverFails'
  <2> SUFFICES ASSUME StepInv, NeverFails, [Next]_vars, OneScorer PROVE pc' # "failed"
    BY DEF NeverFails
  <2>1. CASE Generate
    <3>1. PICK results \in [Rows -> UNION {Outcomes(m) : m \in Modules}] :
            LET size == Cardinality(Rows) \div NumWorkers
            IN  Stacks(results, size) /\ Joins(results, size) => pc' # "failed"
      BY <2>1 DEF Generate
    <3>2. \A m \in Modules : \A o \in Outcomes(m) : o.keys = ResultKeys(m)
      BY DEF Outcomes, FailureKeys, OneScorer
    <3>3. PICK k : \A m \in Modules : ResultKeys(m) = k  BY DEF OneScorer
    <3>4. \A i \in Rows : results[i].keys = k  BY <3>2, <3>3
    <3>5. PICK size : size = Cardinality(Rows) \div NumWorkers  OBVIOUS
    <3>6. Stacks(results, size) /\ Joins(results, size)  BY <3>4, <3>5, SameKeysJoin
    <3> QED  BY <3>1, <3>5, <3>6
  <2>2. CASE MergeRollouts \/ Balance \/ KeepOrder \/ TakeReward \/ BuildTeacher \/ NextStep
    BY <2>2 DEF MergeRollouts, Balance, KeepOrder, TakeReward, BuildTeacher, NextStep
  <2>3. CASE UNCHANGED vars
    BY <2>3 DEF vars, NeverFails
  <2> QED  BY <2>1, <2>2, <2>3 DEF Next
<1> QED  BY <1>1, <1>2, StepInvariant, PTL DEF Spec

\* A teacher's forward pass.
Targets == [reference : Seq(Nat), policy : Nat]

(***************************************************************************)
(* The inductive invariant                                                 *)
(***************************************************************************)

\* The sequences and the checkpoint are typed ...
SeqTypes ==
    /\ teacher \in Seq(Nat) /\ mixed \in Seq(Nat) /\ targets \in Seq(Targets)
    /\ saved \in [student : Nat, updates : Nat, mixed : Seq(Nat)]

\* ... and the student has been given at most one step per mini-batch so far.
StudentBounded ==
    /\ saved.student <= Total * saved.updates
    /\ phase = "idle" => student <= Total * updates
    /\ phase # "idle" => updates < MaxUpdates /\ student <= Total * updates + mini

TypeInv == ActorTypeOK /\ SeqTypes /\ StudentBounded

\* While an EMA teacher scores, every target so far is its own.
ScoredByTeacher ==
    setting.regularization = "ema" /\ phase = "training" =>
        \A i \in DOMAIN targets : targets[i] = Model(teacher, NoPolicy)

\* With a rate of zero the reference module never changes.
Frozen == setting.rate = 0 => teacher = <<>>

-----------------------------------------------------------------------------

\* An update has a positive number of mini-batches.
LEMMA TotalPositive == Total \in Nat \ {0}
BY ActorAssumption DEF Total

\* Products, for the bound on the student's steps.
LEMMA Monotone ==
    ASSUME NEW n \in Nat, NEW a \in Nat, NEW b \in Nat, a <= b
    PROVE  n * a <= n * b
OBVIOUS

LEMMA OneMore ==
    ASSUME NEW n \in Nat, NEW a \in Nat
    PROVE  n * (a + 1) = n * a + n /\ n * a \in Nat
OBVIOUS

\* Appending to a sequence, element by element.
LEMMA Appended ==
    ASSUME NEW S, NEW s \in Seq(S), NEW e \in S
    PROVE  /\ Append(s, e) \in Seq(S)
           /\ Len(Append(s, e)) = Len(s) + 1
           /\ DOMAIN Append(s, e) = 1 .. Len(s) + 1
           /\ \A i \in 1 .. Len(s) : Append(s, e)[i] = s[i]
           /\ Append(s, e)[Len(s) + 1] = e
BY AppendProperties, LenProperties

\* The teacher's forward pass is always one of a reference and a policy.
LEMMA ModelTyped ==
    ASSUME teacher \in Seq(Nat), student \in Nat
    PROVE  TeacherModel \in Targets
BY DEF TeacherModel, Lerp, Model, NoPolicy, Targets

-----------------------------------------------------------------------------

\* Types and the bound on the student are inductive.
LEMMA TypeInvInitially == ActorInit => TypeInv
<1> SUFFICES ASSUME ActorInit PROVE TypeInv
  OBVIOUS
<1>1. <<>> \in Seq(Nat) /\ <<>> \in Seq(Targets) /\ Len(<<>>) = 0
  OBVIOUS
<1>2. Total \in Nat /\ Total * MaxUpdates \in Nat /\ Total * 0 = 0
  BY TotalPositive, ActorAssumption
<1>3. ActorTypeOK
  <2>1. student = 0 /\ saved.student = 0 /\ updates = 0 /\ saved.updates = 0
    BY DEF ActorInit
  <2>2. student \in saved.student .. Total * MaxUpdates /\ updates \in saved.updates .. MaxUpdates
    BY <1>2, <2>1, ActorAssumption
  <2>3. Len(mixed) = 0 /\ Len(targets) = 0 /\ began = 0 /\ mini = 0 /\ restarts = 0
    BY <1>1 DEF ActorInit
  <2>4. began \in 0 .. Len(mixed) /\ mini \in 0 .. Total /\ restarts \in 0 .. MaxRestarts
    BY <1>2, <2>3, ActorAssumption
  <2> QED
    BY <2>2, <2>3, <2>4 DEF ActorInit, ActorTypeOK
<1>4. SeqTypes
  BY <1>1 DEF ActorInit, SeqTypes
<1>5. StudentBounded
  BY <1>2 DEF ActorInit, StudentBounded
<1> QED
  BY <1>3, <1>4, <1>5 DEF TypeInv

LEMMA TypeInvKept == TypeInv /\ [ActorNext]_actorVars => TypeInv'
<1> SUFFICES ASSUME TypeInv, [ActorNext]_actorVars PROVE TypeInv'
  OBVIOUS
<1> USE DEF TypeInv
<1>1. /\ Total \in Nat \ {0} /\ MaxUpdates \in Nat /\ MaxRestarts \in Nat
      /\ student \in Nat /\ updates \in Nat /\ mini \in Nat
      /\ saved.student \in Nat /\ saved.updates \in Nat /\ saved.mixed \in Seq(Nat)
  BY TotalPositive, ActorAssumption DEF ActorTypeOK, SeqTypes
<1>2. \A a, b \in Nat : a <= b => Total * a <= Total * b
  BY <1>1, Monotone
<1>3. \A a \in Nat : Total * (a + 1) = Total * a + Total /\ Total * a \in Nat
  BY <1>1, OneMore
<1>4. CASE UpdatePolicy
  <2>1. <<>> \in Seq(Targets) /\ Len(<<>>) = 0
    OBVIOUS
  <2>2. targets' = <<>> /\ mini' = 0 /\ Len(targets') = mini'
    BY <1>4, <2>1 DEF UpdatePolicy
  <2>3. ActorTypeOK'
    <3>1. mini' = 0 /\ didUpdate' = FALSE /\ phase' = "training"
      BY <1>4 DEF UpdatePolicy
    <3>2. mini' \in 0 .. Total /\ Len(targets') = mini'
      BY <1>1, <2>2, <3>1
    <3>3. UNCHANGED <<setting, student, scaler, updates, saved, restarts, mixed, began>>
      BY <1>4 DEF UpdatePolicy
    <3> QED
      BY <3>1, <3>2, <3>3 DEF ActorTypeOK
  <2>4. SeqTypes'
    BY <1>4, <2>1 DEF UpdatePolicy, SeqTypes
  <2>5. StudentBounded'
    <3>1. student <= Total * updates /\ updates < MaxUpdates
      BY <1>4 DEF UpdatePolicy, StudentBounded
    <3>2. Total * updates \in Nat /\ Total * updates + 0 = Total * updates
      BY <1>1, <1>3
    <3> QED
      BY <1>4, <2>2, <3>1, <3>2 DEF UpdatePolicy, StudentBounded
  <2> QED
    BY <2>3, <2>4, <2>5
<1>5. CASE MiniBatch
  <2>1. TeacherModel \in Targets
    BY <1>1, ModelTyped DEF SeqTypes
  <2>2. targets' \in Seq(Targets) /\ Len(targets') = Len(targets) + 1
    BY <1>5, <2>1, Appended DEF MiniBatch, SeqTypes
  <2>3. /\ student' \in {student, student + 1} /\ didUpdate' \in BOOLEAN
        /\ scaler' \in {"ready", "unscaled"}
    BY <1>5 DEF MiniBatch, Applied, Skipped, ActorTypeOK
  <2>4. Total * updates + Total <= Total * MaxUpdates
    <3>1. updates + 1 <= MaxUpdates
      BY <1>1, <1>5 DEF MiniBatch, StudentBounded
    <3>2. Total * (updates + 1) <= Total * MaxUpdates
      BY <1>1, <1>2, <3>1
    <3> QED
      BY <1>1, <1>3, <3>2
  <2>5. student' <= Total * updates + mini + 1 /\ mini + 1 <= Total
    BY <1>1, <1>3, <1>5, <2>3 DEF MiniBatch, StudentBounded
  <2>6. student' \in saved.student .. Total * MaxUpdates
    <3>1. Total * updates \in Nat /\ Total * MaxUpdates \in Nat
      BY <1>1, <1>3
    <3>2. student' <= Total * MaxUpdates
      BY <1>1, <2>3, <2>4, <2>5, <3>1
    <3>3. saved.student <= student
      BY DEF ActorTypeOK
    <3> QED
      BY <1>1, <2>3, <3>1, <3>2, <3>3
  <2>7. ActorTypeOK'
    <3>1. mini' \in 0 .. Total /\ Len(targets') = mini'
      BY <1>1, <1>5, <2>2, <2>5 DEF MiniBatch, ActorTypeOK
    <3> QED
      BY <1>5, <2>3, <2>6, <3>1 DEF MiniBatch, ActorTypeOK
  <2>8. SeqTypes'
    BY <1>5, <2>2 DEF MiniBatch, SeqTypes
  <2>9. StudentBounded'
    BY <1>1, <1>3, <1>5, <2>5 DEF MiniBatch, StudentBounded
  <2> QED
    BY <2>7, <2>8, <2>9
<1>6. CASE UnscaleRaises
  BY <1>1, <1>6 DEF UnscaleRaises, ActorTypeOK, SeqTypes, StudentBounded
<1>7. CASE UpdateReturns
  <2>1. teacher' \in Seq(Nat)
    <3>1. teacher' = teacher \/ teacher' = Append(teacher, student)
      BY <1>7 DEF UpdateReturns, UpdateTeacher
    <3>2. teacher \in Seq(Nat) /\ student \in Nat
      BY <1>1 DEF SeqTypes
    <3>3. Append(teacher, student) \in Seq(Nat)
      BY <3>2, Appended
    <3> QED
      BY <3>1, <3>2, <3>3
  <2>2. mixed' \in Seq(Nat) /\ Len(mixed') >= Len(mixed) /\ Len(mixed') \in Nat
    <3>1. mixed' = mixed \/ mixed' = Append(mixed, student)
      BY <1>7 DEF UpdateReturns
    <3>2. mixed \in Seq(Nat) /\ student \in Nat
      BY <1>1 DEF SeqTypes
    <3>3. Append(mixed, student) \in Seq(Nat) /\ Len(Append(mixed, student)) = Len(mixed) + 1
      BY <3>2, Appended
    <3>4. Len(mixed) \in Nat
      BY <3>2, LenProperties
    <3> QED
      BY <3>1, <3>2, <3>3, <3>4
  <2>3. student <= Total * (updates + 1) /\ updates + 1 <= MaxUpdates
    BY <1>1, <1>3, <1>7 DEF UpdateReturns, StudentBounded
  <2>4. ActorTypeOK'
    <3>1. began' \in 0 .. Len(mixed')
      BY <1>7, <2>2 DEF UpdateReturns, ActorTypeOK
    <3>2. updates' \in saved'.updates .. MaxUpdates
      BY <1>1, <1>7, <2>3 DEF UpdateReturns, ActorTypeOK
    <3> QED
      BY <1>7, <3>1, <3>2 DEF UpdateReturns, ActorTypeOK
  <2>5. SeqTypes'
    BY <1>7, <2>1, <2>2 DEF UpdateReturns, SeqTypes
  <2>6. StudentBounded'
    BY <1>7, <2>3 DEF UpdateReturns, StudentBounded
  <2> QED
    BY <2>4, <2>5, <2>6
<1>8. CASE SaveCheckpoint
  BY <1>1, <1>8 DEF SaveCheckpoint, ActorTypeOK, SeqTypes, StudentBounded
<1>9. CASE Restart
  <2>1. <<>> \in Seq(Targets) /\ <<>> \in Seq(Nat) /\ Len(<<>>) = 0
    OBVIOUS
  <2>2. Len(saved.mixed) \in Nat
    BY <1>1, LenProperties
  <2>3. saved.updates <= MaxUpdates /\ saved.student <= Total * MaxUpdates
    BY <1>1, <1>2, <1>3 DEF ActorTypeOK, StudentBounded
  <2>4. ActorTypeOK'
    <3>1. began' \in 0 .. Len(mixed') /\ mini' \in 0 .. Total /\ restarts' \in 0 .. MaxRestarts
      BY <1>1, <1>9, <2>2 DEF Restart, ActorTypeOK
    <3>2. /\ student' \in saved'.student .. Total * MaxUpdates
          /\ updates' \in saved'.updates .. MaxUpdates
      BY <1>1, <1>9, <2>3 DEF Restart
    <3> QED
      BY <1>9, <3>1, <3>2 DEF Restart, ActorTypeOK
  <2>5. SeqTypes'
    BY <1>1, <1>9, <2>1 DEF Restart, SeqTypes
  <2>6. StudentBounded'
    BY <1>1, <1>9 DEF Restart, StudentBounded
  <2> QED
    BY <2>4, <2>5, <2>6
<1>10. CASE UNCHANGED actorVars
  BY <1>10 DEF actorVars, ActorTypeOK, SeqTypes, StudentBounded
<1> QED
  BY <1>4, <1>5, <1>6, <1>7, <1>8, <1>9, <1>10 DEF ActorNext

LEMMA TypesAlways == ActorSpec => []TypeInv
BY TypeInvInitially, TypeInvKept, PTL DEF ActorSpec

\* Every reachable state is well typed; the student never has fewer steps than the
\* checkpoint it was loaded from, and at most one per mini-batch (_optimizer_step).
THEOREM ActorTypeCorrect == ActorSpec => []ActorTypeOK
<1>1. TypeInv => ActorTypeOK
  BY DEF TypeInv
<1> QED
  BY TypesAlways, <1>1, PTL

-----------------------------------------------------------------------------

\* TypeInv is kept by every step, and a target is appended only by the mini-batch that
\* the teacher of this moment scores.
LEMMA ScoredByTeacherKept ==
    TypeInv /\ ScoredByTeacher /\ [ActorNext]_actorVars => ScoredByTeacher'
<1> SUFFICES ASSUME TypeInv, ScoredByTeacher, [ActorNext]_actorVars PROVE ScoredByTeacher'
  OBVIOUS
<1>1. CASE UpdatePolicy
  <2>1. targets' = <<>>
    BY <1>1 DEF UpdatePolicy
  <2> QED
    BY <2>1 DEF ScoredByTeacher
<1>2. CASE MiniBatch
  <2> SUFFICES ASSUME setting.regularization = "ema", NEW i \in DOMAIN targets'
               PROVE  targets'[i] = Model(teacher, NoPolicy)
    BY <1>2 DEF MiniBatch, ScoredByTeacher
  <2>1. targets \in Seq(Targets) /\ TeacherModel \in Targets
    BY ModelTyped DEF TypeInv, SeqTypes, ActorTypeOK
  <2>2. targets' = Append(targets, TeacherModel) /\ phase = "training"
    BY <1>2 DEF MiniBatch
  <2>3. TeacherModel = Model(teacher, NoPolicy)
    BY DEF TeacherModel
  <2>4. CASE i \in 1 .. Len(targets)
    BY <2>1, <2>2, <2>4, Appended, LenProperties DEF ScoredByTeacher
  <2>5. CASE i = Len(targets) + 1
    BY <2>1, <2>2, <2>3, <2>5, Appended
  <2> QED
    BY <2>1, <2>2, <2>4, <2>5, Appended, LenProperties
<1>3. CASE UnscaleRaises
  BY <1>3 DEF UnscaleRaises, ScoredByTeacher
<1>4. CASE UpdateReturns
  BY <1>4 DEF UpdateReturns, ScoredByTeacher
<1>5. CASE SaveCheckpoint
  BY <1>5 DEF SaveCheckpoint, ScoredByTeacher
<1>6. CASE Restart
  BY <1>6 DEF Restart, ScoredByTeacher
<1>7. CASE UNCHANGED actorVars
  BY <1>7 DEF actorVars, ScoredByTeacher
<1> QED
  BY <1>1, <1>2, <1>3, <1>4, <1>5, <1>6, <1>7 DEF ActorNext

\* With the EMA teacher, all mini-batches of an update are distilled from one teacher
\* (update_policy): it is the teacher of the moment while the update runs, and the
\* targets stay after it.
THEOREM OneTeacher == ActorSpec => []OneTeacherPerUpdate
<1> DEFINE Inv == ScoredByTeacher /\ OneTeacherPerUpdate
<1>1. ActorInit => Inv
  BY DEF ActorInit, ScoredByTeacher, OneTeacherPerUpdate
<1>2. TypeInv /\ TypeInv' /\ Inv /\ [ActorNext]_actorVars => Inv'
  <2> SUFFICES ASSUME TypeInv, TypeInv', Inv, [ActorNext]_actorVars PROVE Inv'
    OBVIOUS
  <2>1. ScoredByTeacher'
    BY ScoredByTeacherKept
  <2>2. CASE UpdatePolicy
    <3>1. targets' = <<>>
      BY <2>2 DEF UpdatePolicy
    <3> QED
      BY <2>1, <3>1 DEF OneTeacherPerUpdate
  <2>3. CASE MiniBatch
    <3>1. phase' = "training" /\ setting' = setting
      BY <2>3 DEF MiniBatch
    <3> QED
      BY <2>1, <3>1 DEF ScoredByTeacher, OneTeacherPerUpdate
  <2>4. CASE Restart
    <3>1. targets' = <<>>
      BY <2>4 DEF Restart
    <3> QED
      BY <2>1, <3>1 DEF OneTeacherPerUpdate
  <2>5. CASE UnscaleRaises \/ UpdateReturns \/ SaveCheckpoint \/ UNCHANGED actorVars
    <3>1. UNCHANGED <<setting, targets>>
      BY <2>5 DEF UnscaleRaises, UpdateReturns, SaveCheckpoint, actorVars
    <3> QED
      BY <2>1, <3>1 DEF OneTeacherPerUpdate
  <2> QED
    BY <2>2, <2>3, <2>4, <2>5 DEF ActorNext
<1>3. Inv => OneTeacherPerUpdate
  OBVIOUS
<1> QED
  BY <1>1, <1>2, <1>3, TypesAlways, PTL DEF ActorSpec

-----------------------------------------------------------------------------

\* What follows a position of a sequence, element by element.
LEMMA Rest ==
    ASSUME NEW S, NEW s \in Seq(S), NEW b \in 0 .. Len(s)
    PROVE  /\ SubSeq(s, b + 1, Len(s)) \in Seq(S)
           /\ Len(SubSeq(s, b + 1, Len(s))) = Len(s) - b
           /\ \A i \in 1 .. Len(s) - b : SubSeq(s, b + 1, Len(s))[i] = s[b + i]
<1>1. Len(s) \in Nat /\ b + 1 \in Int /\ Len(s) \in Int
  BY LenProperties
<1>2. \A i \in b + 1 .. Len(s) : s[i] \in S
  BY <1>1, ElementOfSeq
<1>3. /\ SubSeq(s, b + 1, Len(s)) \in Seq(S)
      /\ Len(SubSeq(s, b + 1, Len(s))) = IF b + 1 <= Len(s) THEN Len(s) - (b + 1) + 1 ELSE 0
      /\ \A i \in 1 .. Len(s) - (b + 1) + 1 : SubSeq(s, b + 1, Len(s))[i] = s[(b + 1) + i - 1]
  BY <1>1, <1>2, SubSeqProperties
<1> QED
  BY <1>1, <1>3

\* It grows as the sequence does.
LEMMA RestAppended ==
    ASSUME NEW S, NEW s \in Seq(S), NEW e \in S, NEW b \in 0 .. Len(s)
    PROVE  SubSeq(Append(s, e), b + 1, Len(s) + 1) = Append(SubSeq(s, b + 1, Len(s)), e)
<1> DEFINE l == SubSeq(Append(s, e), b + 1, Len(s) + 1)
           r == SubSeq(s, b + 1, Len(s))
<1>1. Len(s) \in Nat
  BY LenProperties
<1>2. /\ Append(s, e) \in Seq(S) /\ Len(Append(s, e)) = Len(s) + 1
      /\ \A i \in 1 .. Len(s) : Append(s, e)[i] = s[i]
      /\ Append(s, e)[Len(s) + 1] = e
  BY Appended
<1>3. /\ l \in Seq(S) /\ Len(l) = Len(s) + 1 - b
      /\ \A i \in 1 .. Len(s) + 1 - b : l[i] = Append(s, e)[b + i]
  <2>1. PICK a : a = Append(s, e)
    OBVIOUS
  <2>2. a \in Seq(S) /\ Len(a) = Len(s) + 1 /\ b \in 0 .. Len(a)
    BY <1>1, <1>2, <2>1
  <2>3. /\ SubSeq(a, b + 1, Len(a)) \in Seq(S) /\ Len(SubSeq(a, b + 1, Len(a))) = Len(a) - b
        /\ \A i \in 1 .. Len(a) - b : SubSeq(a, b + 1, Len(a))[i] = a[b + i]
    BY <2>2, Rest
  <2>4. SubSeq(a, b + 1, Len(a)) = l
    BY <2>1, <2>2
  <2> QED
    BY <2>1, <2>2, <2>3, <2>4
<1>4. /\ r \in Seq(S) /\ Len(r) = Len(s) - b
      /\ \A i \in 1 .. Len(s) - b : r[i] = s[b + i]
  BY Rest
<1> HIDE DEF l, r
<1>5. /\ Append(r, e) \in Seq(S) /\ Len(Append(r, e)) = Len(r) + 1
      /\ \A i \in 1 .. Len(r) : Append(r, e)[i] = r[i]
      /\ Append(r, e)[Len(r) + 1] = e
  BY <1>4, Appended
<1>6. ASSUME NEW i \in 1 .. Len(l)
      PROVE  l[i] = Append(r, e)[i]
  <2>1. i \in 1 .. Len(s) + 1 - b /\ l[i] = Append(s, e)[b + i]
    BY <1>3
  <2>2. CASE i = Len(s) + 1 - b
    <3>1. b + i = Len(s) + 1 /\ i = Len(r) + 1
      BY <1>1, <1>4, <2>2
    <3> QED
      BY <1>2, <1>5, <2>1, <3>1
  <2>3. CASE i # Len(s) + 1 - b
    <3>1. i \in 1 .. Len(s) - b /\ b + i \in 1 .. Len(s)
      <4>1. i \in 1 .. Len(s) + 1 - b
        BY <2>1
      <4> QED
        BY <1>1, <2>3, <4>1
    <3>2. l[i] = s[b + i]
      BY <1>2, <2>1, <3>1
    <3>3. r[i] = s[b + i] /\ Append(r, e)[i] = r[i]
      <4>1. i \in 1 .. Len(r)
        BY <1>4, <3>1
      <4> QED
        BY <1>4, <1>5, <3>1, <4>1
    <3> QED
      BY <3>2, <3>3
  <2> QED
    BY <2>2, <2>3
<1>7. Len(l) = Len(Append(r, e))
  BY <1>1, <1>3, <1>4, <1>5
<1>8. l = Append(r, e)
  BY <1>3, <1>5, <1>6, <1>7, SeqEqual
<1> QED
  BY <1>8 DEF l, r

\* The teacher has absorbed the student once for every update of this process that
\* changed the student, in order (_update_teacher at the end of update_policy, guarded
\* by did_update), and a restart leaves the history and the teacher behind together.
THEOREM TeacherFollows == ActorSpec => []TeacherFollowsStudent
<1>1. ActorInit => TeacherFollowsStudent
  <2> SUFFICES ASSUME ActorInit PROVE teacher = SubSeq(mixed, began + 1, Len(mixed))
    BY DEF TeacherFollowsStudent
  <2>1. teacher = <<>> /\ mixed = <<>> /\ began = 0 /\ Len(<<>>) = 0
    BY DEF ActorInit
  <2>2. SubSeq(mixed, 1, 0) = <<>>
    BY SubSeqEmpty
  <2> QED
    BY <2>1, <2>2
<1>2. TypeInv /\ TeacherFollowsStudent /\ [ActorNext]_actorVars => TeacherFollowsStudent'
  <2> SUFFICES ASSUME TypeInv, TeacherFollowsStudent, [ActorNext]_actorVars
               PROVE  TeacherFollowsStudent'
    OBVIOUS
  <2>0. setting' = setting
    BY DEF ActorNext, UpdatePolicy, MiniBatch, UnscaleRaises, UpdateReturns, SaveCheckpoint,
           Restart, actorVars
  <2> SUFFICES ASSUME setting.regularization = "ema", setting.rate > 0
               PROVE  teacher' = SubSeq(mixed', began' + 1, Len(mixed'))
    BY <2>0 DEF TeacherFollowsStudent
  <2>1. teacher = SubSeq(mixed, began + 1, Len(mixed))
    BY DEF TeacherFollowsStudent
  <2>2. CASE UpdateReturns
    <3>1. CASE didUpdate
      <4>1. /\ teacher' = Append(teacher, student) /\ mixed' = Append(mixed, student)
            /\ began' = began
        BY <2>2, <3>1 DEF UpdateReturns, UpdateTeacher
      <4>2. /\ mixed \in Seq(Nat) /\ began \in 0 .. Len(mixed)
        BY DEF TypeInv, ActorTypeOK, SeqTypes
      <4>3. student \in Nat
        BY DEF TypeInv, ActorTypeOK, SeqTypes
      <4>4. Len(mixed') = Len(mixed) + 1
        BY <4>1, <4>2, <4>3, Appended
      <4>5. SubSeq(Append(mixed, student), began + 1, Len(mixed) + 1)
              = Append(SubSeq(mixed, began + 1, Len(mixed)), student)
        BY <4>2, <4>3, RestAppended
      <4> QED
        BY <2>1, <4>1, <4>4, <4>5
    <3>2. CASE ~didUpdate
      BY <2>1, <2>2, <3>2 DEF UpdateReturns, UpdateTeacher
    <3> QED
      BY <3>1, <3>2
  <2>3. CASE Restart
    <3>1. teacher' = <<>> /\ mixed' = saved.mixed /\ began' = Len(mixed')
      BY <2>3 DEF Restart
    <3>2. Len(mixed') \in Nat
      BY <3>1, LenProperties DEF TypeInv, SeqTypes
    <3>3. SubSeq(mixed', Len(mixed') + 1, Len(mixed')) = <<>>
      BY <3>2, SubSeqEmpty
    <3> QED
      BY <3>1, <3>3
  <2>4. CASE UpdatePolicy \/ MiniBatch \/ UnscaleRaises \/ SaveCheckpoint \/ UNCHANGED actorVars
    <3>1. UNCHANGED <<teacher, mixed, began>>
      BY <2>4 DEF UpdatePolicy, MiniBatch, UnscaleRaises, SaveCheckpoint, actorVars
    <3> QED
      BY <2>1, <3>1
  <2> QED
    BY <2>2, <2>3, <2>4 DEF ActorNext
<1> QED
  BY <1>1, <1>2, TypesAlways, PTL DEF ActorSpec

-----------------------------------------------------------------------------

\* "teacher_update_rate: 0.0 freezes it at the initial policy" (README.md): with a rate of
\* zero the reference module never changes (_update_teacher, TrustRegionTeacher.forward),
\* so that every target was scored by the model the training began with.
THEOREM ZeroRateFreezes == ActorSpec => []RateZeroFreezes
<1> DEFINE Inv == Frozen /\ RateZeroFreezes
<1>1. ActorInit => Inv
  BY DEF ActorInit, Frozen, RateZeroFreezes
<1>2. TypeInv /\ Inv /\ [ActorNext]_actorVars => Inv'
  <2> SUFFICES ASSUME TypeInv, Inv, [ActorNext]_actorVars PROVE Inv'
    OBVIOUS
  <2>0. setting' = setting
    BY DEF ActorNext, UpdatePolicy, MiniBatch, UnscaleRaises, UpdateReturns, SaveCheckpoint,
           Restart, actorVars
  <2>1. Frozen'
    <3> SUFFICES ASSUME setting.rate = 0 PROVE teacher' = <<>>
      BY <2>0 DEF Frozen
    <3>1. teacher = <<>> /\ ~(setting.rate > 0)
      BY DEF Frozen
    <3>2. CASE UpdateReturns
      BY <3>1, <3>2 DEF UpdateReturns, UpdateTeacher
    <3>3. CASE Restart
      BY <3>3 DEF Restart
    <3>4. CASE UpdatePolicy \/ MiniBatch \/ UnscaleRaises \/ SaveCheckpoint \/ UNCHANGED actorVars
      BY <3>1, <3>4 DEF UpdatePolicy, MiniBatch, UnscaleRaises, SaveCheckpoint, actorVars
    <3> QED
      BY <3>2, <3>3, <3>4 DEF ActorNext
  <2>2. RateZeroFreezes'
    <3> SUFFICES ASSUME setting.rate = 0, NEW i \in DOMAIN targets'
                 PROVE  targets'[i] = Model(<<>>, NoPolicy)
      BY <2>0 DEF RateZeroFreezes
    <3>1. CASE MiniBatch
      <4>1. targets \in Seq(Targets) /\ TeacherModel \in Targets
        BY ModelTyped DEF TypeInv, SeqTypes, ActorTypeOK
      <4>2. targets' = Append(targets, TeacherModel)
        BY <3>1 DEF MiniBatch
      <4>3. TeacherModel = Model(<<>>, NoPolicy)
        BY DEF TeacherModel, Lerp, Frozen
      <4>4. CASE i \in 1 .. Len(targets)
        BY <4>1, <4>2, <4>4, Appended, LenProperties DEF RateZeroFreezes
      <4>5. CASE i = Len(targets) + 1
        BY <4>1, <4>2, <4>3, <4>5, Appended
      <4> QED
        BY <4>1, <4>2, <4>4, <4>5, Appended, LenProperties
    <3>2. CASE UpdatePolicy \/ Restart
      <4>1. targets' = <<>>
        BY <3>2 DEF UpdatePolicy, Restart
      <4> QED
        BY <4>1
    <3>3. CASE UnscaleRaises \/ UpdateReturns \/ SaveCheckpoint \/ UNCHANGED actorVars
      <4>1. targets' = targets
        BY <3>3 DEF UnscaleRaises, UpdateReturns, SaveCheckpoint, actorVars
      <4> QED
        BY <4>1 DEF RateZeroFreezes
    <3> QED
      BY <3>1, <3>2, <3>3 DEF ActorNext
  <2> QED
    BY <2>1, <2>2
<1>3. Inv => RateZeroFreezes
  OBVIOUS
<1> QED
  BY <1>1, <1>2, <1>3, TypesAlways, PTL DEF ActorSpec
==============================================================================
