-------------------------- MODULE SelfDistillation --------------------------
(***************************************************************************)
(* One training step of RayPPOTrainer.fit with the SDPO objective, from    *)
(* the prompts to the batch the actor is given (ray_trainer.py): every     *)
(* prompt is repeated and answered, the agent loop workers score the       *)
(* answers and stack their chunks (agent_loop.py), the trainer merges the  *)
(* rows with its prompts, reorders them for balance, takes the reward out  *)
(* again and writes for every row the prompt of the teacher, which may     *)
(* quote a successful answer of another row or what the scorer said of     *)
(* this one.  Rows travel as COLUMNS (protocol.py): a tensor part and a    *)
(* non-tensor part, joined by position only.                               *)
(***************************************************************************)
EXTENDS Integers, FiniteSets, FiniteSetsExt, Functions

CONSTANTS
    NumPrompts,     \* prompts of a batch
    RolloutN,       \* rollout.n, answers per prompt
    NumWorkers,     \* agent loop workers, one contiguous chunk each
    Modules,        \* the scoring modules the prompts of the data name
    Timeouts,       \* whether a scorer may exceed the reward manager's timeout
    Raises,         \* whether a scorer may raise an exception
    Configs         \* the settings of self_distillation that are tried

ASSUME SizesAssumption ==
    /\ NumPrompts \in Nat \ {0} /\ RolloutN \in Nat \ {0}
    /\ NumWorkers \in Nat \ {0} /\ (NumPrompts * RolloutN) % NumWorkers = 0

ASSUME ConfigsAssumption ==
    Configs \subseteq [expert : BOOLEAN, feedback : BOOLEAN, onlywithout : BOOLEAN,
                       notself : BOOLEAN, always : BOOLEAN, skipcorrect : BOOLEAN]

\* An answer is named by the prompt it answers and by its row; the data set's
\* own (expert) answer is copy 0.
Answer(p, i) == [prompt |-> p, copy |-> i]
None == Answer(0, 0)
ExpertAnswer(p) == Answer(p, 0)
Threshold == 1          \* success_reward_threshold, in half points

Rows == 1 .. NumPrompts * RolloutN

VARIABLES
    cfg,        \* the self-distillation settings
    pc,         \* where the step is
    answers,    \* the prompts the data set has an answer to
    prompts,    \* the trainer's batch: columns of the prompts
    gen,        \* what the agent loop manager returned
    batch,      \* the merged batch
    reward,     \* reward_tensor and reward_extra_infos_dict
    outcome     \* what each answer was worth: for the properties only

vars == <<cfg, pc, answers, prompts, gen, batch, reward, outcome>>

NoData == [tensors |-> <<>>, objects |-> <<>>]

(***************************************************************************)
(* protocol.py                                                             *)
(***************************************************************************)

Columns(d) == {d.tensors, d.objects}

\* Every column of a part, with the rows named by idx.
Pick(part, idx) ==
    [key \in DOMAIN part |-> [i \in DOMAIN idx |-> part[key][idx[i]]]]

Select(d, idx) == [tensors |-> Pick(d.tensors, idx), objects |-> Pick(d.objects, idx)]

\* A bug: the rows of the tensors are moved, those of the objects are not.
SelectTensors(d, idx) == [tensors |-> Pick(d.tensors, idx), objects |-> d.objects]

Reorder(d, idx) == Select(d, idx)

\* repeat(n, interleave=True): the copies of a row are neighbours.
Repeat(d, n, rows) ==
    Select(d, [i \in 1 .. rows * n |-> ((i - 1) \div n) + 1])

\* The columns of both parts, f's where they share one.
Extend(f, g) ==
    [key \in DOMAIN f \cup DOMAIN g |-> IF key \in DOMAIN f THEN f[key] ELSE g[key]]

\* union: the columns of both (the parts joined here share none).
Union(d, e) ==
    [tensors |-> Extend(d.tensors, e.tensors), objects |-> Extend(d.objects, e.objects)]

(***************************************************************************)
(* The answers and their scores (reward_score/feedback, limited.py)        *)
(***************************************************************************)

\* The keys of a scorer's result; the math scorer alone tells truncation.
ResultKeys(module) ==
    {"score", "acc", "pred", "incorrect_format", "feedback"} \cup
        (IF module = "math" THEN {"truncated"} ELSE {})

\* In half points.  The judge's score is a dummy below every threshold.
ScoresOf(module) ==
    CASE module = "llm" -> {-2} [] module = "zero" -> {0} [] OTHER -> {0, 2}

SaysSomething(module) ==
    CASE module \in {"llm", "math"} -> BOOLEAN [] OTHER -> {FALSE}

\* A scorer that times out, and one that raises, are reported under keys of their own.
FailureKeys ==
    (IF Timeouts THEN {{"timeout", "acc"}} ELSE {}) \cup (IF Raises THEN {{"error", "acc"}} ELSE {})

Outcomes(module) ==
    [keys : {ResultKeys(module)}, score : ScoresOf(module), said : SaysSomething(module)]
    \cup [keys : FailureKeys, score : {0}, said : {FALSE}]

(***************************************************************************)
(* AgentLoopWorker._postprocess and AgentLoopManager.generate_sequences:   *)
(* a worker stacks the keys of its FIRST row, and the chunks are joined    *)
(* only when they have the same columns.                                   *)
(***************************************************************************)

Chunk(w, size) == (w - 1) * size + 1 .. w * size

KeysOfChunk(results, w, size) == results[(w - 1) * size + 1].keys

Stacks(results, size) ==
    \A w \in 1 .. NumWorkers :
        \A i \in Chunk(w, size) : KeysOfChunk(results, w, size) \subseteq results[i].keys

Joins(results, size) ==
    \A w \in 1 .. NumWorkers : KeysOfChunk(results, w, size) = KeysOfChunk(results, 1, size)

\* What a scorer wrote about an answer; blank text is no feedback.
Feedback(resp, result) == [about |-> resp, blank |-> ~result.said]
NoFeedback == [about |-> None, blank |-> TRUE]

Generated(resp, results) ==
    [tensors |-> [responses |-> resp, rm_scores |-> [i \in Rows |-> results[i].score]],
     objects |-> IF "feedback" \in results[1].keys
                    THEN [feedback |-> [i \in Rows |-> Feedback(resp[i], results[i])]]
                    ELSE <<>>]

(***************************************************************************)
(* extract_reward                                                          *)
(***************************************************************************)

ExtractReward(d) ==
    [tensor |-> d.tensors.rm_scores,
     extra  |-> IF "feedback" \in DOMAIN d.objects
                    THEN [feedback |-> d.objects.feedback] ELSE <<>>]

(***************************************************************************)
(* _maybe_build_self_distillation_batch and its helpers                    *)
(***************************************************************************)

\* _collect_feedback
CollectFeedback ==
    [i \in Rows |->
        IF /\ ~cfg.expert /\ cfg.feedback
           /\ "feedback" \in DOMAIN reward.extra
           /\ ~reward.extra.feedback[i].blank
        THEN reward.extra.feedback[i] ELSE NoFeedback]

\* A bug: the successful rows of the batch, whatever they answered.
SolutionsAnywhere(uid) == {i \in Rows : reward.tensor[i] >= Threshold}

\* _collect_solutions_by_uid
SolutionsByUid(uid) ==
    {i \in Rows : batch.objects.uid[i] = uid /\ reward.tensor[i] >= Threshold}

\* _get_solution: the first row, since they are collected in order
GetSolution(i) ==
    LET found  == SolutionsByUid(batch.objects.uid[i])
        others == IF cfg.notself THEN found \ {i} ELSE found
    IN  IF others = {} THEN None ELSE batch.tensors.responses[Min(others)]

\* _get_expert_solution
GetExpertSolution(i) ==
    IF batch.objects.answer[i] THEN ExpertAnswer(batch.objects.raw_prompt[i]) ELSE None

SolutionStrs == [i \in Rows |-> IF cfg.expert THEN GetExpertSolution(i) ELSE GetSolution(i)]

\* Whether the feedback of a row is used, given its solution.
UseFeedback(feedback, solution) ==
    feedback # NoFeedback /\ (~cfg.onlywithout \/ solution = None)

\* build_teacher_message
TeacherMessage(i, solution, feedback) ==
    LET uses == UseFeedback(feedback, solution)
    IN  [prompt     |-> batch.objects.raw_prompt[i],
         solution   |-> solution,
         feedback   |-> IF uses THEN feedback ELSE NoFeedback,
         reprompted |-> solution # None \/ uses \/ cfg.always]

AlreadyCorrect(i) == reward.tensor[i] >= Threshold

\* A bug: always_apply_reprompt rewrites the prompt but is left out here.
MaskWithoutAlways(i, solution, feedback) ==
    /\ solution # None \/ UseFeedback(feedback, solution)
    /\ ~(cfg.expert /\ cfg.skipcorrect /\ AlreadyCorrect(i))

\* self_distillation_mask, computed apart from the messages
DistillationMask(i, solution, feedback) ==
    /\ solution # None \/ UseFeedback(feedback, solution) \/ cfg.always
    /\ ~(cfg.expert /\ cfg.skipcorrect /\ AlreadyCorrect(i))

TeacherBatch ==
    LET solutions == SolutionStrs
        feedbacks == CollectFeedback
    IN  [tensors |->
            [teacher_responses |-> batch.tensors.responses,
             self_distillation_mask |->
                [i \in Rows |-> DistillationMask(i, solutions[i], feedbacks[i])]],
         objects |->
            [teacher_messages |->
                [i \in Rows |-> TeacherMessage(i, solutions[i], feedbacks[i])]]]

(***************************************************************************)
(* compute_grpo_outcome_advantage without the scaling by the deviation,    *)
(* times the size of the group (so that it stays an integer).              *)
(***************************************************************************)

GroupSum(scores, group) == MapThenSumSet(LAMBDA i : scores[i], group)

\* A bug: the groups are RolloutN neighbours.
AdvantageByPosition(i, scores, index) ==
    LET first == ((i - 1) \div RolloutN) * RolloutN + 1
    IN  RolloutN * scores[i] - GroupSum(scores, first .. first + RolloutN - 1)

Advantage(i, scores, index) ==
    LET group == {j \in DOMAIN index : index[j] = index[i]}
    IN  IF Cardinality(group) = 1 THEN scores[i]
        ELSE Cardinality(group) * scores[i] - GroupSum(scores, group)

(***************************************************************************)
(* The step                                                                *)
(***************************************************************************)

Init ==
    /\ cfg \in Configs
    /\ pc = "generate"
    /\ answers \in SUBSET (IF cfg.expert THEN 1 .. NumPrompts ELSE {})
    /\ \E module \in [1 .. NumPrompts -> Modules] :
        prompts = [tensors |-> <<>>,
                   objects |-> [uid        |-> [p \in 1 .. NumPrompts |-> p],
                                raw_prompt |-> [p \in 1 .. NumPrompts |-> p],
                                module     |-> module,
                                answer     |-> [p \in 1 .. NumPrompts |-> p \in answers]]]
    /\ gen = NoData /\ batch = NoData
    /\ reward = <<>> /\ outcome = <<>>

\* Every repeated prompt is answered and scored; a chunk that cannot be
\* stacked, or chunks that cannot be joined, fail the step.
Generate ==
    /\ pc = "generate"
    /\ LET input == Repeat(prompts, RolloutN, NumPrompts)
           resp  == [i \in Rows |-> Answer(input.objects.raw_prompt[i], i)]
           size  == Cardinality(Rows) \div NumWorkers
       IN  \E results \in {f \in [Rows -> UNION {Outcomes(m) : m \in Modules}] :
                            \A i \in Rows : f[i] \in Outcomes(input.objects.module[i])} :
            /\ outcome' = [r \in {resp[i] : i \in Rows} |->
                                results[CHOOSE i \in Rows : resp[i] = r]]
            /\ IF Stacks(results, size) /\ Joins(results, size)
                THEN pc' = "union" /\ gen' = Generated(resp, results)
                ELSE pc' = "failed" /\ gen' = gen
    /\ UNCHANGED <<cfg, answers, prompts, batch, reward>>

\* batch.repeat(n).union(gen_batch_output)
MergeRollouts ==
    /\ pc = "union"
    /\ batch' = Union(Repeat(prompts, RolloutN, NumPrompts), gen)
    /\ pc' = "balance"
    /\ UNCHANGED <<cfg, answers, prompts, gen, reward, outcome>>

\* _balance_batch: some order that evens out the ranks (any, since the
\* lengths are not modelled).
Balance ==
    /\ pc = "balance"
    /\ \E idx \in Bijection(Rows, Rows) : batch' = Reorder(batch, idx)
    /\ pc' = "reward"
    /\ UNCHANGED <<cfg, answers, prompts, gen, reward, outcome>>

\* trainer.balance_batch off
KeepOrder ==
    /\ pc = "balance"
    /\ pc' = "reward"
    /\ UNCHANGED <<cfg, answers, prompts, gen, batch, reward, outcome>>

TakeReward ==
    /\ pc = "reward"
    /\ reward' = ExtractReward(batch)
    /\ pc' = "build"
    /\ UNCHANGED <<cfg, answers, prompts, gen, batch, outcome>>

\* The teacher's rows are merged by position, then the advantages computed.
BuildTeacher ==
    /\ pc = "build"
    /\ LET merged == Union(batch, TeacherBatch)
           advantages == [i \in Rows |-> Advantage(i, reward.tensor, batch.objects.uid)]
       IN  batch' = Union(merged, [tensors |-> [advantages |-> advantages], objects |-> <<>>])
    /\ pc' = "ready"
    /\ UNCHANGED <<cfg, answers, prompts, gen, reward, outcome>>

\* The actor has been updated; the next step starts over.
NextStep ==
    /\ pc = "ready"
    /\ pc' = "generate"
    /\ gen' = NoData /\ batch' = NoData
    /\ reward' = <<>> /\ outcome' = <<>>
    /\ UNCHANGED <<cfg, answers, prompts>>

Next ==
    \/ Generate \/ MergeRollouts \/ Balance \/ KeepOrder
    \/ TakeReward \/ BuildTeacher \/ NextStep

Spec == Init /\ [][Next]_vars

(***************************************************************************)
(* Properties                                                              *)
(***************************************************************************)

Ready == pc = "ready"
Message(i) == batch.objects.teacher_messages[i]
Response(i) == batch.tensors.responses[i]
OwnPrompt(i) == Response(i).prompt
Succeeded(r) == outcome[r].score >= Threshold

\* The columns of a batch the actor is given all have one entry per row, and
\* rows are neither lost nor doubled on the way (repeat, union and reorder of
\* protocol.py).
TypeOK ==
    /\ cfg \in Configs
    /\ pc \in {"generate", "union", "balance", "reward", "build", "ready", "failed"}
    /\ answers \subseteq 1 .. NumPrompts
    /\ Ready =>
        /\ \A part \in Columns(batch) : \A key \in DOMAIN part : DOMAIN part[key] = Rows
        /\ {Response(i) : i \in Rows} = DOMAIN outcome

\* A demonstration in a teacher's prompt answers the very prompt it is put
\* under, and its answer was scored a success (_collect_solutions_by_uid and
\* _get_solution, after the rows were reordered by _balance_batch).
DemonstrationFits ==
    Ready => \A i \in Rows :
        LET s == Message(i).solution
        IN  s # None =>
                /\ s.prompt = Message(i).prompt /\ s.prompt = OwnPrompt(i)
                /\ s # ExpertAnswer(s.prompt) => Succeeded(s)

\* What a teacher's prompt quotes from the scorer was said about the answer
\* the teacher then scores, which is the student's answer in the same row
\* (columns of two unions, joined by position).
FeedbackAboutOwnAnswer ==
    Ready => \A i \in Rows :
        /\ batch.tensors.teacher_responses[i] = Response(i)
        /\ Message(i).feedback # NoFeedback =>
            Message(i).feedback.about = Response(i) /\ outcome[Response(i)].said

\* The mask says which rows' prompts were rewritten: a row outside the loss
\* kept its prompt, unless it was correct and correct rows are skipped; a row
\* in the loss has a rewritten prompt (computed twice, in
\* build_teacher_message and again for self_distillation_mask).
MaskTellsReprompted ==
    Ready => \A i \in Rows :
        LET masked == batch.tensors.self_distillation_mask[i]
        IN  /\ masked => Message(i).reprompted
            /\ Message(i).reprompted /\ ~masked =>
                cfg.expert /\ cfg.skipcorrect /\ Succeeded(Response(i))

\* The order of the rows has no influence on the advantages ("which won't
\* affect the advantage calculation (since it's based on uid)", fit): each
\* answer is compared with the other answers to its own prompt.
AdvantageWithinPrompt ==
    Ready => \A i \in Rows :
        LET group == {r \in DOMAIN outcome : r.prompt = OwnPrompt(i)}
            total == GroupSum([r \in group |-> outcome[r].score], group)
            score == outcome[Response(i)].score
        IN  batch.tensors.advantages[i] =
                IF Cardinality(group) = 1 THEN score ELSE Cardinality(group) * score - total
=============================================================================
