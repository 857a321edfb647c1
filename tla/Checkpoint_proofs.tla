-------------------------- MODULE Checkpoint_proofs --------------------------
(***************************************************************************)
(* The theorems about the checkpoints of the synchronous trainer, for      *)
(* every number of ranks, worker groups, steps and crashes.                *)
(***************************************************************************)
EXTENDS Checkpoint, SequenceTheorems, FiniteSetTheorems, TLAPS

(***************************************************************************)
(* The inductive invariants                                                *)
(***************************************************************************)

Saving == {"capacity", "write", "data", "truncate", "tracker"}

\* Loop, data loader, weights and tracker go step by step.
StepInv ==
  /\ pc # "start" => attempt > 0
  /\ pc \notin {"start", "failed"} => batches = position
  /\ pc = "train" => global_steps = position + 1
  /\ pc \in Saving \cup {"next"} => global_steps = position /\ position > 0
  /\ tracker \in Steps =>
       /\ attempt > 0
       /\ pc \in Saving \cup {"train"} => tracker < global_steps
       /\ pc = "next" => tracker <= global_steps

\* What is in a folder of a step was trained up to that step, by a run so far.
ContentInv ==
  \A g \in Groups, s \in Steps, k \in Ranks :
    \/ shards[g][s][k] = Absent
    \/ shards[g][s][k].run \in 1 .. attempt /\ shards[g][s][k].batches = s

\* The data loader's position is saved before the tracker names the step.
DataInv ==
  /\ tracker \in Steps => data[tracker] = tracker
  /\ pc \in {"truncate", "tracker"} => data[global_steps] = global_steps

\* Whether a manager has saved the present step.
HasSaved(g) ==
  \/ pc \in {"capacity", "write"} /\ \E i \in 1 .. saving - 1 : Managers[i] = g
  \/ pc \in {"data", "truncate", "tracker"}

\* The steps a manager remembers: increasing; the last is the one the tracker names, or
\* the present one, and then the last but one is what the tracker names.
Increasing(l) == \A i, j \in 1 .. Len(l) : i < j => l[i] < l[j]
EndsWith(l, s) == l # <<>> => l[Len(l)] = s
ListInv ==
  \A g \in Groups : LET l == previous_saved_paths[g] IN
    /\ MaxKeep > 0 => Len(l) <= MaxKeep
    /\ Increasing(l)
    /\ ~HasSaved(g) => EndsWith(l, tracker)
    /\ HasSaved(g) => /\ l # <<>> /\ l[Len(l)] = global_steps
                      /\ pc # "tracker" /\ Len(l) > 1 => l[Len(l) - 1] = tracker

\* What a run has written it remembers, and a manager that has saved has written all.
Remembered(g) == {previous_saved_paths[g][i] : i \in 1 .. Len(previous_saved_paths[g])}
Present(g) == IF pc = "write" /\ g = Group THEN {global_steps} ELSE {}
DiskInv ==
  pc # "start" =>
    \A g \in Groups :
      /\ \A s \in Steps, k \in Ranks :
           shards[g][s][k].run = attempt => s \in Remembered(g) \cup Present(g)
      /\ HasSaved(g) => \A k \in Ranks : shards[g][global_steps][k].run = attempt

Inv == TypeOK /\ StepInv /\ ContentInv /\ DataInv /\ ListInv /\ DiskInv

-----------------------------------------------------------------------------
\* Operators.

\* The groups are the entries of Managers.
LEMMA GroupFacts ==
  ASSUME saving \in DOMAIN Managers
  PROVE  /\ DOMAIN Managers = 1 .. Len(Managers) /\ Len(Managers) \in Nat \ {0}
         /\ Group \in Groups /\ Managers[1] \in Groups
         /\ \A g \in Groups : \E i \in 1 .. Len(Managers) : Managers[i] = g
         /\ \A i \in 1 .. saving - 1 : Managers[i] # Group
<1>1. DOMAIN Managers = 1 .. Len(Managers) /\ Len(Managers) \in Nat \ {0}
  BY CheckpointAssumption, EmptySeq, LenProperties
<1>2. Group \in Groups /\ Managers[1] \in Groups
  BY <1>1 DEF Group, Groups
<1>3. \A g \in Groups : \E i \in 1 .. Len(Managers) : Managers[i] = g
  BY <1>1 DEF Groups
<1>4. \A i \in 1 .. saving - 1 : Managers[i] # Group
  <2> SUFFICES ASSUME NEW i \in 1 .. saving - 1, Managers[i] = Managers[saving] PROVE FALSE
    BY DEF Group
  <2>1. i \in DOMAIN Managers /\ i # saving
    BY <1>1
  <2> QED
    BY <2>1, CheckpointAssumption
<1> QED
  BY <1>1, <1>2, <1>3, <1>4

\* The end of a list of steps.
LEMMA EndOf ==
  ASSUME NEW l \in Seq(Steps), NEW n \in Nat, n <= Len(l)
  PROVE  /\ SubSeq(l, n + 1, Len(l)) \in Seq(Steps)
         /\ Len(SubSeq(l, n + 1, Len(l))) = Len(l) - n
         /\ \A i \in 1 .. Len(l) - n : SubSeq(l, n + 1, Len(l))[i] = l[n + i]
<1> DEFINE m == Len(l)
           t == SubSeq(l, n + 1, m)
<1>1. m \in Nat /\ n <= m /\ \A i \in 1 .. m : l[i] \in Steps
  BY LenProperties, ElementOfSeq
<1>2. t \in Seq(Steps) /\ Len(t) = IF n + 1 <= m THEN m - (n + 1) + 1 ELSE 0
  BY <1>1
<1>3. m - n \in Nat /\ Len(t) = m - n
  <2> HIDE DEF m, t
  <2> QED
    BY <1>1, <1>2
<1>4. \A i \in 1 .. m - n : t[i] = l[n + i]
  BY <1>1
<1> QED
  BY <1>2, <1>3, <1>4

\* remove_previous_save_local_path, file by file.
LEMMA Removed ==
  ASSUME TypeOK, NEW n \in Nat, RemoveOldest(n)
  PROVE  /\ \A g \in Groups, s \in Steps, k \in Ranks :
              shards'[g][s][k] = IF g = Group /\ \E i \in 1 .. n : Saved[i] = s
                                 THEN Absent ELSE shards[g][s][k]
         /\ shards' \in [Groups -> [Steps -> [Ranks -> [run : Nat, batches : 0 .. NumBatches]]]]
<1>1. shards \in [Groups -> [Steps -> [Ranks -> [run : Nat, batches : 0 .. NumBatches]]]]
  BY DEF TypeOK
<1>2. Absent \in [run : Nat, batches : 0 .. NumBatches]
  BY CheckpointAssumption DEF Absent
<1> DEFINE Gone(s) == \E i \in 1 .. n : Saved[i] = s
           new == [s \in Steps |-> IF Gone(s) THEN [k \in Ranks |-> Absent] ELSE shards[Group][s]]
<1>3. Group \in Groups
  BY GroupFacts DEF TypeOK
<1>4. shards' = [shards EXCEPT ![Group] = new]
  BY <1>1, <1>3 DEF RemoveOldest
<1> HIDE DEF Gone
<1>5. new \in [Steps -> [Ranks -> [run : Nat, batches : 0 .. NumBatches]]]
  BY <1>1, <1>2, <1>3
<1>6. \A s \in Steps, k \in Ranks : new[s][k] = IF Gone(s) THEN Absent ELSE shards[Group][s][k]
  OBVIOUS
<1> HIDE DEF new
<1>7. shards' \in [Groups -> [Steps -> [Ranks -> [run : Nat, batches : 0 .. NumBatches]]]]
  BY <1>1, <1>4, <1>5
<1>8. \A g \in Groups, s \in Steps, k \in Ranks :
        shards'[g][s][k] = IF g = Group /\ Gone(s) THEN Absent ELSE shards[g][s][k]
  BY <1>1, <1>3, <1>4, <1>6
<1> QED
  BY <1>7, <1>8 DEF Gone

Entries(l) == {l[i] : i \in 1 .. Len(l)}

\* t is l without its first n entries.
IsSuffix(t, l, n) ==
  /\ t \in Seq(Steps) /\ Len(t) = Len(l) - n
  /\ Increasing(l) => Increasing(t)
  /\ t # <<>> => t[Len(t)] = l[Len(l)]
  /\ Len(t) > 1 => t[Len(t) - 1] = l[Len(l) - 1]
  /\ \A s \in Entries(l) : s \in Entries(t) \/ \E i \in 1 .. n : l[i] = s

\* What is left of a list of steps.
LEMMA SuffixKept ==
  ASSUME NEW l \in Seq(Steps), NEW n \in Nat, n <= Len(l)
  PROVE  IsSuffix(SubSeq(l, n + 1, Len(l)), l, n)
<1> DEFINE t == SubSeq(l, n + 1, Len(l))
<1> DEFINE m == Len(l)
           k == Len(t)
<1>1. t \in Seq(Steps) /\ k = m - n /\ \A i \in 1 .. m - n : t[i] = l[n + i]
  BY EndOf
<1>2. m \in Nat /\ k \in Nat /\ n <= m
  BY <1>1, LenProperties
<1>3. t # <<>> => k > 0
  BY <1>1, EmptySeq
<1> HIDE DEF m, k
<1>4. Increasing(l) => Increasing(t)
  <2> SUFFICES ASSUME \A i, j \in 1 .. m : i < j => l[i] < l[j], NEW i \in 1 .. k, NEW j \in 1 .. k,
                      i < j
               PROVE  t[i] < t[j]
    BY DEF Increasing, m, k
  <2>1. t[i] = l[n + i] /\ t[j] = l[n + j]
    BY <1>1, <1>2
  <2>2. n + i \in 1 .. m /\ n + j \in 1 .. m /\ n + i < n + j
    BY <1>1, <1>2
  <2> QED
    BY <2>1, <2>2
<1>5. t # <<>> => t[k] = l[m]
  <2> SUFFICES ASSUME t # <<>> PROVE t[k] = l[m]
    OBVIOUS
  <2>1. k \in 1 .. m - n /\ n + k = m
    BY <1>1, <1>2, <1>3
  <2> QED
    BY <1>1, <2>1
<1>6. k > 1 => t[k - 1] = l[m - 1]
  <2> SUFFICES ASSUME k > 1 PROVE t[k - 1] = l[m - 1]
    OBVIOUS
  <2>1. k - 1 \in 1 .. m - n /\ n + (k - 1) = m - 1
    BY <1>1, <1>2
  <2>2. t[k - 1] = l[n + (k - 1)]
    BY <1>1, <2>1
  <2> QED
    BY <2>1, <2>2
<1>7. \A s \in Entries(l) : s \in Entries(t) \/ \E i \in 1 .. n : l[i] = s
  <2> SUFFICES ASSUME NEW i \in 1 .. m, ~(i \in 1 .. n) PROVE \E j \in 1 .. k : t[j] = l[i]
    BY DEF Entries, m, k
  <2>1. i - n \in 1 .. k /\ n + (i - n) = i
    BY <1>1, <1>2
  <2> QED
    BY <1>1, <2>1
<1> QED
  BY <1>1, <1>4, <1>5, <1>6, <1>7 DEF m, k, IsSuffix

\* One more step remembered.
LEMMA StepAdded ==
  ASSUME NEW l \in Seq(Steps), NEW s \in Steps, Increasing(l), l # <<>> => l[Len(l)] < s
  PROVE  /\ Append(l, s) \in Seq(Steps) /\ Len(Append(l, s)) = Len(l) + 1
         /\ Increasing(Append(l, s)) /\ Append(l, s)[Len(l) + 1] = s
         /\ \A i \in 1 .. Len(l) : Append(l, s)[i] = l[i] /\ l[i] < s
<1> DEFINE m == Len(l)
           t == Append(l, s)
<1>1. /\ t \in Seq(Steps) /\ Len(t) = m + 1 /\ m \in Nat /\ t[m + 1] = s
      /\ \A i \in 1 .. m : t[i] = l[i]
  BY AppendProperties, LenProperties
<1>2. \A i \in 1 .. m : l[i] \in Nat /\ s \in Nat
  BY ElementOfSeq, CheckpointAssumption DEF Steps
<1> HIDE DEF m, t
<1>3. \A i \in 1 .. m : l[i] < s
  <2> SUFFICES ASSUME NEW i \in 1 .. m PROVE l[i] < s
    OBVIOUS
  <2>1. m \in 1 .. m /\ l # <<>>
    <3>1. m # 0
      BY <1>1
    <3>2. Len(<<>>) = 0
      BY EmptySeq
    <3> QED
      BY <1>1, <3>1, <3>2 DEF m
  <2>2. l[m] < s
    BY <2>1 DEF m
  <2>3. i = m \/ l[i] < l[m]
    BY <1>1, <2>1 DEF Increasing, m
  <2> QED
    BY <1>2, <2>1, <2>2, <2>3
<1>4. Increasing(t)
  <2> SUFFICES ASSUME NEW i \in 1 .. m + 1, NEW j \in 1 .. m + 1, i < j PROVE t[i] < t[j]
    BY <1>1 DEF Increasing
  <2>1. i \in 1 .. m /\ t[i] = l[i]
    BY <1>1
  <2>2. CASE j = m + 1
    BY <1>1, <1>3, <2>1, <2>2
  <2>3. CASE j \in 1 .. m
    BY <1>1, <2>1, <2>3 DEF Increasing, m
  <2> QED
    BY <1>1, <2>2, <2>3
<1> QED
  BY <1>1, <1>3, <1>4 DEF m, t

-----------------------------------------------------------------------------
\* Steps.

\* A manager that remembers nothing.
LEMMA NothingRemembered ==
  /\ \A s : EndsWith(<<>>, s)
  /\ Increasing(<<>>) /\ Len(<<>>) = 0 /\ <<>> \in Seq(Steps)
<1>1. Len(<<>>) = 0 /\ <<>> \in Seq(Steps)
  BY EmptySeq
<1> QED
  BY <1>1 DEF EndsWith, Increasing

\* The program is started, from scratch or from the checkpoint that the tracker names.
LEMMA BeginsKept == ASSUME Inv, FromScratch \/ Resume \/ ResumeFails PROVE Inv'
<1>1. /\ pc = "start" /\ attempt' = attempt + 1 /\ attempt \in Nat
      /\ previous_saved_paths' = [m \in Groups |-> <<>>]
      /\ UNCHANGED <<saving, shards, data, tracker>>
  BY DEF FromScratch, Resume, ResumeFails, Begins, diskVars, Inv, TypeOK
<1>2. \/ pc' = "failed" /\ UNCHANGED <<global_steps, batches, position>>
      \/ /\ pc' = "train" /\ global_steps' = position' + 1 /\ batches' = position'
         /\ position' \in 0 .. NumBatches
         /\ tracker \in Steps => tracker < global_steps'
  <2>1. CASE FromScratch
    BY <2>1, CheckpointAssumption DEF FromScratch, NoTracker, Steps
  <2>2. CASE Resume
    <3>1. tracker \in Steps /\ Complete(tracker) /\ data[tracker] = tracker /\ tracker # NoData
      BY <2>2, CheckpointAssumption DEF Resume, Inv, DataInv, Steps, NoData
    <3>2. WeightsOf(tracker) = tracker
      <4>1. (CHOOSE k \in Ranks : TRUE) \in Ranks
        BY CheckpointAssumption
      <4>2. Managers[1] \in Groups
        BY GroupFacts DEF Inv, TypeOK
      <4>3. shards[Managers[1]][tracker][CHOOSE k \in Ranks : TRUE] # Absent
        BY <3>1, <4>1, <4>2 DEF Complete
      <4> QED
        BY <3>1, <4>1, <4>2, <4>3 DEF Inv, ContentInv, WeightsOf
    <3>3. /\ pc' = "train" /\ global_steps' = tracker + 1 /\ batches' = tracker
          /\ position' = tracker
      BY <2>2, <3>1, <3>2 DEF Resume
    <3> QED
      BY <3>1, <3>3, CheckpointAssumption DEF Steps
  <2>3. CASE ResumeFails
    BY <2>3 DEF ResumeFails
  <2> QED
    BY <2>1, <2>2, <2>3
<1>3. \A g \in Groups : previous_saved_paths'[g] = <<>> /\ ~HasSaved(g)'
  BY <1>1, <1>2 DEF HasSaved
<1>4. TypeOK'
  <2>1. previous_saved_paths' \in [Groups -> Seq(Steps)]
    BY <1>1, NothingRemembered
  <2>2. /\ pc' \in Pc /\ global_steps' \in Nat /\ batches' \in 0 .. NumBatches
        /\ position' \in 0 .. NumBatches
    BY <1>2 DEF Inv, TypeOK, Pc
  <2> QED
    BY <1>1, <2>1, <2>2 DEF Inv, TypeOK
<1>5. StepInv'
  BY <1>1, <1>2 DEF StepInv, Saving
<1>6. ContentInv'
  BY <1>1 DEF Inv, ContentInv
<1>7. DataInv'
  BY <1>1, <1>2 DEF Inv, DataInv
<1>8. ListInv'
  BY <1>3, CheckpointAssumption, NothingRemembered DEF ListInv
<1>9. DiskInv'
  <2>1. \A g \in Groups, s \in Steps, k \in Ranks : shards[g][s][k].run # attempt'
    BY <1>1 DEF Inv, ContentInv, Absent
  <2> QED
    BY <1>1, <1>3, <2>1 DEF DiskInv
<1> QED
  BY <1>4, <1>5, <1>6, <1>7, <1>8, <1>9 DEF Inv

\* The loop of fit.
LEMMA LoopKept == ASSUME Inv, TrainStep \/ OutOfData \/ NextStep PROVE Inv'
<1>1. /\ pc \in {"train", "next"} /\ pc' \in {"train", "capacity", "next", "done"}
      /\ UNCHANGED <<attempt, previous_saved_paths, shards, data, tracker>>
  BY DEF TrainStep, OutOfData, NextStep, diskVars
<1>2. saving' \in DOMAIN Managers /\ (pc' = "capacity" => saving' = 1)
  <2>1. 1 \in DOMAIN Managers
    BY GroupFacts DEF Inv, TypeOK
  <2> QED
    BY <2>1 DEF TrainStep, OutOfData, NextStep, Inv, TypeOK
<1>3. \A g \in Groups : ~HasSaved(g) /\ ~HasSaved(g)' /\ Present(g) = {} /\ Present(g)' = {}
  BY <1>1, <1>2 DEF HasSaved, Present
<1>4. TypeOK'
  BY <1>1, <1>2, CheckpointAssumption DEF TrainStep, OutOfData, NextStep, Inv, TypeOK, Pc, StepInv
<1>5. StepInv'
  BY <1>1, CheckpointAssumption DEF TrainStep, OutOfData, NextStep, Inv, TypeOK, StepInv, Saving, Steps
<1>6. ContentInv' /\ DataInv'
  BY <1>1 DEF Inv, ContentInv, DataInv
<1>7. ListInv'
  BY <1>1, <1>3 DEF Inv, ListInv
<1>8. DiskInv'
  BY <1>1, <1>3 DEF Inv, DiskInv, Remembered
<1> QED
  BY <1>4, <1>5, <1>6, <1>7, <1>8 DEF Inv

\* Folders removed: what is left is as before.
LEMMA ContentLeft ==
  ASSUME Inv, pc # "start", NEW n \in Nat, RemoveOldest(n), attempt' = attempt
  PROVE  /\ ContentInv' /\ attempt # 0
         /\ \A g \in Groups, s \in Steps, k \in Ranks :
              shards'[g][s][k].run = attempt =>
                /\ shards[g][s][k].run = attempt
                /\ g = Group => ~ \E i \in 1 .. n : Saved[i] = s
<1>1. attempt # 0
  BY DEF Inv, StepInv
<1> DEFINE Gone(g, s) == g = Group /\ \E i \in 1 .. n : Saved[i] = s
<1>2. \A g \in Groups, s \in Steps, k \in Ranks :
        shards'[g][s][k] = IF Gone(g, s) THEN Absent ELSE shards[g][s][k]
  BY Removed DEF Inv
<1> HIDE DEF Gone
<1>3. ContentInv'
  BY <1>2 DEF Inv, ContentInv
<1>4. \A g \in Groups, s \in Steps, k \in Ranks :
        shards'[g][s][k].run = attempt => shards[g][s][k].run = attempt /\ ~Gone(g, s)
  BY <1>1, <1>2 DEF Absent
<1> QED
  BY <1>1, <1>3, <1>4 DEF Gone

\* ensure_checkpoint_capacity
LEMMA CapacityKept == ASSUME Inv, EnsureCapacity PROVE Inv'
<1> DEFINE n == SpareCapacity
           g0 == Group
           l == Saved
           t == SubSeq(l, n + 1, Len(l))
<1>1. /\ pc = "capacity" /\ pc' = "write" /\ RemoveOldest(n)
      /\ previous_saved_paths' = [previous_saved_paths EXCEPT ![g0] = t]
      /\ UNCHANGED <<saving, global_steps, batches, position, attempt, data, tracker>>
  BY DEF EnsureCapacity, Saved
<1>2. saving \in DOMAIN Managers /\ previous_saved_paths \in [Groups -> Seq(Steps)]
  BY DEF Inv, TypeOK
<1>3. g0 \in Groups /\ l \in Seq(Steps) /\ l = previous_saved_paths[g0]
  BY <1>2, GroupFacts DEF Saved
<1>4. n \in Nat /\ n <= Len(l)
  <2>1. Len(l) \in Nat
    BY <1>3, LenProperties
  <2> QED
    BY <2>1, CheckpointAssumption DEF SpareCapacity
<1> HIDE DEF n, l, t
<1>5. /\ t \in Seq(Steps) /\ Len(t) = Len(l) - n /\ (Increasing(l) => Increasing(t))
      /\ t # <<>> => t[Len(t)] = l[Len(l)]
      /\ \A s \in Entries(l) : s \in Entries(t) \/ \E i \in 1 .. n : l[i] = s
  <2>1. IsSuffix(t, l, n)
    BY <1>3, <1>4, SuffixKept DEF t
  <2> QED
    BY <2>1 DEF IsSuffix
<1>6. /\ previous_saved_paths'[g0] = t
      /\ \A g \in Groups : g # g0 => previous_saved_paths'[g] = previous_saved_paths[g]
      /\ previous_saved_paths' \in [Groups -> Seq(Steps)]
  BY <1>1, <1>2, <1>3, <1>5
<1>7. /\ \A g \in Groups : HasSaved(g)' <=> HasSaved(g)
      /\ ~HasSaved(g0)
  BY <1>1, <1>2, GroupFacts DEF HasSaved
<1>8. TypeOK'
  <2>1. shards' \in [Groups -> [Steps -> [Ranks -> [run : Nat, batches : 0 .. NumBatches]]]]
    BY <1>1, <1>4, Removed DEF Inv
  <2> QED
    BY <1>1, <1>6, <2>1 DEF Inv, TypeOK, Pc
<1>9. StepInv'
  BY <1>1 DEF Inv, StepInv, Saving
<1>10. DataInv'
  BY <1>1 DEF Inv, DataInv
<1>11. /\ ContentInv'
       /\ \A g \in Groups, s \in Steps, k \in Ranks :
            shards'[g][s][k].run = attempt =>
              /\ shards[g][s][k].run = attempt
              /\ g = g0 => ~ \E i \in 1 .. n : l[i] = s
  BY <1>1, <1>4, ContentLeft DEF l
<1>12. ListInv'
  <2> SUFFICES ASSUME NEW g \in Groups
               PROVE  LET x == previous_saved_paths'[g] IN
                        /\ MaxKeep > 0 => Len(x) <= MaxKeep
                        /\ Increasing(x)
                        /\ ~HasSaved(g) => EndsWith(x, tracker)
                        /\ HasSaved(g) => /\ x # <<>> /\ x[Len(x)] = global_steps
                                          /\ Len(x) > 1 => x[Len(x) - 1] = tracker
    BY <1>1, <1>7 DEF ListInv
  <2>1. CASE g # g0
    BY <1>1, <1>6, <2>1 DEF Inv, ListInv
  <2>2. CASE g = g0
    <3>1. /\ MaxKeep > 0 => Len(l) <= MaxKeep
          /\ Increasing(l) /\ EndsWith(l, tracker)
      BY <1>3, <1>7 DEF Inv, ListInv
    <3>2. MaxKeep > 0 => Len(t) <= MaxKeep
      <4>1. Len(l) \in Nat /\ MaxKeep \in Nat
        BY <1>3, LenProperties, CheckpointAssumption
      <4> QED
        BY <1>4, <1>5, <3>1, <4>1
    <3>3. EndsWith(t, tracker)
      <4>1. l = <<>> => t = <<>>
        <5>1. l = <<>> => Len(t) = 0
          BY <1>4, <1>5, EmptySeq
        <5> QED
          BY <1>5, <5>1, EmptySeq
      <4> QED
        BY <1>5, <3>1, <4>1 DEF EndsWith
    <3> QED
      BY <1>5, <1>6, <1>7, <2>2, <3>1, <3>2, <3>3
  <2> QED
    BY <2>1, <2>2
<1>13. DiskInv'
  <2> SUFFICES ASSUME NEW g \in Groups
               PROVE  /\ \A s \in Steps, k \in Ranks :
                           shards'[g][s][k].run = attempt
                             => s \in Entries(previous_saved_paths'[g])
                      /\ HasSaved(g) => \A k \in Ranks : shards'[g][global_steps][k].run = attempt
    BY <1>1, <1>7 DEF DiskInv, Remembered, Entries
  <2>1. /\ \A s \in Steps, k \in Ranks :
             shards[g][s][k].run = attempt => s \in Entries(previous_saved_paths[g])
        /\ HasSaved(g) => \A k \in Ranks : shards[g][global_steps][k].run = attempt
    BY <1>1 DEF Inv, DiskInv, Remembered, Present, Entries
  <2>2. \A s \in Steps, k \in Ranks :
          shards'[g][s][k].run = attempt => s \in Entries(previous_saved_paths'[g])
    BY <1>3, <1>5, <1>6, <1>11, <2>1
  <2>3. HasSaved(g) => \A k \in Ranks : shards'[g][global_steps][k].run = attempt
    <3>1. HasSaved(g) => g # g0
      BY <1>7
    <3>2. global_steps \in Steps
      BY <1>1 DEF Inv, StepInv, Saving, TypeOK, Steps
    <3>3. g # g0 => \A k \in Ranks : shards'[g][global_steps][k] = shards[g][global_steps][k]
      BY <1>1, <1>4, <3>2, Removed DEF Inv
    <3> QED
      BY <2>1, <3>1, <3>3
  <2> QED
    BY <2>2, <2>3
<1> QED
  BY <1>8, <1>9, <1>10, <1>11, <1>12, <1>13 DEF Inv

\* A rank writes its files.
LEMMA WriteKept == ASSUME Inv, NEW r \in Ranks, WriteShard(r) PROVE Inv'
<1> DEFINE new == [run |-> attempt, batches |-> batches]
<1>1. /\ pc = "write" /\ shards' = [shards EXCEPT ![Group][global_steps][r] = new]
      /\ UNCHANGED <<runVars, data, tracker>>
  BY DEF WriteShard
<1>2. /\ global_steps \in Steps /\ Group \in Groups /\ attempt \in Nat /\ attempt > 0
      /\ batches = global_steps /\ batches \in 0 .. NumBatches
      /\ shards \in [Groups -> [Steps -> [Ranks -> [run : Nat, batches : 0 .. NumBatches]]]]
  BY <1>1, GroupFacts DEF Inv, StepInv, Saving, TypeOK, Steps
<1>3. /\ shards' \in [Groups -> [Steps -> [Ranks -> [run : Nat, batches : 0 .. NumBatches]]]]
      /\ \A g \in Groups, s \in Steps, k \in Ranks :
           shards'[g][s][k] = IF g = Group /\ s = global_steps /\ k = r THEN new
                              ELSE shards[g][s][k]
  BY <1>1, <1>2
<1>4. /\ UNCHANGED <<pc, saving, global_steps, batches, position, attempt, previous_saved_paths,
                     data, tracker>>
  BY <1>1 DEF runVars
<1>5. TypeOK' /\ StepInv' /\ DataInv' /\ ListInv'
  BY <1>3, <1>4 DEF Inv, TypeOK, StepInv, DataInv, ListInv, HasSaved
<1>6. ContentInv'
  <2>1. new.run \in 1 .. attempt /\ new.batches = global_steps
    BY <1>2
  <2> HIDE DEF new
  <2> SUFFICES ASSUME NEW g \in Groups, NEW s \in Steps, NEW k \in Ranks
               PROVE  \/ shards'[g][s][k] = Absent
                      \/ shards'[g][s][k].run \in 1 .. attempt /\ shards'[g][s][k].batches = s
    BY <1>4 DEF ContentInv
  <2>2. CASE g = Group /\ s = global_steps /\ k = r
    BY <1>3, <2>1, <2>2
  <2>3. CASE ~(g = Group /\ s = global_steps /\ k = r)
    <3>1. shards'[g][s][k] = shards[g][s][k]
      BY <1>3, <2>3
    <3> QED
      BY <3>1 DEF Inv, ContentInv
  <2> QED
    BY <2>2, <2>3
<1>7. DiskInv'
  <2>1. \A g \in Groups : ~(HasSaved(g) /\ g = Group)
    BY <1>1, GroupFacts DEF Inv, TypeOK, HasSaved
  <2>2. \A g \in Groups : /\ (HasSaved(g)' <=> HasSaved(g)) /\ Present(g)' = Present(g)
                          /\ Remembered(g)' = Remembered(g)
    BY <1>4 DEF HasSaved, Present, Remembered, Group
  <2>3. Present(Group) = {global_steps}
    BY <1>1 DEF Present
  <2> SUFFICES ASSUME NEW g \in Groups
               PROVE  /\ \A s \in Steps, k \in Ranks :
                           shards'[g][s][k].run = attempt => s \in Remembered(g) \cup Present(g)
                      /\ HasSaved(g) => \A k \in Ranks : shards'[g][global_steps][k].run = attempt
    BY <1>4, <2>2 DEF DiskInv
  <2>4. /\ \A s \in Steps, k \in Ranks :
             shards[g][s][k].run = attempt => s \in Remembered(g) \cup Present(g)
        /\ HasSaved(g) => \A k \in Ranks : shards[g][global_steps][k].run = attempt
    BY <1>1 DEF Inv, DiskInv
  <2> QED
    BY <1>2, <1>3, <2>1, <2>3, <2>4
<1> QED
  BY <1>5, <1>6, <1>7 DEF Inv

\* register_checkpoint
LEMMA RegisterKept == ASSUME Inv, RegisterCheckpoint PROVE Inv'
<1> DEFINE g0 == Group
           l == Saved
           n == IF MaxKeep > 0 /\ Len(l) + 1 > MaxKeep THEN Len(l) + 1 - MaxKeep ELSE 0
           a == Append(l, global_steps)
           t == SubSeq(a, n + 1, Len(l) + 1)
<1>1. /\ pc = "write" /\ RemoveOldest(n)
      /\ \A k \in Ranks : shards[g0][global_steps][k].run = attempt
      /\ previous_saved_paths' = [previous_saved_paths EXCEPT ![g0] = t]
      /\ IF saving < Len(Managers) THEN pc' = "capacity" /\ saving' = saving + 1
                                   ELSE pc' = "data" /\ saving' = saving
      /\ UNCHANGED <<global_steps, batches, position, attempt, data, tracker>>
  BY DEF RegisterCheckpoint, Saved
<1>2. /\ saving \in DOMAIN Managers /\ previous_saved_paths \in [Groups -> Seq(Steps)]
      /\ global_steps \in Steps
  BY <1>1 DEF Inv, TypeOK, StepInv, Saving, Steps
<1>3. g0 \in Groups /\ l \in Seq(Steps) /\ l = previous_saved_paths[g0] /\ Len(l) \in Nat
  BY <1>2, GroupFacts, LenProperties DEF Saved
<1>4. n \in Nat /\ n <= Len(l) /\ (MaxKeep > 0 => Len(l) + 1 - n <= MaxKeep)
  <2> DEFINE m == Len(l)
  <2>1. m \in Nat /\ MaxKeep \in Nat
    BY <1>3, CheckpointAssumption
  <2>2. n = IF MaxKeep > 0 /\ m + 1 > MaxKeep THEN m + 1 - MaxKeep ELSE 0
    OBVIOUS
  <2> HIDE DEF m, n
  <2>3. n \in Nat /\ n <= m /\ (MaxKeep > 0 => m + 1 - n <= MaxKeep)
    BY <2>1, <2>2
  <2> QED
    BY <2>3 DEF m
<1> HIDE DEF n, l
<1>5. HasSaved(g0) = FALSE
  BY <1>1, <1>2, GroupFacts DEF HasSaved
<1>6. Increasing(l) /\ (l # <<>> => l[Len(l)] = tracker /\ tracker \in Steps /\ tracker < global_steps)
  <2>1. Increasing(l) /\ EndsWith(l, tracker)
    BY <1>3, <1>5 DEF Inv, ListInv
  <2>2. l # <<>> => Len(l) \in 1 .. Len(l)
    BY <1>3, EmptySeq
  <2>3. l # <<>> => l[Len(l)] \in Steps
    BY <1>3, <2>2, ElementOfSeq
  <2> QED
    BY <1>1, <2>1, <2>3 DEF EndsWith, Inv, StepInv, Saving
<1>7. /\ a \in Seq(Steps) /\ Len(a) = Len(l) + 1
      /\ Increasing(a) /\ a[Len(l) + 1] = global_steps
      /\ \A i \in 1 .. Len(l) : a[i] = l[i] /\ l[i] < global_steps
  BY <1>2, <1>3, <1>6, StepAdded
<1>8. IsSuffix(t, a, n)
  <2>1. n <= Len(a)
    BY <1>3, <1>4, <1>7
  <2>2. IsSuffix(SubSeq(a, n + 1, Len(a)), a, n)
    BY <1>4, <1>7, <2>1, SuffixKept
  <2> QED
    BY <1>7, <2>2
<1> HIDE DEF a, t
<1>9. /\ t \in Seq(Steps) /\ t # <<>> /\ (MaxKeep > 0 => Len(t) <= MaxKeep)
      /\ Increasing(t) /\ t[Len(t)] = global_steps
      /\ Len(t) > 1 => t[Len(t) - 1] = tracker
  <2> DEFINE m == Len(l)
             q == Len(t)
  <2>1. t \in Seq(Steps) /\ q = m + 1 - n /\ Increasing(t)
    <3>1. t \in Seq(Steps) /\ q = Len(a) - n /\ Increasing(t)
      BY <1>7, <1>8 DEF IsSuffix
    <3>2. Len(a) = m + 1 /\ m \in Nat /\ n \in Nat
      BY <1>3, <1>4, <1>7
    <3> HIDE DEF m, q
    <3> QED
      BY <3>1, <3>2
  <2>2. q > 0 /\ (q > 1 => m > 0) /\ (MaxKeep > 0 => q <= MaxKeep)
    <3>1. m \in Nat /\ n \in Nat /\ n <= m /\ (MaxKeep > 0 => m + 1 - n <= MaxKeep)
      BY <1>3, <1>4
    <3> HIDE DEF m, q
    <3> QED
      BY <2>1, <3>1
  <2>3. t # <<>>
    BY <2>2, EmptySeq
  <2>4. t[q] = global_steps
    BY <1>7, <1>8, <2>3 DEF IsSuffix
  <2>5. q > 1 => t[q - 1] = tracker
    <3> SUFFICES ASSUME q > 1 PROVE t[q - 1] = tracker
      OBVIOUS
    <3>1. t[q - 1] = a[Len(a) - 1]
      BY <1>8 DEF IsSuffix
    <3>2. Len(a) - 1 = m /\ m \in 1 .. m
      BY <1>3, <1>7, <2>2
    <3>3. l # <<>>
      BY <2>2, EmptySeq
    <3> QED
      BY <1>6, <1>7, <3>1, <3>2, <3>3
  <2> QED
    BY <2>1, <2>2, <2>3, <2>4, <2>5
<1>10. /\ previous_saved_paths'[g0] = t
       /\ \A g \in Groups : g # g0 => previous_saved_paths'[g] = previous_saved_paths[g]
       /\ previous_saved_paths' \in [Groups -> Seq(Steps)]
  BY <1>1, <1>2, <1>3, <1>9
<1>11. /\ saving' \in DOMAIN Managers /\ pc' \in {"capacity", "data"}
       /\ \A g \in Groups : HasSaved(g)' <=> (HasSaved(g) \/ g = g0)
  <2>1. /\ DOMAIN Managers = 1 .. Len(Managers) /\ Len(Managers) \in Nat
        /\ \A g \in Groups : \E i \in 1 .. Len(Managers) : Managers[i] = g
        /\ Managers[saving] = g0 /\ saving \in 1 .. Len(Managers)
    BY <1>2, GroupFacts DEF Group
  <2>2. \A g \in Groups : HasSaved(g) <=> \E i \in 1 .. saving - 1 : Managers[i] = g
    BY <1>1 DEF HasSaved
  <2>3. CASE saving < Len(Managers)
    <3>1. pc' = "capacity" /\ saving' = saving + 1 /\ saving' - 1 = saving
      BY <1>1, <2>1, <2>3
    <3>2. \A g \in Groups : HasSaved(g)' <=> \E i \in 1 .. saving : Managers[i] = g
      BY <3>1 DEF HasSaved
    <3>3. \A g \in Groups : (\E i \in 1 .. saving : Managers[i] = g)
                              <=> ((\E i \in 1 .. saving - 1 : Managers[i] = g) \/ g = g0)
      BY <2>1
    <3> QED
      BY <2>1, <2>2, <2>3, <3>1, <3>2, <3>3
  <2>4. CASE ~(saving < Len(Managers))
    <3>1. pc' = "data" /\ saving' = saving /\ saving = Len(Managers)
      <4>1. pc' = "data" /\ saving' = saving
        BY <1>1, <2>4
      <4>2. saving = Len(Managers)
        <5> DEFINE z == Len(Managers)
        <5>1. z \in Nat /\ saving \in 1 .. z /\ ~(saving < z)
          BY <2>1, <2>4
        <5> HIDE DEF z
        <5>2. saving = z
          BY <5>1
        <5> QED
          BY <5>2 DEF z
      <4> QED
        BY <4>1, <4>2
    <3>2. \A g \in Groups : HasSaved(g)'
      BY <3>1 DEF HasSaved
    <3>3. \A g \in Groups : (\E i \in 1 .. saving - 1 : Managers[i] = g) \/ g = g0
      BY <2>1, <3>1
    <3> QED
      BY <1>2, <2>2, <3>1, <3>2, <3>3
  <2> QED
    BY <2>3, <2>4
<1>12. TypeOK'
  <2>1. shards' \in [Groups -> [Steps -> [Ranks -> [run : Nat, batches : 0 .. NumBatches]]]]
    BY <1>1, <1>4, Removed DEF Inv
  <2> QED
    BY <1>1, <1>10, <1>11, <2>1 DEF Inv, TypeOK, Pc
<1>13. StepInv'
  BY <1>1, <1>11 DEF Inv, StepInv, Saving
<1>14. DataInv'
  BY <1>1, <1>11 DEF Inv, DataInv
<1>15. /\ ContentInv'
       /\ \A g \in Groups, s \in Steps, k \in Ranks :
            shards'[g][s][k].run = attempt =>
              /\ shards[g][s][k].run = attempt
              /\ g = g0 => ~ \E i \in 1 .. n : l[i] = s
  BY <1>1, <1>4, ContentLeft DEF l
<1>16. ListInv'
  <2> SUFFICES ASSUME NEW g \in Groups
               PROVE  LET x == previous_saved_paths'[g] IN
                        /\ MaxKeep > 0 => Len(x) <= MaxKeep
                        /\ Increasing(x)
                        /\ ~(HasSaved(g) \/ g = g0) => EndsWith(x, tracker)
                        /\ HasSaved(g) \/ g = g0 =>
                             /\ x # <<>> /\ x[Len(x)] = global_steps
                             /\ Len(x) > 1 => x[Len(x) - 1] = tracker
    BY <1>1, <1>11 DEF ListInv
  <2>1. CASE g # g0
    BY <1>1, <1>10, <2>1 DEF Inv, ListInv
  <2>2. CASE g = g0
    BY <1>9, <1>10, <2>2
  <2> QED
    BY <2>1, <2>2
<1>17. DiskInv'
  <2> SUFFICES ASSUME NEW g \in Groups
               PROVE  /\ \A s \in Steps, k \in Ranks :
                           shards'[g][s][k].run = attempt
                             => s \in Entries(previous_saved_paths'[g])
                      /\ HasSaved(g) \/ g = g0 =>
                           \A k \in Ranks : shards'[g][global_steps][k].run = attempt
    BY <1>1, <1>11 DEF DiskInv, Remembered, Entries
  <2>1. /\ \A s \in Steps, k \in Ranks :
             shards[g][s][k].run = attempt
               => s \in Entries(previous_saved_paths[g]) \/ (g = g0 /\ s = global_steps)
        /\ HasSaved(g) => \A k \in Ranks : shards[g][global_steps][k].run = attempt
    <3>1. Present(g) \subseteq {s \in {global_steps} : g = g0}
      BY DEF Present
    <3>2. Entries(previous_saved_paths[g]) = Remembered(g)
      BY DEF Entries, Remembered
    <3>3. /\ \A s \in Steps, k \in Ranks :
               shards[g][s][k].run = attempt => s \in Remembered(g) \cup Present(g)
          /\ HasSaved(g) => \A k \in Ranks : shards[g][global_steps][k].run = attempt
      BY <1>1 DEF Inv, DiskInv
    <3> QED
      BY <3>1, <3>2, <3>3
  <2>2. \A s \in Steps, k \in Ranks :
          shards'[g][s][k].run = attempt => s \in Entries(previous_saved_paths'[g])
    <3>1. CASE g # g0
      BY <1>10, <1>15, <2>1, <3>1
    <3>2. CASE g = g0
      <4> SUFFICES ASSUME NEW s \in Steps, NEW k \in Ranks, shards'[g][s][k].run = attempt
                   PROVE  s \in Entries(t)
        BY <1>10, <3>2
      <4>1. (s \in Entries(l) \/ s = global_steps) /\ ~ \E i \in 1 .. n : l[i] = s
        BY <1>3, <1>15, <2>1, <3>2
      <4>2. s \in Entries(a)
        <5>1. CASE s = global_steps
          <6>1. Len(l) + 1 \in 1 .. Len(a)
            BY <1>3, <1>7
          <6> QED
            BY <1>7, <5>1, <6>1 DEF Entries
        <5>2. CASE s \in Entries(l)
          <6>1. PICK i \in 1 .. Len(l) : l[i] = s
            BY <5>2 DEF Entries
          <6>2. i \in 1 .. Len(a) /\ a[i] = s
            BY <1>3, <1>7, <6>1
          <6> QED
            BY <6>2 DEF Entries
        <5> QED
          BY <4>1, <5>1, <5>2
      <4>3. ~ \E i \in 1 .. n : a[i] = s
        BY <1>3, <1>4, <1>7, <4>1
      <4> QED
        BY <1>8, <4>2, <4>3 DEF IsSuffix
    <3> QED
      BY <3>1, <3>2
  <2>3. HasSaved(g) \/ g = g0 => \A k \in Ranks : shards'[g][global_steps][k].run = attempt
    <3>1. ~ \E i \in 1 .. n : l[i] = global_steps
      <4>1. \A i \in 1 .. n : i \in 1 .. Len(l) /\ l[i] \in Nat
        BY <1>3, <1>4, ElementOfSeq, CheckpointAssumption DEF Steps
      <4>2. global_steps \in Nat
        BY <1>2, CheckpointAssumption DEF Steps
      <4> QED
        BY <1>7, <4>1, <4>2
    <3>2. \A k \in Ranks : shards'[g][global_steps][k] = shards[g][global_steps][k]
      BY <1>1, <1>2, <1>4, <3>1, Removed DEF Inv, l
    <3> QED
      BY <1>1, <2>1, <3>2
  <2> QED
    BY <2>2, <2>3
<1> QED
  BY <1>12, <1>13, <1>14, <1>15, <1>16, <1>17 DEF Inv

\* The rest of _save_checkpoint.
LEMMA DriverKept == ASSUME Inv, SaveData \/ TruncateTracker \/ WriteTracker PROVE Inv'
<1>1. /\ pc \in {"data", "truncate", "tracker"} /\ pc' \in {"truncate", "tracker", "next"}
      /\ UNCHANGED <<saving, global_steps, batches, position, attempt, previous_saved_paths, shards>>
  BY DEF SaveData, TruncateTracker, WriteTracker
<1>2. /\ global_steps \in Steps /\ global_steps = position /\ Torn \notin Steps
      /\ tracker \in Steps => tracker < global_steps
      /\ attempt > 0 /\ attempt \in Nat /\ NumBatches \in Nat
  BY <1>1, CheckpointAssumption DEF Inv, TypeOK, StepInv, Saving, Steps, Torn
<1>3. \A g \in Groups : /\ HasSaved(g) /\ Present(g) = {} /\ Present(g)' = {}
                        /\ HasSaved(g)' <=> pc' # "next"
  BY <1>1 DEF HasSaved, Present
<1>4. TypeOK' /\ StepInv' /\ DataInv'
  <2>1. CASE SaveData
    <3>1. /\ pc' = "truncate" /\ tracker' = tracker
          /\ data' = [data EXCEPT ![global_steps] = global_steps]
      BY <1>2, <2>1 DEF SaveData
    <3>2. /\ data'[global_steps] = global_steps
          /\ \A s \in Steps : s # global_steps => data'[s] = data[s]
          /\ data' \in [Steps -> 0 .. NumBatches + 1]
      BY <1>2, <3>1 DEF Inv, TypeOK, Steps
    <3>3. TypeOK'
      BY <1>1, <3>1, <3>2 DEF Inv, TypeOK, Pc
    <3>4. StepInv'
      BY <1>1, <1>2, <3>1 DEF Inv, StepInv, Saving
    <3>5. DataInv'
      <4>1. tracker \in Steps => tracker # global_steps
        BY <1>2 DEF Steps
      <4> QED
        BY <1>1, <3>1, <3>2, <4>1 DEF Inv, DataInv
    <3> QED
      BY <3>3, <3>4, <3>5
  <2>2. CASE TruncateTracker
    <3>1. pc = "truncate" /\ pc' = "tracker" /\ tracker' = Torn /\ data' = data
      BY <2>2 DEF TruncateTracker
    <3> QED
      BY <1>1, <1>2, <3>1 DEF Inv, TypeOK, StepInv, DataInv, Pc, Saving, Torn
  <2>3. CASE WriteTracker
    <3>1. pc = "tracker" /\ pc' = "next" /\ tracker' = global_steps /\ data' = data
      BY <2>3 DEF WriteTracker
    <3>2. global_steps \in 0 .. NumBatches + 1
      BY <1>2 DEF Steps
    <3> QED
      BY <1>1, <1>2, <3>1, <3>2 DEF Inv, TypeOK, StepInv, DataInv, Pc, Saving
  <2> QED
    BY <2>1, <2>2, <2>3
<1>5. ContentInv'
  BY <1>1 DEF Inv, ContentInv
<1>6. ListInv'
  <2>1. \/ pc' \in {"truncate", "tracker"} /\ (pc' = "truncate" => tracker' = tracker /\ pc = "data")
        \/ pc' = "next" /\ tracker' = global_steps
    BY DEF SaveData, TruncateTracker, WriteTracker
  <2> QED
    BY <1>1, <1>3, <2>1 DEF Inv, ListInv, EndsWith
<1>7. DiskInv'
  BY <1>1, <1>3 DEF Inv, DiskInv, Remembered
<1> QED
  BY <1>4, <1>5, <1>6, <1>7 DEF Inv

\* The program ends, and is started again.
LEMMA RestartKept == ASSUME Inv, Restart PROVE Inv'
<1>1. /\ pc' = "start" /\ saving' = 1 /\ global_steps' = 0 /\ batches' = 0 /\ position' = 0
      /\ previous_saved_paths' = [g \in Groups |-> <<>>]
      /\ UNCHANGED <<attempt, shards, data, tracker>>
      /\ attempt > 0
  BY DEF Restart, diskVars, Inv, StepInv
<1>2. \A g \in Groups : previous_saved_paths'[g] = <<>> /\ ~HasSaved(g)'
  BY <1>1 DEF HasSaved
<1>3. TypeOK'
  <2>1. 1 \in DOMAIN Managers
    BY GroupFacts DEF Inv, TypeOK
  <2> QED
    BY <1>1, <2>1, NothingRemembered, CheckpointAssumption DEF Inv, TypeOK, Pc
<1>4. StepInv' /\ ContentInv' /\ DataInv' /\ DiskInv'
  BY <1>1 DEF Inv, StepInv, ContentInv, DataInv, DiskInv, Saving
<1>5. ListInv'
  BY <1>2, NothingRemembered, CheckpointAssumption DEF ListInv
<1> QED
  BY <1>3, <1>4, <1>5 DEF Inv

\* An empty disk.
LEMMA Initially == Init => Inv
<1> SUFFICES ASSUME Init PROVE Inv
  OBVIOUS
<1>1. tracker \notin Steps /\ tracker \in 0 .. NumBatches + 1
  BY CheckpointAssumption DEF Init, NoTracker, Steps
<1>2. 1 \in DOMAIN Managers
  BY CheckpointAssumption, EmptySeq, LenProperties
<1>3. TypeOK
  <2>1. Absent \in [run : Nat, batches : 0 .. NumBatches]
    BY CheckpointAssumption DEF Absent
  <2>2. NoData \in 0 .. NumBatches + 1 /\ 0 \in 0 .. NumBatches
    BY CheckpointAssumption DEF NoData
  <2>3. shards \in [Groups -> [Steps -> [Ranks -> [run : Nat, batches : 0 .. NumBatches]]]]
    BY <2>1 DEF Init
  <2>4. data \in [Steps -> 0 .. NumBatches + 1] /\ previous_saved_paths \in [Groups -> Seq(Steps)]
    BY <2>2, NothingRemembered DEF Init
  <2> QED
    BY <1>1, <1>2, <2>2, <2>3, <2>4 DEF Init, TypeOK, Pc
<1>4. StepInv /\ ContentInv /\ DataInv /\ DiskInv
  BY <1>1 DEF Init, StepInv, ContentInv, DataInv, DiskInv, Saving
<1>5. ListInv
  BY NothingRemembered, CheckpointAssumption DEF Init, ListInv, HasSaved
<1> QED
  BY <1>3, <1>4, <1>5 DEF Inv

\* Every step of the program keeps the invariants.
LEMMA StepKeeps == Inv /\ [Next]_vars => Inv'
<1>1. ASSUME Inv, Next PROVE Inv'
  <2>1. CASE FromScratch \/ Resume \/ ResumeFails
    BY <1>1, <2>1, BeginsKept
  <2>2. CASE TrainStep \/ OutOfData \/ NextStep
    BY <1>1, <2>2, LoopKept
  <2>3. CASE EnsureCapacity
    BY <1>1, <2>3, CapacityKept
  <2>4. CASE \E k \in Ranks : WriteShard(k)
    BY <1>1, <2>4, WriteKept
  <2>5. CASE RegisterCheckpoint
    BY <1>1, <2>5, RegisterKept
  <2>6. CASE SaveData \/ TruncateTracker \/ WriteTracker
    BY <1>1, <2>6, DriverKept
  <2>7. CASE Restart
    BY <1>1, <2>7, RestartKept
  <2> QED
    BY <1>1, <2>1, <2>2, <2>3, <2>4, <2>5, <2>6, <2>7 DEF Next
<1>2. ASSUME Inv, UNCHANGED vars PROVE Inv'
  BY <1>2 DEF vars, runVars, diskVars, Inv, TypeOK, StepInv, ContentInv, DataInv, ListInv, DiskInv,
              HasSaved, Remembered, Present, Group
<1> QED
  BY <1>1, <1>2

-----------------------------------------------------------------------------
\* Theorems.

\* The inductive invariants of a run and of the disk.
THEOREM CheckpointInv == Spec => []Inv
BY Initially, StepKeeps, PTL DEF Spec

\* The type invariant of the trainer's state and of the checkpoint files.
THEOREM CheckpointTypeCorrect == Spec => []TypeOK
<1>1. Inv => TypeOK
  BY DEF Inv
<1> QED
  BY <1>1, CheckpointInv, PTL

\* _load_checkpoint sets the data loader to where the weights are, after any crashes.
THEOREM Resumed == Spec => []DataMatchesWeights
<1>1. Inv => DataMatchesWeights
  BY DEF Inv, StepInv, DataMatchesWeights
<1> QED
  BY <1>1, CheckpointInv, PTL

\* What a run has on disk between saves is among the steps its managers remember.
LEMMA RememberedBound ==
  ASSUME NEW l \in Seq(Steps), NEW S, S \subseteq Entries(l)
  PROVE  Cardinality(S) <= Len(l)
<1> DEFINE m == Len(l)
           T == Entries(l)
<1>1. m \in Nat /\ IsFiniteSet(1 .. m) /\ Cardinality(1 .. m) = m
  <2>1. m \in Nat
    BY LenProperties
  <2> HIDE DEF m
  <2>2. IsFiniteSet(1 .. m) /\ Cardinality(1 .. m) = IF 1 > m THEN 0 ELSE m - 1 + 1
    BY <2>1, FS_Interval
  <2> QED
    BY <2>1, <2>2
<1>2. l \in Surjection(1 .. m, T)
  <2>1. l \in [1 .. m -> Steps]
    BY LenProperties
  <2> QED
    BY <2>1 DEF Surjection, Entries
<1>3. IsFiniteSet(T) /\ Cardinality(T) <= m
  BY <1>1, <1>2, FS_Surjection
<1>4. IsFiniteSet(S) /\ Cardinality(S) <= Cardinality(T)
  BY <1>3, FS_Subset
<1>5. Cardinality(S) \in Nat /\ Cardinality(T) \in Nat
  BY <1>3, <1>4, FS_CardinalityType
<1> HIDE DEF m, T
<1>6. Cardinality(S) <= m
  BY <1>1, <1>3, <1>4, <1>5
<1> QED
  BY <1>6 DEF m

\* register_checkpoint keeps at most max_ckpt_to_keep checkpoints of a run.
THEOREM KeptBound == Spec => []KeptPerRun
<1>1. Inv => KeptPerRun
  <2> SUFFICES ASSUME Inv, pc = "train", MaxKeep > 0, NEW g \in Groups
               PROVE  Cardinality(OnDisk(g)) <= MaxKeep
    BY DEF KeptPerRun
  <2> DEFINE l == previous_saved_paths[g]
             S == OnDisk(g)
  <2>1. l \in Seq(Steps) /\ Len(l) <= MaxKeep
    BY DEF Inv, TypeOK, ListInv
  <2>2. S \subseteq Entries(l)
    BY DEF Inv, DiskInv, Remembered, Present, Entries, OnDisk
  <2>3. Cardinality(S) <= Len(l)
    BY <2>1, <2>2, RememberedBound
  <2>4. Cardinality(S) \in Nat /\ Len(l) \in Nat /\ MaxKeep \in Nat
    <3>1. IsFiniteSet(1 .. NumBatches)
      BY CheckpointAssumption, FS_Interval
    <3>2. S \subseteq 1 .. NumBatches
      BY DEF OnDisk, Steps
    <3>3. IsFiniteSet(S)
      BY <3>1, <3>2, FS_Subset
    <3> QED
      BY <2>1, <3>3, FS_CardinalityType, LenProperties, CheckpointAssumption
  <2> HIDE DEF l, S
  <2>5. Cardinality(S) <= MaxKeep
    BY <2>1, <2>3, <2>4
  <2> QED
    BY <2>5 DEF S
<1> QED
  BY <1>1, CheckpointInv, PTL

-----------------------------------------------------------------------------
\* The checkpoint that the tracker names.

\* It was written by one run, all of it.
TrackInv ==
  tracker \in Steps =>
    \E a \in 1 .. attempt : \A g \in Groups, k \in Ranks :
      shards[g][tracker][k] = [run |-> a, batches |-> tracker]

\* Removing all but the last of the steps a manager remembers leaves the one that the
\* tracker names alone.
LEMMA TrackedStays ==
  ASSUME Inv, TrackInv, NEW n \in Nat, n < Len(Saved) \/ n = 0, RemoveOldest(n),
         EndsWith(Saved, tracker), UNCHANGED <<attempt, tracker>>
  PROVE  TrackInv'
<1> DEFINE m == Len(Saved)
<1>1. Saved \in Seq(Steps) /\ m \in Nat /\ Increasing(Saved)
  BY GroupFacts, LenProperties DEF Inv, TypeOK, ListInv, Saved
<1>2. ~ \E i \in 1 .. n : Saved[i] = tracker
  <2> SUFFICES ASSUME NEW i \in 1 .. n, Saved[i] = tracker PROVE FALSE
    OBVIOUS
  <2>1. n < m /\ i \in 1 .. m /\ m \in 1 .. m /\ i < m
    BY <1>1
  <2>2. Saved # <<>>
    BY <1>1, <2>1, EmptySeq
  <2>3. Saved[i] < Saved[m] /\ Saved[m] = tracker
    BY <2>1, <2>2, <1>1 DEF Increasing, EndsWith
  <2>4. Saved[i] \in Nat
    BY <1>1, <2>1, ElementOfSeq, CheckpointAssumption DEF Steps
  <2> QED
    BY <2>3, <2>4
<1>3. \A g \in Groups, k \in Ranks : tracker \in Steps => shards'[g][tracker][k] = shards[g][tracker][k]
  <2>1. \A g \in Groups, s \in Steps, k \in Ranks :
          shards'[g][s][k] = IF g = Group /\ \E i \in 1 .. n : Saved[i] = s
                             THEN Absent ELSE shards[g][s][k]
    BY Removed DEF Inv
  <2> QED
    BY <1>2, <2>1
<1> QED
  BY <1>3 DEF TrackInv

\* With more than one checkpoint to keep every step leaves it complete.
LEMMA TrackKept == ASSUME MaxKeep # 1, Inv, TrackInv, [Next]_vars PROVE TrackInv'
<1>1. CASE UNCHANGED <<shards, tracker>> /\ attempt' >= attempt
  <2>1. attempt \in Nat /\ attempt' \in Nat
    BY StepKeeps DEF Inv, TypeOK
  <2>2. \A a \in 1 .. attempt : a \in 1 .. attempt'
    BY <1>1, <2>1
  <2> QED
    BY <1>1, <2>2 DEF TrackInv
<1>2. CASE EnsureCapacity
  <2>1. /\ pc = "capacity" /\ RemoveOldest(SpareCapacity) /\ UNCHANGED <<attempt, tracker>>
    BY <1>2 DEF EnsureCapacity
  <2>2. saving \in DOMAIN Managers /\ Group \in Groups
    BY GroupFacts DEF Inv, TypeOK
  <2>3. ~HasSaved(Group)
    BY <2>1, <2>2, GroupFacts DEF HasSaved
  <2>4. EndsWith(Saved, tracker)
    BY <2>2, <2>3 DEF Inv, ListInv, Saved
  <2>5. SpareCapacity \in Nat /\ (SpareCapacity < Len(Saved) \/ SpareCapacity = 0)
    <3> DEFINE m == Len(Saved)
    <3>1. m \in Nat /\ MaxKeep \in Nat
      BY <2>2, LenProperties, CheckpointAssumption DEF Inv, TypeOK, Saved
    <3>2. SpareCapacity = IF MaxKeep > 1 /\ m >= MaxKeep THEN m - MaxKeep + 1 ELSE 0
      BY DEF SpareCapacity
    <3> HIDE DEF m
    <3>3. SpareCapacity \in Nat /\ (SpareCapacity < m \/ SpareCapacity = 0)
      BY <3>1, <3>2
    <3> QED
      BY <3>3 DEF m
  <2> QED
    BY <2>1, <2>4, <2>5, TrackedStays
<1>3. CASE \E r \in Ranks : WriteShard(r)
  <2>1. PICK r \in Ranks : WriteShard(r)
    BY <1>3
  <2>2. /\ pc = "write" /\ UNCHANGED <<attempt, tracker>>
        /\ shards' = [shards EXCEPT ![Group][global_steps][r] = [run |-> attempt, batches |-> batches]]
    BY <2>1 DEF WriteShard, runVars
  <2>3. tracker \in Steps => tracker # global_steps
    BY <2>2 DEF Inv, StepInv, Saving, Steps
  <2>4. \A g \in Groups, k \in Ranks : tracker \in Steps => shards'[g][tracker][k] = shards[g][tracker][k]
    BY <2>2, <2>3 DEF Inv, TypeOK
  <2> QED
    BY <2>2, <2>4 DEF TrackInv
<1>4. CASE RegisterCheckpoint
  <2> DEFINE m == Len(Saved)
             n == IF MaxKeep > 0 /\ m + 1 > MaxKeep THEN m + 1 - MaxKeep ELSE 0
  <2>1. /\ pc = "write" /\ RemoveOldest(n) /\ UNCHANGED <<attempt, tracker>>
    BY <1>4 DEF RegisterCheckpoint
  <2>2. saving \in DOMAIN Managers /\ Group \in Groups
    BY GroupFacts DEF Inv, TypeOK
  <2>3. ~HasSaved(Group)
    BY <2>1, <2>2, GroupFacts DEF HasSaved
  <2>4. EndsWith(Saved, tracker)
    BY <2>2, <2>3 DEF Inv, ListInv, Saved
  <2>5. n \in Nat /\ (n < m \/ n = 0)
    <3>1. m \in Nat /\ MaxKeep \in Nat
      BY <2>2, LenProperties, CheckpointAssumption DEF Inv, TypeOK, Saved
    <3>2. n = IF MaxKeep > 0 /\ m + 1 > MaxKeep THEN m + 1 - MaxKeep ELSE 0
      OBVIOUS
    <3> HIDE DEF m, n
    <3> QED
      BY <3>1, <3>2
  <2> HIDE DEF n
  <2> QED
    BY <2>1, <2>4, <2>5, TrackedStays DEF m
<1>5. CASE TruncateTracker
  BY <1>5, CheckpointAssumption DEF TruncateTracker, TrackInv, Torn, Steps
<1>6. CASE WriteTracker
  <2>1. /\ pc = "tracker" /\ tracker' = global_steps /\ UNCHANGED <<attempt, shards>>
    BY <1>6 DEF WriteTracker
  <2>2. global_steps \in Steps /\ attempt \in Nat /\ attempt > 0
    BY <2>1 DEF Inv, TypeOK, StepInv, Saving, Steps
  <2>3. \A g \in Groups, k \in Ranks : shards[g][global_steps][k].run = attempt
    BY <2>1 DEF Inv, DiskInv, HasSaved
  <2>4. \A g \in Groups, k \in Ranks : shards[g][global_steps][k].batches = global_steps
    BY <2>2, <2>3 DEF Inv, ContentInv, Absent
  <2>5. \A g \in Groups, k \in Ranks :
          shards[g][global_steps][k] \in [run : Nat, batches : 0 .. NumBatches]
    BY <2>2 DEF Inv, TypeOK
  <2>6. \A g \in Groups, k \in Ranks :
          shards[g][global_steps][k] = [run |-> attempt, batches |-> global_steps]
    BY <2>3, <2>4, <2>5
  <2>7. attempt \in 1 .. attempt
    BY <2>2
  <2> QED
    BY <2>1, <2>6, <2>7 DEF TrackInv
<1>7. CASE UNCHANGED <<shards, tracker>> /\ attempt' = attempt
  BY <1>7 DEF TrackInv
<1>8. ASSUME FromScratch \/ Resume \/ ResumeFails
      PROVE  UNCHANGED <<shards, tracker>> /\ attempt' >= attempt
  BY <1>8 DEF FromScratch, Resume, ResumeFails, Begins, diskVars, Inv, TypeOK
<1>9. ASSUME TrainStep \/ OutOfData \/ NextStep \/ SaveData \/ Restart \/ UNCHANGED vars
      PROVE  UNCHANGED <<shards, tracker>> /\ attempt' = attempt
  BY <1>9 DEF TrainStep, OutOfData, NextStep, SaveData, Restart, diskVars, runVars, vars
<1> QED
  BY <1>1, <1>2, <1>3, <1>4, <1>5, <1>6, <1>7, <1>8, <1>9 DEF Next

\* The tracker names a complete checkpoint of one run, with the data loader's position
\* of that step, whenever the program may crash, if more than one checkpoint is kept or all.
THEOREM Tracked == MaxKeep # 1 => (Spec => []TrackedComplete)
<1> SUFFICES ASSUME MaxKeep # 1 PROVE Spec => []TrackedComplete
  OBVIOUS
<1>1. Init => Inv /\ TrackInv
  <2>1. Init => TrackInv
    BY CheckpointAssumption DEF Init, TrackInv, NoTracker, Steps
  <2> QED
    BY <2>1, Initially
<1>2. Inv /\ TrackInv /\ [Next]_vars => (Inv /\ TrackInv)'
  BY StepKeeps, TrackKept
<1>3. Inv /\ TrackInv => TrackedComplete
  BY DEF Inv, DataInv, TrackInv, TrackedComplete
<1> QED
  BY <1>1, <1>2, <1>3, PTL DEF Spec

\* A start fails only on the empty tracker.
FailsWhenTorn == pc = "failed" => tracker = Torn

\* A complete checkpoint is found (Resume), no tracker means a start from scratch.
LEMMA FailsTorn ==
  ASSUME Inv, TrackInv, FailsWhenTorn, [Next]_vars PROVE FailsWhenTorn'
<1>1. CASE ResumeFails
  <2>1. tracker # NoTracker /\ tracker' = tracker /\ (tracker \in Steps => ~Complete(tracker))
    BY <1>1 DEF ResumeFails, Begins, diskVars
  <2>2. ASSUME tracker \in Steps PROVE Complete(tracker)
    <3>1. PICK a \in 1 .. attempt : \A g \in Groups, k \in Ranks :
            shards[g][tracker][k] = [run |-> a, batches |-> tracker]
      BY <2>2 DEF TrackInv
    <3>2. \A g \in Groups, k \in Ranks : shards[g][tracker][k] # Absent
      BY <3>1 DEF Absent
    <3> QED
      BY <3>2 DEF Complete
  <2>3. tracker \in 0 .. NumBatches + 1
    BY DEF Inv, TypeOK
  <2> QED
    BY <2>1, <2>2, <2>3, CheckpointAssumption DEF FailsWhenTorn, Steps, Torn, NoTracker
<1>2. CASE FromScratch \/ Resume \/ TrainStep \/ OutOfData \/ NextStep \/ EnsureCapacity
           \/ RegisterCheckpoint \/ SaveData \/ TruncateTracker \/ WriteTracker \/ Restart
  <2>1. pc' # "failed"
    BY <1>2 DEF FromScratch, Resume, TrainStep, OutOfData, NextStep, EnsureCapacity,
      RegisterCheckpoint, SaveData, TruncateTracker, WriteTracker, Restart
  <2> QED
    BY <2>1 DEF FailsWhenTorn
<1>3. CASE (\E k \in Ranks : WriteShard(k)) \/ UNCHANGED vars
  <2>1. pc' = pc /\ tracker' = tracker
    BY <1>3 DEF WriteShard, vars, runVars, diskVars
  <2> QED
    BY <2>1 DEF FailsWhenTorn
<1> QED
  BY <1>1, <1>2, <1>3 DEF Next

\* A program that is started again after any number of crashes fails to load its checkpoint
\* only if a crash fell between opening latest_checkpointed_iteration.txt and writing it
\* (_save_checkpoint), if more than one checkpoint is kept or all.
THEOREM StartsUnlessTorn == MaxKeep # 1 => (Spec => []FailsWhenTorn)
<1> SUFFICES ASSUME MaxKeep # 1 PROVE Spec => []FailsWhenTorn
  OBVIOUS
<1>1. Init => Inv /\ TrackInv /\ FailsWhenTorn
  <2>1. Init => TrackInv /\ FailsWhenTorn
    BY CheckpointAssumption DEF Init, TrackInv, NoTracker, Steps, FailsWhenTorn
  <2> QED
    BY <2>1, Initially
<1>2. Inv /\ TrackInv /\ FailsWhenTorn /\ [Next]_vars => (Inv /\ TrackInv /\ FailsWhenTorn)'
  BY StepKeeps, TrackKept, FailsTorn
<1> QED
  BY <1>1, <1>2, PTL DEF Spec
==============================================================================
