------------------------ MODULE ToolAgentLoop_proofs ------------------------
(***************************************************************************)
(* The theorems about a multi-turn trajectory, for every length, number of *)
(* turns and calls, and whatever the tools answer.                         *)
(*                                                                         *)
(* TailInv relates the three sequences: mask and log-probs stand beside    *)
(* the tail of prompt_ids that follows the prompt.                         *)
(***************************************************************************)
EXTENDS ToolAgentLoop, SequenceTheorems, FiniteSetTheorems, TLAPS

Logprobs == {"computed", "zero"}
Bits == {0, 1}
Kept(bit) == bit = 1

(***************************************************************************)
(* The inductive invariants                                                *)
(***************************************************************************)

SeqTypes ==
  /\ state \in State /\ interaction \in BOOLEAN
  /\ prompt_ids \in Seq(Origin) /\ response_mask \in Seq(Bits)
  /\ response_logprobs \in Seq(Logprobs)

CountTypes ==
  /\ image_data \in Nat /\ user_turns \in Nat /\ assistant_turns \in Nat
  /\ server_version \in 1 .. MaxVersion

CallTypes == calls \in Seq(Calls) /\ Len(calls) <= MaxParallelCalls

\* Mask m and log-probs l stand beside the tail of the tokens p; what comes before is
\* the prompt.
Beside(p, m, l) ==
  /\ Len(m) <= Len(p) /\ Len(l) = Len(m)
  /\ \A i \in 1 .. Len(p) - Len(m) : p[i] = "prompt"
  /\ \A i \in 1 .. Len(m) :
       /\ p[Len(p) - Len(m) + i] # "prompt"
       /\ Kept(m[i]) <=> p[Len(p) - Len(m) + i] = "policy"
       /\ Kept(m[i]) <=> l[i] = "computed"

\* Tokens x with masks y and log-probs z: generated tokens have mask 1 and a computed
\* log-prob, others mask 0 and log-prob 0; none is of the prompt.
Generated(x, y, z) ==
  /\ Len(y) = Len(x) /\ Len(z) = Len(x)
  /\ \A i \in 1 .. Len(x) :
       /\ x[i] # "prompt"
       /\ Kept(y[i]) <=> x[i] = "policy"
       /\ Kept(y[i]) <=> z[i] = "computed"

\* Before the first generation nothing is there; after it the mask never is empty.
TailInv ==
  /\ Beside(prompt_ids, response_mask, response_logprobs)
  /\ state = "pending" =>
       prompt_ids = <<>> /\ response_mask = <<>> /\ response_logprobs = <<>>
  /\ state \in {"processing_tools", "interacting", "terminated"} => response_mask # <<>>

\* A turn's instances belong to calls that have one.
Held == {c \in DOMAIN calls : calls[c].at \in {"created", "answered"}}
InstanceInv ==
  /\ state # "processing_tools" => instances = {}
  /\ instances \subseteq {Instance(c) : c \in Held}

\* The prompt is within prompt_length, and before a request without an interaction there
\* is room in response_length.
FitInv ==
  /\ Len(prompt_ids) - Len(response_mask) <= PromptLength
  /\ state = "interacting" => interaction
  /\ state = "generating" /\ ~interaction => Len(response_mask) < ResponseLength

\* The placeholders of images, and as many images as so many answers may bring.
ImagePlaces(p) == {i \in DOMAIN p : p[i] = "image"}
ImageInv == image_data \in ImagesOf(Cardinality(ImagePlaces(prompt_ids)))

TypeInv == SeqTypes /\ CountTypes /\ CallTypes
Inv == TypeInv /\ TailInv /\ InstanceInv /\ FitInv /\ ImageInv

-----------------------------------------------------------------------------
\* Sequences.

\* n copies of a value.
LEMMA TimesType ==
  ASSUME NEW S, NEW n \in Nat, NEW x \in S
  PROVE  /\ Times(n, x) \in Seq(S) /\ Len(Times(n, x)) = n
         /\ \A i \in 1 .. n : Times(n, x)[i] = x
<1>1. Times(n, x) \in Seq(S)
  BY IsASeq DEF Times
<1>2. DOMAIN Times(n, x) = 1 .. n /\ \A i \in 1 .. n : Times(n, x)[i] = x
  BY DEF Times
<1> QED
  BY <1>1, <1>2, LenProperties

\* Concatenation, element by element.
LEMMA Joined ==
  ASSUME NEW S, NEW s \in Seq(S), NEW t \in Seq(S)
  PROVE  /\ s \o t \in Seq(S)
         /\ Len(s \o t) = Len(s) + Len(t)
         /\ Len(s) \in Nat /\ Len(t) \in Nat
         /\ \A i \in 1 .. Len(s) : (s \o t)[i] = s[i]
         /\ \A i \in 1 .. Len(t) : (s \o t)[Len(s) + i] = t[i]
<1>1. Len(s) \in Nat /\ Len(t) \in Nat
  BY LenProperties
<1>2. /\ s \o t \in Seq(S) /\ Len(s \o t) = Len(s) + Len(t)
      /\ \A i \in 1 .. Len(s) + Len(t) :
           (s \o t)[i] = IF i <= Len(s) THEN s[i] ELSE t[i - Len(s)]
  BY ConcatProperties
<1> QED
  BY <1>1, <1>2

\* Tokens may be put behind with their masks and log-probs.
LEMMA ExtendBeside ==
  ASSUME NEW p \in Seq(Origin), NEW m \in Seq(Bits), NEW l \in Seq(Logprobs), Beside(p, m, l),
         NEW x \in Seq(Origin), NEW y \in Seq(Bits), NEW z \in Seq(Logprobs), Generated(x, y, z)
  PROVE  /\ Beside(p \o x, m \o y, l \o z)
         /\ Len(p \o x) - Len(m \o y) = Len(p) - Len(m)
<1> DEFINE pp == p \o x
           mm == m \o y
           ll == l \o z
           n == Len(x)
<1>1. n \in Nat /\ Len(p) \in Nat /\ Len(m) \in Nat /\ Len(l) \in Nat /\ Len(l) = Len(m)
      /\ Len(m) <= Len(p)
  BY LenProperties DEF Beside
<1>2. Len(y) = n /\ Len(z) = n
  BY DEF Generated
<1>3. /\ Len(pp) = Len(p) + n
      /\ \A i \in 1 .. Len(p) : pp[i] = p[i]
      /\ \A i \in 1 .. n : pp[Len(p) + i] = x[i]
  BY Joined
<1>4. /\ Len(mm) = Len(m) + n
      /\ \A i \in 1 .. Len(m) : mm[i] = m[i]
      /\ \A i \in 1 .. n : mm[Len(m) + i] = y[i]
  <2>1. /\ Len(mm) = Len(m) + Len(y)
        /\ \A i \in 1 .. Len(m) : mm[i] = m[i]
        /\ \A i \in 1 .. Len(y) : mm[Len(m) + i] = y[i]
    BY Joined
  <2> HIDE DEF n, mm
  <2> QED
    BY <1>2, <2>1
<1>5. /\ Len(ll) = Len(l) + n
      /\ \A i \in 1 .. Len(l) : ll[i] = l[i]
      /\ \A i \in 1 .. n : ll[Len(l) + i] = z[i]
  <2>1. /\ Len(ll) = Len(l) + Len(z)
        /\ \A i \in 1 .. Len(l) : ll[i] = l[i]
        /\ \A i \in 1 .. Len(z) : ll[Len(l) + i] = z[i]
    BY Joined
  <2> HIDE DEF n, ll
  <2> QED
    BY <1>2, <2>1
<1>6. \A i \in 1 .. n : /\ x[i] # "prompt"
                        /\ Kept(y[i]) <=> x[i] = "policy"
                        /\ Kept(y[i]) <=> z[i] = "computed"
  BY DEF Generated
<1> HIDE DEF n, mm, ll, pp
<1>7. /\ Len(pp) - Len(mm) = Len(p) - Len(m) /\ Len(mm) <= Len(pp) /\ Len(ll) = Len(mm)
      /\ Len(pp) \in Nat /\ Len(mm) \in Nat
  BY <1>1, <1>3, <1>4, <1>5
<1>8. \A i \in 1 .. Len(pp) - Len(mm) : pp[i] = "prompt"
  <2>1. \A i \in 1 .. Len(p) - Len(m) : i \in 1 .. Len(p) /\ p[i] = "prompt"
    BY <1>1 DEF Beside
  <2> QED
    BY <2>1, <1>3, <1>7
<1>9. ASSUME NEW i \in 1 .. Len(mm)
      PROVE  /\ pp[Len(pp) - Len(mm) + i] # "prompt"
             /\ Kept(mm[i]) <=> pp[Len(pp) - Len(mm) + i] = "policy"
             /\ Kept(mm[i]) <=> ll[i] = "computed"
  <2>1. CASE i \in 1 .. Len(m)
    <3>1. Len(p) - Len(m) + i \in 1 .. Len(p)
      BY <2>1, <1>1
    <3>2. pp[Len(pp) - Len(mm) + i] = p[Len(p) - Len(m) + i]
      BY <3>1, <1>3, <1>7
    <3>3. mm[i] = m[i] /\ ll[i] = l[i]
      BY <2>1, <1>1, <1>4, <1>5
    <3> QED
      BY <2>1, <3>2, <3>3 DEF Beside
  <2>2. CASE i \notin 1 .. Len(m)
    <3>1. PICK j \in 1 .. n : i = Len(m) + j
      <4>1. i - Len(m) \in 1 .. n /\ i = Len(m) + (i - Len(m))
        BY <2>2, <1>1, <1>4
      <4> QED
        BY <4>1
    <3>2. pp[Len(pp) - Len(mm) + i] = x[j]
      <4>1. Len(pp) - Len(mm) + i = Len(p) + j
        <5> DEFINE lp == Len(p)
                   lm == Len(m)
                   d == Len(pp) - Len(mm)
        <5>1. d = lp - lm /\ i = lm + j /\ lp \in Nat /\ lm \in Nat /\ j \in Int
          BY <3>1, <1>1, <1>7
        <5> HIDE DEF lp, lm, d
        <5>2. d + i = lp + j
          BY <5>1
        <5> QED
          BY <5>2 DEF lp, d
      <4> QED
        BY <4>1, <1>3
    <3>3. mm[i] = y[j] /\ ll[i] = z[j]
      BY <3>1, <1>1, <1>4, <1>5
    <3> QED
      BY <3>2, <3>3, <1>6
  <2> QED
    BY <2>1, <2>2
<1>10. Beside(pp, mm, ll)
  BY <1>7, <1>8, <1>9 DEF Beside
<1> QED
  BY <1>7, <1>10 DEF pp, mm, ll

\* What HandleGenerating puts behind.
LEMMA PolicyTokens ==
  ASSUME NEW n \in Nat
  PROVE  /\ Times(n, "policy") \in Seq(Origin) /\ Times(n, 1) \in Seq(Bits)
         /\ Times(n, "computed") \in Seq(Logprobs)
         /\ Generated(Times(n, "policy"), Times(n, 1), Times(n, "computed"))
         /\ Len(Times(n, 1)) = n /\ Len(Times(n, "policy")) = n
<1>1. /\ Times(n, "policy") \in Seq(Origin) /\ Len(Times(n, "policy")) = n
      /\ \A i \in 1 .. n : Times(n, "policy")[i] = "policy"
  BY TimesType DEF Origin
<1>2. /\ Times(n, 1) \in Seq(Bits) /\ Len(Times(n, 1)) = n
      /\ \A i \in 1 .. n : Times(n, 1)[i] = 1
  BY TimesType DEF Bits
<1>3. /\ Times(n, "computed") \in Seq(Logprobs) /\ Len(Times(n, "computed")) = n
      /\ \A i \in 1 .. n : Times(n, "computed")[i] = "computed"
  BY TimesType DEF Logprobs
<1> QED
  BY <1>1, <1>2, <1>3 DEF Generated, Kept

\* What Extend puts behind.
LEMMA OtherTokens ==
  ASSUME NEW x \in Seq(Origin), \A i \in 1 .. Len(x) : x[i] \notin {"prompt", "policy"}
  PROVE  /\ MaskOf(x) \in Seq(Bits) /\ Times(Len(x), "zero") \in Seq(Logprobs)
         /\ Generated(x, MaskOf(x), Times(Len(x), "zero"))
<1> DEFINE n == Len(x)
<1>1. n \in Nat
  BY LenProperties
<1> HIDE DEF n
<1>2. /\ Times(n, 0) \in Seq(Bits) /\ Len(Times(n, 0)) = n
      /\ \A i \in 1 .. n : Times(n, 0)[i] = 0
  BY <1>1, TimesType DEF Bits
<1>3. /\ Times(n, "zero") \in Seq(Logprobs) /\ Len(Times(n, "zero")) = n
      /\ \A i \in 1 .. n : Times(n, "zero")[i] = "zero"
  BY <1>1, TimesType DEF Logprobs
<1>4. MaskOf(x) = Times(n, 0)
  BY DEF MaskOf, n
<1> QED
  BY <1>2, <1>3, <1>4 DEF Generated, Kept, n

\* The tokens of a tool turn: placeholders first, then text.
LEMMA ToolTurn ==
  ASSUME CallTypes, NEW n \in Nat
  PROVE  /\ Placeholders \in Nat /\ ToolTokens(n) \in Seq(Origin)
         /\ Len(ToolTokens(n)) = Placeholders + n
         /\ \A i \in 1 .. Len(ToolTokens(n)) :
              ToolTokens(n)[i] = IF i <= Placeholders THEN "image" ELSE "tool"
<1> DEFINE k == Placeholders
           s == Times(k, "image")
           t == Times(n, "tool")
<1>1. k \in Nat
  <2>1. IsFiniteSet(DOMAIN calls)
    <3>1. DOMAIN calls = 1 .. Len(calls) /\ Len(calls) \in Nat
      BY LenProperties DEF CallTypes
    <3> QED
      BY <3>1, FS_Interval
  <2>2. IsFiniteSet({c \in DOMAIN calls : calls[c].answer = "image"})
    BY <2>1, FS_Subset
  <2> QED
    BY <2>2, FS_CardinalityType DEF Placeholders
<1> HIDE DEF k
<1>2. s \in Seq(Origin) /\ Len(s) = k /\ \A i \in 1 .. k : s[i] = "image"
  BY <1>1, TimesType DEF Origin
<1>3. t \in Seq(Origin) /\ Len(t) = n /\ \A i \in 1 .. n : t[i] = "tool"
  BY TimesType DEF Origin
<1> HIDE DEF s, t
<1>4. /\ s \o t \in Seq(Origin) /\ Len(s \o t) = k + n
      /\ \A i \in 1 .. k : (s \o t)[i] = s[i]
      /\ \A i \in 1 .. n : (s \o t)[k + i] = t[i]
  <2>1. /\ s \o t \in Seq(Origin) /\ Len(s \o t) = Len(s) + Len(t)
        /\ \A i \in 1 .. Len(s) : (s \o t)[i] = s[i]
        /\ \A i \in 1 .. Len(t) : (s \o t)[Len(s) + i] = t[i]
    <3>1. s \in Seq(Origin) /\ t \in Seq(Origin)
      BY <1>2, <1>3
    <3> QED
      BY <3>1, Joined
  <2> DEFINE u == s \o t
  <2> HIDE DEF u
  <2>2. /\ u \in Seq(Origin) /\ Len(u) = k + n
        /\ \A i \in 1 .. k : u[i] = s[i]
        /\ \A i \in 1 .. n : u[k + i] = t[i]
    BY <1>2, <1>3, <2>1 DEF u
  <2> QED
    BY <2>2 DEF u
<1> DEFINE u == s \o t
<1> HIDE DEF u
<1>5. ASSUME NEW i \in 1 .. k + n PROVE u[i] = IF i <= k THEN "image" ELSE "tool"
  <2>0. /\ \A j \in 1 .. k : u[j] = "image"
        /\ \A j \in 1 .. n : u[k + j] = "tool"
    BY <1>2, <1>3, <1>4 DEF u
  <2>1. CASE i <= k
    BY <1>1, <2>0, <2>1
  <2>2. CASE ~(i <= k)
    <3>1. i - k \in 1 .. n /\ k + (i - k) = i
      BY <1>1, <2>2
    <3>2. u[k + (i - k)] = "tool"
      BY <2>0, <3>1
    <3> QED
      BY <2>2, <3>1, <3>2
  <2> QED
    BY <2>1, <2>2
<1>6. ToolTokens(n) = s \o t
  BY DEF ToolTokens, s, t, k
<1> QED
  BY <1>1, <1>4, <1>5, <1>6 DEF k, u

\* Lists hold a number of images.
LEMMA ListsCounted == ASSUME NEW k \in Nat, NEW x \in ImagesOf(k) PROVE x \in Nat
<1>1. MinImages * k >= 0 /\ MinImages * k \in Nat
  BY ToolAgentAssumption
<1> DEFINE a == MinImages * k
<1> HIDE DEF a
<1>2. x \in a .. MaxImages * k /\ a \in Nat
  BY <1>1 DEF ImagesOf, a
<1> QED
  BY <1>2

\* Without a list there is no image.
LEMMA NoLists == 0 \in ImagesOf(0)
BY ToolAgentAssumption DEF ImagesOf

\* The lists of another turn come on top.
LEMMA MoreLists ==
  ASSUME NEW j \in Nat, NEW k \in Nat, NEW x \in ImagesOf(j), NEW y \in ImagesOf(k)
  PROVE  x + y \in ImagesOf(j + k)
<1> DEFINE a == MinImages * j
           b == MinImages * k
           c == MaxImages * j
           d == MaxImages * k
<1>1. MinImages * (j + k) = a + b /\ MaxImages * (j + k) = c + d
  BY ToolAgentAssumption
<1>2. a \in Int /\ b \in Int /\ c \in Int /\ d \in Int
  BY ToolAgentAssumption
<1>3. x \in a .. c /\ y \in b .. d
  BY DEF ImagesOf
<1> HIDE DEF a, b, c, d
<1>4. x + y \in (a + b) .. (c + d)
  BY <1>2, <1>3
<1> QED
  BY <1>1, <1>4 DEF ImagesOf

\* Placeholders of a prompt are finitely many.
LEMMA PlacesCounted ==
  ASSUME NEW p \in Seq(Origin) PROVE Cardinality(ImagePlaces(p)) \in Nat
<1>1. DOMAIN p = 1 .. Len(p) /\ Len(p) \in Nat
  BY LenProperties
<1>2. IsFiniteSet(1 .. Len(p))
  BY <1>1, FS_Interval
<1>3. IsFiniteSet(ImagePlaces(p))
  BY <1>1, <1>2, FS_Subset DEF ImagePlaces
<1> QED
  BY <1>3, FS_CardinalityType

\* Tokens of which the first k are placeholders add k to those of the prompt.
LEMMA ImagesBehind ==
  ASSUME NEW p \in Seq(Origin), NEW x \in Seq(Origin), NEW k \in Nat, k <= Len(x),
         \A i \in 1 .. Len(x) : x[i] = "image" <=> i <= k
  PROVE  Cardinality(ImagePlaces(p \o x)) = Cardinality(ImagePlaces(p)) + k
<1> DEFINE n == Len(p)
           pp == p \o x
           old == ImagePlaces(p)
           new == n + 1 .. n + k
<1>1. n \in Nat /\ Len(x) \in Nat /\ DOMAIN p = 1 .. n
  BY LenProperties
<1>2. /\ pp \in Seq(Origin) /\ Len(pp) = n + Len(x)
      /\ \A i \in 1 .. n : pp[i] = p[i]
      /\ \A i \in 1 .. Len(x) : pp[n + i] = x[i]
  BY Joined
<1>3. DOMAIN pp = 1 .. Len(pp)
  BY <1>2, LenProperties
<1> HIDE DEF n, pp
<1>4. ASSUME NEW i \in n + 1 .. n + Len(x) PROVE pp[i] = "image" <=> i \in new
  <2>1. i - n \in 1 .. Len(x) /\ n + (i - n) = i
    BY <1>1
  <2>2. pp[i] = x[i - n]
    BY <1>2, <2>1
  <2>3. x[i - n] = "image" <=> i - n <= k
    BY <2>1
  <2> QED
    BY <1>1, <2>1, <2>2, <2>3
<1>5. ImagePlaces(pp) = old \cup new
  <2>1. \A i \in 1 .. n : pp[i] = "image" <=> i \in old
    BY <1>1, <1>2 DEF ImagePlaces
  <2>2. old \subseteq 1 .. n /\ new \subseteq n + 1 .. n + Len(x)
    BY <1>1 DEF ImagePlaces
  <2>3. 1 .. Len(pp) = (1 .. n) \cup (n + 1 .. n + Len(x))
    BY <1>1, <1>2
  <2>4. (1 .. n) \cap (n + 1 .. n + Len(x)) = {}
    BY <1>1
  <2>5. ImagePlaces(pp) = {i \in 1 .. Len(pp) : pp[i] = "image"}
    BY <1>3 DEF ImagePlaces
  <2> HIDE DEF old, new
  <2> QED
    BY <1>4, <2>1, <2>2, <2>3, <2>4, <2>5
<1>6. IsFiniteSet(old) /\ IsFiniteSet(new) /\ Cardinality(new) = k
  <2>1. IsFiniteSet(1 .. n)
    BY <1>1, FS_Interval
  <2>2. IsFiniteSet(old)
    BY <1>1, <2>1, FS_Subset DEF ImagePlaces
  <2>3. IsFiniteSet(new) /\ Cardinality(new) = IF n + 1 > n + k THEN 0 ELSE (n + k) - (n + 1) + 1
    <3>1. n + 1 \in Int /\ n + k \in Int
      BY <1>1
    <3> QED
      BY <3>1, FS_Interval
  <2> QED
    BY <1>1, <2>2, <2>3
<1>7. old \cap new = {}
  BY <1>1 DEF ImagePlaces
<1> HIDE DEF old, new
<1>8. /\ Cardinality(old \cup new) = Cardinality(old) + Cardinality(new) - Cardinality(old \cap new)
      /\ Cardinality(old) \in Nat
  BY <1>6, FS_Union, FS_CardinalityType
<1>9. Cardinality({}) = 0
  BY FS_EmptySet
<1>10. Cardinality(old \cup new) = Cardinality(old) + k
  <2> DEFINE a == Cardinality(old)
             b == Cardinality(new)
             c == Cardinality(old \cup new)
             d == Cardinality(old \cap new)
  <2>1. b = k /\ d = 0 /\ c = a + b - d /\ a \in Nat
    BY <1>6, <1>7, <1>8, <1>9
  <2> HIDE DEF a, b, c, d
  <2>2. c = a + k
    BY <2>1
  <2> QED
    BY <2>2 DEF a, c
<1> QED
  BY <1>5, <1>10 DEF old, pp

-----------------------------------------------------------------------------
\* Steps.

\* Steps that leave the sequences alone and go on, or end in an exception.
LEMMA SequencesAlone ==
  ASSUME SeqTypes, TailInv, FitInv, ImageInv,
         UNCHANGED <<interaction, prompt_ids, response_mask, response_logprobs, image_data>>,
         state' \in {state, "raised"} \/ (state = "processing_tools" /\ state' = "terminated")
  PROVE  SeqTypes' /\ TailInv' /\ FitInv' /\ ImageInv'
<1>1. SeqTypes'
  BY DEF SeqTypes, State
<1>2. TailInv'
  BY DEF TailInv
<1>3. FitInv'
  BY DEF FitInv
<1>4. ImageInv'
  BY DEF ImageInv
<1> QED
  BY <1>1, <1>2, <1>3, <1>4

\* A turn of tools or of a user (Extend): the three sequences stay beside each other.
LEMMA Extended ==
  ASSUME SeqTypes, CountTypes, TailInv, FitInv, state \in {"processing_tools", "interacting"},
         state' \in {"generating", "terminated"}, interaction' = interaction,
         NEW ids \in Seq(Origin), \A i \in 1 .. Len(ids) : ids[i] \notin {"prompt", "policy"},
         Extend(ids)
  PROVE  /\ SeqTypes' /\ TailInv' /\ user_turns' \in Nat
         /\ Len(prompt_ids') - Len(response_mask') <= PromptLength
         /\ Len(response_mask') = Len(response_mask) + Len(ids)
<1>1. /\ prompt_ids \in Seq(Origin) /\ response_mask \in Seq(Bits)
      /\ response_logprobs \in Seq(Logprobs)
      /\ Beside(prompt_ids, response_mask, response_logprobs) /\ response_mask # <<>>
  BY DEF SeqTypes, TailInv
<1>2. response_logprobs # <<>>
  <2>1. Len(response_logprobs) = Len(response_mask)
    BY <1>1 DEF Beside
  <2>2. Len(response_mask) # 0
    BY <1>1, EmptySeq
  <2> QED
    BY <2>1, <2>2, EmptySeq
<1>3. /\ prompt_ids' = prompt_ids \o ids
      /\ response_mask' = response_mask \o MaskOf(ids)
      /\ response_logprobs' = response_logprobs \o Times(Len(ids), "zero")
      /\ user_turns' = user_turns + 1
  BY <1>2 DEF Extend, LogprobsPadded
<1>4. /\ MaskOf(ids) \in Seq(Bits) /\ Times(Len(ids), "zero") \in Seq(Logprobs)
      /\ Generated(ids, MaskOf(ids), Times(Len(ids), "zero"))
  BY OtherTokens
<1>5. /\ Beside(prompt_ids', response_mask', response_logprobs')
      /\ Len(prompt_ids') - Len(response_mask') = Len(prompt_ids) - Len(response_mask)
  BY <1>1, <1>3, <1>4, ExtendBeside
<1>6. /\ prompt_ids' \in Seq(Origin) /\ response_mask' \in Seq(Bits)
      /\ response_logprobs' \in Seq(Logprobs)
  BY <1>1, <1>3, <1>4, ConcatProperties
<1>7. Len(response_mask') = Len(response_mask) + Len(ids)
  <2>1. Len(MaskOf(ids)) = Len(ids)
    BY <1>4 DEF Generated
  <2>2. Len(response_mask \o MaskOf(ids)) = Len(response_mask) + Len(MaskOf(ids))
    BY <1>1, <1>4, ConcatProperties
  <2> QED
    BY <1>3, <2>1, <2>2
<1>8. response_mask' # <<>>
  <2>1. Len(response_mask) \in Nat /\ Len(response_mask) # 0 /\ Len(ids) \in Nat
    BY <1>1, EmptySeq, LenProperties
  <2>2. Len(response_mask') # 0
    BY <1>7, <2>1
  <2> QED
    BY <2>2, EmptySeq
<1>9. SeqTypes'
  BY <1>6 DEF SeqTypes, State
<1>10. TailInv'
  BY <1>5, <1>8 DEF TailInv
<1>11. user_turns' \in Nat
  BY <1>3 DEF CountTypes
<1>12. Len(prompt_ids') - Len(response_mask') <= PromptLength
  BY <1>5 DEF FitInv
<1> QED
  BY <1>7, <1>9, <1>10, <1>11, <1>12

\* The tokens of the prompt come in (HandlePending).
LEMMA PendingKept == ASSUME Inv, HandlePending PROVE Inv'
<1>1. PICK n \in 1 .. PromptLength : prompt_ids' = Times(n, "prompt")
  BY DEF HandlePending
<1>2. /\ state = "pending" /\ state' = "generating"
      /\ UNCHANGED <<interaction, response_mask, response_logprobs, image_data, user_turns,
                     assistant_turns, calls, instances, server_version>>
  BY DEF HandlePending
<1>3. n \in Nat /\ n <= PromptLength
  BY ToolAgentAssumption
<1>4. /\ prompt_ids' \in Seq(Origin) /\ Len(prompt_ids') = n
      /\ \A i \in 1 .. n : prompt_ids'[i] = "prompt"
  BY <1>1, <1>3, TimesType DEF Origin
<1>5. /\ prompt_ids = <<>> /\ response_mask = <<>> /\ response_logprobs = <<>>
      /\ response_mask' = <<>> /\ response_logprobs' = <<>> /\ Len(<<>>) = 0
  BY <1>2, EmptySeq DEF Inv, TailInv
<1>6. TypeInv'
  BY <1>2, <1>4 DEF Inv, TypeInv, SeqTypes, CountTypes, CallTypes, State
<1>7. TailInv'
  <2>1. Beside(prompt_ids', response_mask', response_logprobs')
    BY <1>3, <1>4, <1>5 DEF Beside
  <2> QED
    BY <1>2, <2>1 DEF TailInv
<1>8. InstanceInv'
  BY <1>2 DEF Inv, InstanceInv
<1>9. FitInv'
  BY <1>2, <1>3, <1>4, <1>5, ToolAgentAssumption DEF FitInv
<1>10. ImageInv'
  <2>1. ImagePlaces(<<>>) = {} /\ ImagePlaces(prompt_ids') = {}
    <3>1. DOMAIN prompt_ids' = 1 .. n
      BY <1>4, LenProperties
    <3>2. DOMAIN <<>> = {}
      OBVIOUS
    <3> QED
      BY <1>4, <3>1, <3>2 DEF ImagePlaces
  <2> QED
    BY <1>2, <1>5, <2>1 DEF Inv, ImageInv
<1> QED
  BY <1>6, <1>7, <1>8, <1>9, <1>10 DEF Inv

\* An answer of the policy is put behind, with as many masks and log-probs (HandleGenerating).
LEMMA GeneratingKept == ASSUME Inv, HandleGenerating PROVE Inv'
<1>1. PICK n \in 1 .. Budget, k \in 0 .. MaxCalls :
        /\ prompt_ids' = prompt_ids \o Times(n, "policy")
        /\ response_mask' = response_mask \o Times(n, 1)
        /\ response_logprobs' = response_logprobs \o Times(n, "computed")
        /\ assistant_turns' = assistant_turns + 1
        /\ IF LimitReached(response_mask', assistant_turns')
           THEN state' = "terminated" /\ calls' = <<>>
           ELSE /\ calls' = CallsMade(k)
                /\ state' = IF k > 0 THEN "processing_tools"
                            ELSE IF interaction THEN "interacting" ELSE "terminated"
  BY DEF HandleGenerating
<1>2. /\ UNCHANGED <<interaction, image_data, user_turns, instances, server_version>>
      /\ state = "generating"
      /\ state' \in {"processing_tools", "interacting", "terminated"}
      /\ state' = "interacting" => interaction
  BY <1>1 DEF HandleGenerating
<1>3. /\ prompt_ids \in Seq(Origin) /\ response_mask \in Seq(Bits)
      /\ response_logprobs \in Seq(Logprobs)
      /\ Beside(prompt_ids, response_mask, response_logprobs)
  BY DEF Inv, TypeInv, SeqTypes, TailInv
<1>4. n \in Nat /\ n > 0 /\ k \in Nat
  <2>1. Budget \in Int
    <3>1. Len(prompt_ids) \in Nat
      BY <1>3, LenProperties
    <3> QED
      BY <3>1, ToolAgentAssumption DEF Budget, Smaller
  <2> QED
    BY <2>1, ToolAgentAssumption
<1>5. /\ Times(n, "policy") \in Seq(Origin) /\ Times(n, 1) \in Seq(Bits)
      /\ Times(n, "computed") \in Seq(Logprobs)
      /\ Generated(Times(n, "policy"), Times(n, 1), Times(n, "computed"))
      /\ Len(Times(n, 1)) = n /\ Len(Times(n, "policy")) = n
  BY <1>4, PolicyTokens
<1>6. /\ Beside(prompt_ids', response_mask', response_logprobs')
      /\ Len(prompt_ids') - Len(response_mask') = Len(prompt_ids) - Len(response_mask)
  BY <1>1, <1>3, <1>5, ExtendBeside
<1>7. /\ prompt_ids' \in Seq(Origin) /\ response_mask' \in Seq(Bits)
      /\ response_logprobs' \in Seq(Logprobs)
  BY <1>1, <1>3, <1>5, ConcatProperties
<1>8. response_mask' # <<>>
  <2>1. Len(response_mask') = Len(response_mask) + n /\ Len(response_mask) \in Nat
    BY <1>1, <1>3, <1>5, ConcatProperties, LenProperties
  <2>2. Len(response_mask') # 0
    BY <1>4, <2>1
  <2> QED
    BY <2>2, EmptySeq
<1>9. CallTypes'
  <2>1. CASE calls' = <<>>
    <3>1. Len(<<>>) = 0 /\ <<>> \in Seq(Calls)
      BY EmptySeq
    <3> QED
      BY <2>1, <3>1, ToolAgentAssumption DEF CallTypes
  <2>2. CASE calls' = CallsMade(k)
    <3>1. Smaller(k, MaxParallelCalls) \in Nat /\ Smaller(k, MaxParallelCalls) <= MaxParallelCalls
      BY <1>4, ToolAgentAssumption DEF Smaller
    <3>2. Called \in Calls
      BY DEF Called, Calls
    <3> HIDE DEF Smaller, Called, Calls
    <3>3. /\ CallsMade(k) \in Seq(Calls)
          /\ Len(CallsMade(k)) = Smaller(k, MaxParallelCalls)
      BY <3>1, <3>2, TimesType DEF CallsMade
    <3> QED
      BY <2>2, <3>1, <3>3 DEF CallTypes
  <2> QED
    BY <1>1, <2>1, <2>2
<1>10. TypeInv'
  BY <1>1, <1>2, <1>7, <1>9 DEF Inv, TypeInv, SeqTypes, CountTypes, State
<1>11. TailInv'
  BY <1>2, <1>6, <1>8 DEF TailInv
<1>12. InstanceInv'
  BY <1>2 DEF Inv, InstanceInv
<1>13. FitInv'
  BY <1>2, <1>6 DEF Inv, FitInv
<1>14. ImageInv'
  <2> DEFINE x == Times(n, "policy")
  <2>1. \A i \in 1 .. Len(x) : x[i] = "image" <=> i <= 0
    <3>1. Len(x) = n /\ \A i \in 1 .. n : x[i] = "policy"
      BY <1>4, <1>5, TimesType DEF Origin
    <3> QED
      BY <3>1
  <2>2. x \in Seq(Origin) /\ 0 <= Len(x)
    BY <1>4, <1>5
  <2> HIDE DEF x
  <2>3. Cardinality(ImagePlaces(prompt_ids \o x)) = Cardinality(ImagePlaces(prompt_ids)) + 0
    BY <1>3, <2>1, <2>2, ImagesBehind
  <2>4. Cardinality(ImagePlaces(prompt_ids)) \in Nat
    BY PlacesCounted DEF Inv, TypeInv, SeqTypes
  <2>5. Cardinality(ImagePlaces(prompt_ids \o x)) = Cardinality(ImagePlaces(prompt_ids))
    BY <2>3, <2>4
  <2> QED
    BY <1>1, <1>2, <2>5 DEF Inv, ImageInv, x
<1> QED
  BY <1>10, <1>11, <1>12, <1>13, <1>14 DEF Inv

\* A call of the turn goes on: its instance exists from create to release.
LEMMA CallKept ==
  ASSUME Inv, NEW c \in 1 .. MaxParallelCalls,
         CreateFails(c) \/ Create(c) \/ Execute(c) \/ Release(c)
  PROVE  Inv'
<1>1. /\ state = "processing_tools" /\ state' = state /\ c \in DOMAIN calls
      /\ UNCHANGED <<interaction, agentVars, server_version>>
  BY DEF CreateFails, Create, Execute, Release, Moves
<1>2. /\ calls \in Seq(Calls) /\ Len(calls) <= MaxParallelCalls /\ calls[c] \in Calls
  BY <1>1, ElementOfSeq, LenProperties DEF Inv, TypeInv, CallTypes
<1> DEFINE Put(v) ==
             /\ calls' = [calls EXCEPT ![c] = v]
             /\ \/ v.at = "created" /\ instances' = instances \cup {Instance(c)}
                \/ v.at = "released" /\ calls[c].at = "called" /\ instances' = instances
                \/ v.at = "answered" /\ instances' = instances
                \/ v.at = "released" /\ instances' = instances \ {Instance(c)}
<1>3. PICK v \in Calls : Put(v)
  <2>1. CASE CreateFails(c)
    <3> DEFINE v == [at |-> "released", answer |-> "text"]
    <3>1. v \in Calls
      BY DEF Calls
    <3>2. Put(v)
      BY <2>1 DEF CreateFails, Moves, Becomes
    <3> QED
      BY <3>1, <3>2
  <2>2. CASE Create(c)
    <3> DEFINE v == [at |-> "created", answer |-> "none"]
    <3>1. v \in Calls
      BY DEF Calls
    <3>2. Put(v)
      BY <2>2 DEF Create, Moves, Becomes
    <3> QED
      BY <3>1, <3>2
  <2>3. CASE Execute(c)
    <3>1. PICK a \in {"text", "image", "video"} : Becomes(c, "answered", a)
      BY <2>3 DEF Execute, Answers
    <3> DEFINE v == [at |-> "answered", answer |-> a]
    <3>2. v \in Calls
      BY DEF Calls
    <3>3. Put(v)
      BY <2>3, <3>1 DEF Execute, Becomes
    <3> QED
      BY <3>2, <3>3
  <2>4. CASE Release(c)
    <3> DEFINE v == [at |-> "released", answer |-> calls[c].answer]
    <3>1. v \in Calls
      BY <1>2 DEF Calls
    <3>2. Put(v)
      BY <2>4 DEF Release, Becomes
    <3> QED
      BY <3>1, <3>2
  <2> QED
    BY <2>1, <2>2, <2>3, <2>4
<1>4. CallTypes'
  <2>1. calls' \in Seq(Calls) /\ Len(calls') = Len(calls)
    BY <1>1, <1>2, <1>3, ExceptSeq
  <2> QED
    BY <1>2, <2>1 DEF CallTypes
<1>5. /\ DOMAIN calls' = DOMAIN calls /\ calls'[c] = v
      /\ \A d \in DOMAIN calls : d # c => calls'[d] = calls[d]
  BY <1>1, <1>2, <1>3
<1>6. InstanceInv'
  <2>1. instances \subseteq {Instance(d) : d \in Held}
    BY DEF Inv, InstanceInv
  <2>2. ASSUME NEW x \in instances' PROVE x \in {Instance(d) : d \in Held'}
    <3>1. CASE x = Instance(c)
      <4>1. v.at \in {"created", "answered"}
        <5>1. CASE calls[c].at = "called" /\ instances' = instances /\ v.at = "released"
          <6>1. PICK d \in Held : x = Instance(d)
            BY <2>1, <2>2, <5>1
          <6>2. d = c
            BY <3>1, <6>1 DEF Instance
          <6> QED
            BY <5>1, <6>1, <6>2 DEF Held
        <5> QED
          BY <1>3, <2>2, <3>1, <5>1
      <4>2. c \in Held'
        BY <1>1, <1>5, <4>1 DEF Held
      <4> QED
        BY <3>1, <4>2
    <3>2. CASE x # Instance(c)
      <4>1. x \in instances
        BY <1>3, <2>2, <3>2
      <4>2. PICK d \in Held : x = Instance(d)
        BY <2>1, <4>1
      <4>3. d \in Held'
        BY <1>5, <3>2, <4>2 DEF Held
      <4> QED
        BY <4>2, <4>3
    <3> QED
      BY <3>1, <3>2
  <2>3. \A d : Instance(d)' = Instance(d)
    BY <1>1 DEF Instance, agentVars
  <2> QED
    BY <1>1, <2>2, <2>3 DEF InstanceInv
<1>7. SeqTypes' /\ TailInv' /\ FitInv' /\ ImageInv'
  BY <1>1, SequencesAlone DEF Inv, TypeInv, agentVars
<1>8. CountTypes'
  BY <1>1 DEF Inv, TypeInv, CountTypes, agentVars
<1> QED
  BY <1>4, <1>6, <1>7, <1>8 DEF Inv, TypeInv

\* A turn of tools ends: it is put behind, or the response would be too long.
LEMMA ToolsKept == ASSUME Inv, HandleProcessingTools PROVE Inv'
<1>1. PICK n \in 1 .. MaxUserTokens, images \in ImagesOf(Placeholders) :
        LET long == TooLongWith(ToolTokens(n)) IN
          /\ image_data' = ImagesAfter(long, images)
          /\ IF long THEN /\ state' = "terminated"
                          /\ UNCHANGED <<prompt_ids, response_mask, response_logprobs, user_turns>>
                     ELSE state' = "generating" /\ Extend(ToolTokens(n))
  BY DEF HandleProcessingTools
<1> DEFINE ids == ToolTokens(n)
           long == TooLongWith(ids)
<1>2. /\ Gathered /\ state = "processing_tools" /\ calls' = <<>>
      /\ UNCHANGED <<interaction, assistant_turns, extra_fields, instances, server_version>>
  BY DEF HandleProcessingTools, Gathered
<1>3. /\ Placeholders \in Nat /\ ids \in Seq(Origin) /\ Len(ids) = Placeholders + n /\ n \in Nat /\ n > 0
      /\ \A i \in 1 .. Len(ids) : ids[i] = IF i <= Placeholders THEN "image" ELSE "tool"
  <2>1. n \in Nat /\ n > 0
    BY ToolAgentAssumption
  <2> QED
    BY <2>1, ToolTurn DEF Inv, TypeInv
<1>4. InstanceInv'
  <2>1. Held = {}
    BY <1>2 DEF Gathered, Held
  <2>2. instances = {}
    BY <2>1 DEF Inv, InstanceInv
  <2> QED
    BY <1>2, <2>2 DEF InstanceInv
<1>5. CallTypes'
  <2>1. Len(<<>>) = 0 /\ <<>> \in Seq(Calls)
    BY EmptySeq
  <2> QED
    BY <1>2, <2>1, ToolAgentAssumption DEF CallTypes
<1>6. CASE long
  <2>1. /\ UNCHANGED <<interaction, prompt_ids, response_mask, response_logprobs, image_data>>
        /\ state' = "terminated" /\ user_turns' = user_turns
    BY <1>1, <1>2, <1>6 DEF ImagesAfter
  <2>2. SeqTypes' /\ TailInv' /\ FitInv' /\ ImageInv'
    BY <1>2, <2>1, SequencesAlone DEF Inv, TypeInv
  <2>3. CountTypes'
    BY <1>2, <2>1 DEF Inv, TypeInv, CountTypes
  <2> QED
    BY <1>4, <1>5, <2>2, <2>3 DEF Inv, TypeInv
<1>7. CASE ~long
  <2>1. state' = "generating" /\ Extend(ids) /\ image_data' = image_data + images
    BY <1>1, <1>7 DEF ImagesAfter
  <2> HIDE DEF ids
  <2>2. /\ SeqTypes' /\ TailInv' /\ user_turns' \in Nat
        /\ Len(prompt_ids') - Len(response_mask') <= PromptLength
        /\ Len(response_mask') = Len(response_mask) + Len(ids)
    <3>1. \A i \in 1 .. Len(ids) : ids[i] \notin {"prompt", "policy"}
      BY <1>3
    <3> QED
      BY <1>2, <1>3, <2>1, <3>1, Extended DEF Inv, TypeInv
  <2>3. FitInv'
    <3>1. Len(response_mask') < ResponseLength
      <4>1. ~(Len(response_mask) + Len(ids) >= ResponseLength)
        BY <1>7 DEF TooLongWith, ids
      <4>2. Len(response_mask) \in Nat /\ Len(ids) \in Nat
        BY <1>3, LenProperties DEF Inv, TypeInv, SeqTypes
      <4> QED
        BY <2>2, <4>1, <4>2, ToolAgentAssumption
    <3> QED
      BY <2>1, <2>2, <3>1 DEF FitInv
  <2>4. ImageInv'
    <3>1. prompt_ids' = prompt_ids \o ids /\ prompt_ids \in Seq(Origin)
      BY <2>1 DEF Extend, Inv, TypeInv, SeqTypes
    <3>2. Placeholders <= Len(ids)
      BY <1>3
    <3>3. \A i \in 1 .. Len(ids) : ids[i] = "image" <=> i <= Placeholders
      BY <1>3
    <3>4. Cardinality(ImagePlaces(prompt_ids \o ids))
            = Cardinality(ImagePlaces(prompt_ids)) + Placeholders
      BY <1>3, <3>1, <3>2, <3>3, ImagesBehind
    <3>5. Cardinality(ImagePlaces(prompt_ids)) \in Nat
      BY <3>1, PlacesCounted
    <3>6. image_data \in ImagesOf(Cardinality(ImagePlaces(prompt_ids)))
      BY DEF Inv, ImageInv
    <3>7. image_data + images \in ImagesOf(Cardinality(ImagePlaces(prompt_ids)) + Placeholders)
      BY <1>3, <3>5, <3>6, MoreLists
    <3> QED
      BY <2>1, <3>1, <3>4, <3>7 DEF ImageInv
  <2>5. CountTypes'
    <3>1. images \in Nat
      BY <1>3, ListsCounted
    <3>2. image_data + images \in Nat
      BY <3>1 DEF Inv, TypeInv, CountTypes
    <3> QED
      BY <1>2, <2>1, <2>2, <3>2 DEF Inv, TypeInv, CountTypes
  <2> QED
    BY <1>4, <1>5, <2>2, <2>3, <2>4, <2>5 DEF Inv, TypeInv
<1> QED
  BY <1>6, <1>7

\* A user's turn is put behind, whatever its length (HandleInteracting).
LEMMA InteractionKept == ASSUME Inv, HandleInteracting PROVE Inv'
<1>1. PICK n \in 1 .. MaxUserTokens : Extend(Times(n, "user"))
  BY DEF HandleInteracting
<1> DEFINE ids == Times(n, "user")
<1>2. /\ state = "interacting" /\ state' \in {"generating", "terminated"}
      /\ UNCHANGED <<interaction, image_data, assistant_turns, extra_fields, calls, instances,
                     server_version>>
  BY DEF HandleInteracting
<1>3. n \in Nat
  BY ToolAgentAssumption
<1>4. ids \in Seq(Origin) /\ Len(ids) = n /\ \A i \in 1 .. Len(ids) : ids[i] = "user"
  BY <1>3, TimesType DEF Origin
<1> HIDE DEF ids
<1>5. /\ SeqTypes' /\ TailInv' /\ user_turns' \in Nat
      /\ Len(prompt_ids') - Len(response_mask') <= PromptLength
  <2>1. Extend(ids)
    BY <1>1 DEF ids
  <2>2. \A i \in 1 .. Len(ids) : ids[i] \notin {"prompt", "policy"}
    BY <1>4
  <2> QED
    BY <1>2, <1>4, <2>1, <2>2, Extended DEF Inv, TypeInv
<1>6. FitInv'
  BY <1>2, <1>5 DEF Inv, FitInv
<1>7. InstanceInv'
  BY <1>2 DEF Inv, InstanceInv
<1>8. ImageInv'
  <2>1. prompt_ids' = prompt_ids \o ids /\ prompt_ids \in Seq(Origin)
    BY <1>1 DEF Extend, Inv, TypeInv, SeqTypes, ids
  <2>2. \A i \in 1 .. Len(ids) : ids[i] = "image" <=> i <= 0
    BY <1>4
  <2>3. 0 <= Len(ids)
    BY <1>3, <1>4
  <2>4. Cardinality(ImagePlaces(prompt_ids \o ids)) = Cardinality(ImagePlaces(prompt_ids)) + 0
    BY <1>4, <2>1, <2>2, <2>3, ImagesBehind
  <2>5. Cardinality(ImagePlaces(prompt_ids)) \in Nat
    BY PlacesCounted DEF Inv, TypeInv, SeqTypes
  <2>6. Cardinality(ImagePlaces(prompt_ids \o ids)) = Cardinality(ImagePlaces(prompt_ids))
    BY <2>4, <2>5
  <2> QED
    BY <1>2, <2>1, <2>6 DEF Inv, ImageInv
<1>9. CallTypes' /\ CountTypes'
  BY <1>2, <1>5 DEF Inv, TypeInv, CallTypes, CountTypes
<1> QED
  BY <1>5, <1>6, <1>7, <1>8, <1>9 DEF Inv, TypeInv

\* Exceptions, and an update of the weights.
LEMMA RestKept ==
  ASSUME Inv, GenerateRaises \/ ProcessingRaises \/ Sync \/ UNCHANGED vars
  PROVE  Inv'
<1>1. /\ UNCHANGED <<interaction, agentVars, instances>>
      /\ state' \in {state, "raised"} /\ calls' \in {calls, <<>>}
  BY DEF GenerateRaises, ProcessingRaises, Sync, vars
<1>2. SeqTypes' /\ TailInv' /\ FitInv' /\ ImageInv'
  BY <1>1, SequencesAlone DEF Inv, TypeInv, agentVars
<1>3. CallTypes'
  <2>1. Len(<<>>) = 0 /\ <<>> \in Seq(Calls)
    BY EmptySeq
  <2>2. CASE calls' = calls
    BY <2>2 DEF Inv, TypeInv, CallTypes
  <2>3. CASE calls' = <<>>
    BY <2>1, <2>3, ToolAgentAssumption DEF CallTypes
  <2> QED
    BY <1>1, <2>2, <2>3
<1>4. CountTypes'
  <2>1. server_version' \in 1 .. MaxVersion
    <3>1. CASE Sync
      BY <3>1, ToolAgentAssumption DEF Sync, Inv, TypeInv, CountTypes
    <3>2. CASE GenerateRaises \/ ProcessingRaises \/ UNCHANGED vars
      BY <3>2 DEF GenerateRaises, ProcessingRaises, vars, Inv, TypeInv, CountTypes
    <3> QED
      BY <3>1, <3>2
  <2> QED
    BY <1>1, <2>1 DEF Inv, TypeInv, CountTypes, agentVars
<1>5. InstanceInv'
  <2>1. CASE ProcessingRaises
    <3>1. Held = {} /\ state' = "raised" /\ instances' = instances
      BY <2>1 DEF ProcessingRaises, Gathered, Held
    <3> QED
      BY <3>1 DEF Inv, InstanceInv
  <2>2. CASE GenerateRaises \/ Sync \/ UNCHANGED vars
    <3>1. /\ UNCHANGED <<instances, calls, assistant_turns>>
          /\ state' = state \/ (state = "generating" /\ state' = "raised")
      BY <2>2 DEF GenerateRaises, Sync, vars, agentVars
    <3> QED
      BY <3>1 DEF Inv, InstanceInv, Held, Instance
  <2> QED
    BY <2>1, <2>2
<1> QED
  BY <1>2, <1>3, <1>4, <1>5 DEF Inv, TypeInv

-----------------------------------------------------------------------------
\* The theorems.

\* A trajectory begins without tokens, images and instances.
LEMMA Initially == AgentInit => Inv
<1> SUFFICES ASSUME AgentInit PROVE Inv
  OBVIOUS
<1>1. /\ state = "pending" /\ prompt_ids = <<>> /\ response_mask = <<>> /\ response_logprobs = <<>>
      /\ image_data = 0 /\ user_turns = 0 /\ assistant_turns = 0
      /\ calls = <<>> /\ instances = {} /\ server_version = 1 /\ interaction \in BOOLEAN
  BY ToolAgentAssumption DEF AgentInit
<1>2. Len(<<>>) = 0 /\ DOMAIN <<>> = {} /\ \A S : <<>> \in Seq(S)
  OBVIOUS
<1>3. SeqTypes
  BY <1>1, <1>2 DEF SeqTypes, State
<1>4. CountTypes
  BY <1>1, ToolAgentAssumption DEF CountTypes
<1>5. CallTypes
  BY <1>1, <1>2, ToolAgentAssumption DEF CallTypes
<1>6. TailInv
  BY <1>1, <1>2 DEF TailInv, Beside
<1>7. InstanceInv
  BY <1>1 DEF InstanceInv
<1>8. FitInv
  BY <1>1, <1>2, ToolAgentAssumption DEF FitInv
<1>9. ImageInv
  <2>1. ImagePlaces(<<>>) = {}
    BY <1>2 DEF ImagePlaces
  <2> QED
    BY <1>1, <2>1, NoLists, FS_EmptySet DEF ImageInv
<1> QED
  BY <1>3, <1>4, <1>5, <1>6, <1>7, <1>8, <1>9 DEF Inv, TypeInv

\* Types, the sequences beside each other, the instances, the lengths and the images are
\* kept by every handler and every call of a turn, whatever the tools answer.
THEOREM TrajectoryInv == Spec => []Inv
<1>1. Inv /\ [Next]_vars => Inv'
  <2> SUFFICES ASSUME Inv, [Next]_vars PROVE Inv'
    OBVIOUS
  <2> QED
    BY PendingKept, GeneratingKept, CallKept, ToolsKept, InteractionKept, RestKept DEF Next, Step
<1> QED
  BY <1>1, Initially, PTL DEF Spec

\* Every trajectory is well typed, and no turn has more than max_parallel_calls calls.
THEOREM TrajectoryTypeCorrect == Spec => []TypeOK
<1>1. Inv => TypeOK
  <2> SUFFICES ASSUME Inv PROVE TypeOK
    OBVIOUS
  <2>1. \A c \in DOMAIN calls : calls[c] \in Calls
    BY ElementOfSeq, LenProperties DEF Inv, TypeInv, CallTypes
  <2> QED
    BY <2>1 DEF TypeOK, Inv, TypeInv, SeqTypes, CountTypes, CallTypes, Bits, Logprobs
<1> QED
  BY <1>1, TrajectoryInv, PTL

\* No tool instance outlives its turn, whichever of its calls fails (the finally clause of
\* _call_tool, under asyncio.gather).
THEOREM Released == Spec => []InstancesReleased
<1>1. Inv => InstancesReleased
  BY DEF Inv, InstanceInv, InstancesReleased
<1> QED
  BY <1>1, TrajectoryInv, PTL

\* The images handed to the server are those of the placeholders in the prompt, one for each
\* where every answer brings one: a turn cut off for its length leaves neither.
THEOREM ImagesStay == Spec => []ImagesMatch
<1>1. Inv => ImagesMatch
  BY DEF Inv, ImageInv, ImagePlaces, ImagesMatch
<1> QED
  BY <1>1, TrajectoryInv, PTL

\* Without an interaction, every request of a turn fits the server's context.
THEOREM TurnsFit == Spec => []RequestFits
<1>1. Inv => RequestFits
  <2> SUFFICES ASSUME Inv, state = "generating", ~interaction
               PROVE  Len(prompt_ids) < PromptLength + ResponseLength
    BY DEF RequestFits, Fits
  <2>1. Len(prompt_ids) \in Nat /\ Len(response_mask) \in Nat
    BY LenProperties DEF Inv, TypeInv, SeqTypes
  <2>2. /\ Len(prompt_ids) - Len(response_mask) <= PromptLength
        /\ Len(response_mask) < ResponseLength
    BY DEF Inv, FitInv
  <2> QED
    BY <2>1, <2>2, ToolAgentAssumption
<1> QED
  BY <1>1, TrajectoryInv, PTL

\* s[:n].
LEMMA Cut ==
  ASSUME NEW S, NEW s \in Seq(S), NEW n \in Nat
  PROVE  /\ First(s, n) \in Seq(S) /\ Len(First(s, n)) = Smaller(Len(s), n)
         /\ \A i \in 1 .. Smaller(Len(s), n) : First(s, n)[i] = s[i]
<1>1. Len(s) \in Nat
  BY LenProperties
<1>2. CASE Len(s) <= n
  BY <1>1, <1>2 DEF First, Smaller
<1>3. CASE ~(Len(s) <= n)
  <2>1. /\ SubSeq(s, 1, n) \in Seq(S) /\ Len(SubSeq(s, 1, n)) = n
        /\ \A i \in 1 .. n : SubSeq(s, 1, n)[i] = s[i]
    BY <1>1, <1>3
  <2> QED
    BY <1>3, <2>1 DEF First, Smaller
<1> QED
  BY <1>2, <1>3

\* s[-n:].
LEMMA Tailed ==
  ASSUME NEW S, NEW s \in Seq(S), NEW n \in Nat, 0 < n, n <= Len(s)
  PROVE  /\ Last(s, n) \in Seq(S) /\ Len(Last(s, n)) = n
         /\ \A i \in 1 .. n : Last(s, n)[i] = s[Len(s) - n + i]
<1> DEFINE l == Len(s)
           a == l - n + 1
           t == SubSeq(s, a, l)
<1>1. l \in Nat /\ a \in 1 .. l /\ Last(s, n) = t
  BY LenProperties DEF Last
<1>2. t \in Seq(S) /\ Len(t) = l - a + 1 /\ \A i \in 1 .. l - a + 1 : t[i] = s[a + i - 1]
  BY <1>1
<1>3. l - a + 1 = n /\ \A i \in 1 .. n : a + i - 1 = l - n + i
  <2> HIDE DEF l
  <2> QED
    BY <1>1
<1> HIDE DEF a, t
<1> QED
  BY <1>1, <1>2, <1>3

\* What run returns is aligned: token, mask and log-prob stand side by side, 1 and computed
\* exactly for what the policy generated, and the prompt is the prompt.
THEOREM Aligned == Spec => []OutputAligned
<1>1. Inv => OutputAligned
  <2> SUFFICES ASSUME Inv, state = "terminated"
               PROVE  /\ \A i \in DOMAIN Output.prompt_ids : Output.prompt_ids[i] = "prompt"
                      /\ Len(Output.response_ids) = Len(Output.response_mask)
                      /\ Len(Output.response_logprobs) = Len(Output.response_mask)
                      /\ \A i \in DOMAIN Output.response_mask :
                           /\ Output.response_ids[i] # "prompt"
                           /\ Output.response_mask[i] = 1 <=> Output.response_ids[i] = "policy"
                           /\ Output.response_mask[i] = 1
                                <=> Output.response_logprobs[i] = "computed"
    BY DEF OutputAligned
  <2> DEFINE p == prompt_ids
             m == response_mask
             l == response_logprobs
             n == Len(m)
             k == Len(p)
             o == First(p, k - n)
             t == Last(p, n)
             w == Smaller(n, ResponseLength)
             x == First(t, ResponseLength)
             y == First(m, ResponseLength)
             z == First(l, ResponseLength)
  <2>1. /\ p \in Seq(Origin) /\ m \in Seq(Bits) /\ l \in Seq(Logprobs)
        /\ Beside(p, m, l) /\ m # <<>>
    BY DEF Inv, TypeInv, SeqTypes, TailInv
  <2>2. Output = [prompt_ids |-> o, response_ids |-> x, response_mask |-> y, response_logprobs |-> z]
    BY DEF Output, n_response
  <2>3. n \in Nat /\ 0 < n /\ n <= k /\ k \in Nat /\ Len(l) = n /\ ResponseLength \in Nat
    <3>1. n \in Nat /\ k \in Nat /\ ResponseLength \in Nat
      BY <2>1, LenProperties, ToolAgentAssumption
    <3>2. n # 0
      BY <2>1, EmptySeq
    <3> QED
      BY <2>1, <3>1, <3>2 DEF Beside
  <2>4. \A i \in 1 .. k - n : p[i] = "prompt"
    BY <2>1 DEF Beside
  <2>5. \A i \in 1 .. n : /\ p[k - n + i] # "prompt"
                          /\ m[i] = 1 <=> p[k - n + i] = "policy"
                          /\ m[i] = 1 <=> l[i] = "computed"
    BY <2>1 DEF Beside, Kept
  <2>6. \A i \in DOMAIN o : o[i] = "prompt"
    <3>1. k - n \in Nat /\ Smaller(k, k - n) = k - n
      BY <2>3 DEF Smaller
    <3>2. /\ o \in Seq(Origin) /\ Len(o) = k - n /\ \A i \in 1 .. k - n : o[i] = p[i]
      BY <2>1, <3>1, Cut
    <3>3. DOMAIN o = 1 .. k - n
      BY <3>2, LenProperties
    <3> HIDE DEF o, p
    <3> QED
      BY <2>4, <3>2, <3>3
  <2>7. t \in Seq(Origin) /\ Len(t) = n /\ \A i \in 1 .. n : t[i] = p[k - n + i]
    BY <2>1, <2>3, Tailed
  <2>8. w \in Nat /\ w <= n
    BY <2>3 DEF Smaller
  <2> HIDE DEF t
  <2>9. x \in Seq(Origin) /\ Len(x) = w /\ \A i \in 1 .. w : x[i] = t[i]
    BY <2>3, <2>7, Cut
  <2>10. y \in Seq(Bits) /\ Len(y) = w /\ \A i \in 1 .. w : y[i] = m[i]
    BY <2>1, <2>3, Cut
  <2>11. z \in Seq(Logprobs) /\ Len(z) = w /\ \A i \in 1 .. w : z[i] = l[i]
    BY <2>1, <2>3, Cut
  <2>12. DOMAIN y = 1 .. w
    BY <2>10, LenProperties
  <2> HIDE DEF o, x, y, z, w, n, k, p, m, l
  <2>13. \A i \in 1 .. w : /\ x[i] # "prompt"
                           /\ y[i] = 1 <=> x[i] = "policy"
                           /\ y[i] = 1 <=> z[i] = "computed"
    <3> SUFFICES ASSUME NEW i \in 1 .. w
                 PROVE  /\ x[i] # "prompt"
                        /\ y[i] = 1 <=> x[i] = "policy"
                        /\ y[i] = 1 <=> z[i] = "computed"
      OBVIOUS
    <3>1. i \in 1 .. n
      BY <2>3, <2>8
    <3>2. x[i] = p[k - n + i] /\ y[i] = m[i] /\ z[i] = l[i]
      BY <2>7, <2>9, <2>10, <2>11, <3>1
    <3> QED
      BY <2>5, <3>1, <3>2
  <2> QED
    BY <2>2, <2>6, <2>9, <2>10, <2>11, <2>12, <2>13
<1> QED
  BY <1>1, TrajectoryInv, PTL

-----------------------------------------------------------------------------
\* The number of turns.

\* A turn of the policy is followed by one of the tools or of a user, and each adds to the
\* mask.  After an answer that does not end the trajectory there is room in
\* response_length, and a limit on the turns of a side is not reached.
Asked == state \in {"pending", "generating"}
Answered == state \in {"processing_tools", "interacting"}
TurnInv ==
  /\ assistant_turns + user_turns <= n_response
  /\ assistant_turns \in {user_turns, user_turns + 1} /\ 2 * user_turns <= ResponseLength
  /\ Asked => assistant_turns = user_turns
  /\ Answered => assistant_turns = user_turns + 1 /\ n_response < ResponseLength
  /\ MaxAssistantTurns > 0 =>
       /\ assistant_turns <= MaxAssistantTurns
       /\ Asked \/ Answered => assistant_turns < MaxAssistantTurns
  /\ MaxUserTurns > 0 =>
       user_turns <= MaxUserTurns /\ (Answered => user_turns < MaxUserTurns)

\* Turns and lengths are numbers.
LEMMA TurnTypes ==
  ASSUME Inv
  PROVE  /\ user_turns \in Nat /\ assistant_turns \in Nat /\ n_response \in Nat
         /\ {MaxAssistantTurns, MaxUserTurns, ResponseLength} \subseteq Nat
<1>1. n_response \in Nat
  BY LenProperties DEF Inv, TypeInv, SeqTypes, n_response
<1> QED
  BY <1>1, ToolAgentAssumption DEF Inv, TypeInv, CountTypes

\* A generation has at least its stop token, and ends the trajectory at a limit
\* (HandleGenerating).
LEMMA GeneratingTurn == ASSUME Inv, TurnInv, HandleGenerating PROVE TurnInv'
<1>1. PICK n \in 1 .. Budget, k \in 0 .. MaxCalls :
        /\ response_mask' = response_mask \o Times(n, 1)
        /\ assistant_turns' = assistant_turns + 1
        /\ IF LimitReached(response_mask', assistant_turns')
           THEN state' = "terminated"
           ELSE state' = IF k > 0 THEN "processing_tools"
                         ELSE IF interaction THEN "interacting" ELSE "terminated"
  BY DEF HandleGenerating
<1>2. state = "generating" /\ user_turns' = user_turns
  BY DEF HandleGenerating
<1>3. n \in Nat /\ n > 0
  <2>1. Budget \in Int
    BY LenProperties, ToolAgentAssumption DEF Budget, Smaller, Inv, TypeInv, SeqTypes
  <2> QED
    BY <2>1
<1>4. n_response' = n_response + n
  <2>1. Times(n, 1) \in Seq(Bits) /\ Len(Times(n, 1)) = n
    BY <1>3, TimesType DEF Bits
  <2> QED
    BY <1>1, <2>1, ConcatProperties DEF n_response, Inv, TypeInv, SeqTypes
<1>5. /\ user_turns \in Nat /\ assistant_turns \in Nat /\ n_response \in Nat
      /\ {MaxAssistantTurns, MaxUserTurns, ResponseLength} \subseteq Nat
  BY TurnTypes
<1>6. /\ assistant_turns = user_turns /\ assistant_turns + user_turns <= n_response
      /\ 2 * user_turns <= ResponseLength
      /\ MaxAssistantTurns > 0 => assistant_turns < MaxAssistantTurns
      /\ MaxUserTurns > 0 => user_turns <= MaxUserTurns
  BY <1>2 DEF TurnInv, Asked
<1>7. ~Asked'
  BY <1>1 DEF Asked
<1>8. Answered' =>
        /\ n_response' < ResponseLength
        /\ MaxAssistantTurns > 0 => assistant_turns' < MaxAssistantTurns
        /\ MaxUserTurns > 0 => user_turns < MaxUserTurns
  <2> SUFFICES ASSUME Answered'
               PROVE  /\ n_response' < ResponseLength
                      /\ MaxAssistantTurns > 0 => assistant_turns' < MaxAssistantTurns
                      /\ MaxUserTurns > 0 => user_turns < MaxUserTurns
    OBVIOUS
  <2>1. ~LimitReached(response_mask', assistant_turns')
    BY <1>1 DEF Answered
  <2>2. /\ ~(n_response' >= ResponseLength)
        /\ ~(MaxAssistantTurns > 0 /\ assistant_turns' >= MaxAssistantTurns)
        /\ ~(MaxUserTurns > 0 /\ user_turns >= MaxUserTurns)
    BY <2>1 DEF LimitReached, n_response
  <2>3. n_response' \in Nat /\ assistant_turns' \in Nat
    BY <1>1, <1>3, <1>4, <1>5
  <2> QED
    BY <1>5, <2>2, <2>3
<1>9. assistant_turns' = assistant_turns + 1
  BY <1>1
<1> QED
  BY <1>2, <1>3, <1>4, <1>5, <1>6, <1>7, <1>8, <1>9 DEF TurnInv

\* A turn that is put behind (Extend) follows an answer and adds at least a token.
LEMMA ExtendTurn ==
  ASSUME Inv, TurnInv, Answered, NEW ids \in Seq(Origin), Len(ids) > 0,
         \A i \in 1 .. Len(ids) : ids[i] \notin {"prompt", "policy"}, Extend(ids),
         interaction' = interaction, assistant_turns' = assistant_turns,
         state' \in {"generating", "terminated"}
  PROVE  TurnInv'
<1>1. n_response' = n_response + Len(ids) /\ Len(ids) \in Nat
  <2>1. Len(response_mask') = Len(response_mask) + Len(ids)
    BY Extended DEF Inv, TypeInv, Answered
  <2> QED
    BY <2>1, LenProperties DEF n_response
<1>2. user_turns' = user_turns + 1
  BY DEF Extend
<1>3. /\ user_turns \in Nat /\ assistant_turns \in Nat /\ n_response \in Nat
      /\ {MaxAssistantTurns, MaxUserTurns, ResponseLength} \subseteq Nat
  BY TurnTypes
<1>4. /\ assistant_turns = user_turns + 1 /\ n_response < ResponseLength
      /\ assistant_turns + user_turns <= n_response
      /\ MaxAssistantTurns > 0 => assistant_turns < MaxAssistantTurns
      /\ MaxUserTurns > 0 => user_turns < MaxUserTurns
  BY DEF TurnInv
<1>5. ~Answered'
  BY DEF Answered
<1> QED
  BY <1>1, <1>2, <1>3, <1>4, <1>5 DEF TurnInv

\* A turn of tools has at least its template's tokens, or it ends the trajectory.
LEMMA ToolsTurn == ASSUME Inv, TurnInv, HandleProcessingTools PROVE TurnInv'
<1>1. PICK n \in 1 .. MaxUserTokens :
        IF TooLongWith(ToolTokens(n))
        THEN state' = "terminated" /\ UNCHANGED <<response_mask, user_turns>>
        ELSE state' = "generating" /\ Extend(ToolTokens(n))
  BY DEF HandleProcessingTools
<1>2. /\ state = "processing_tools" /\ assistant_turns' = assistant_turns
      /\ interaction' = interaction
  BY DEF HandleProcessingTools, Gathered
<1>3. CASE TooLongWith(ToolTokens(n))
  <2>1. ~Asked' /\ ~Answered' /\ n_response' = n_response /\ user_turns' = user_turns
    BY <1>1, <1>3 DEF Asked, Answered, n_response
  <2> QED
    BY <1>2, <2>1 DEF TurnInv
<1>4. CASE ~TooLongWith(ToolTokens(n))
  <2> DEFINE ids == ToolTokens(n)
  <2>1. n \in Nat /\ n > 0
    BY ToolAgentAssumption
  <2>2. /\ Placeholders \in Nat /\ ids \in Seq(Origin) /\ Len(ids) = Placeholders + n
        /\ \A i \in 1 .. Len(ids) : ids[i] = IF i <= Placeholders THEN "image" ELSE "tool"
    BY <2>1, ToolTurn DEF Inv, TypeInv
  <2>3. state' = "generating" /\ Extend(ids)
    BY <1>1, <1>4
  <2> HIDE DEF ids
  <2>4. Len(ids) > 0 /\ \A i \in 1 .. Len(ids) : ids[i] \notin {"prompt", "policy"}
    BY <2>1, <2>2
  <2> QED
    BY <1>2, <2>2, <2>3, <2>4, ExtendTurn DEF Answered
<1> QED
  BY <1>3, <1>4

\* A user's turn (HandleInteracting), whatever its length.
LEMMA InteractionTurn == ASSUME Inv, TurnInv, HandleInteracting PROVE TurnInv'
<1>1. PICK n \in 1 .. MaxUserTokens : Extend(Times(n, "user"))
  BY DEF HandleInteracting
<1>2. /\ state = "interacting" /\ state' \in {"generating", "terminated"}
      /\ UNCHANGED <<interaction, assistant_turns>>
  BY DEF HandleInteracting
<1> DEFINE ids == Times(n, "user")
<1>3. n \in Nat /\ n > 0
  BY ToolAgentAssumption
<1>4. ids \in Seq(Origin) /\ Len(ids) = n /\ \A i \in 1 .. Len(ids) : ids[i] = "user"
  BY <1>3, TimesType DEF Origin
<1>5. Extend(ids)
  BY <1>1
<1> HIDE DEF ids
<1>6. Len(ids) > 0 /\ \A i \in 1 .. Len(ids) : ids[i] \notin {"prompt", "policy"}
  BY <1>3, <1>4
<1> QED
  BY <1>2, <1>4, <1>5, <1>6, ExtendTurn DEF Answered

\* No other step touches the mask or the number of turns.
LEMMA OtherTurn ==
  ASSUME TurnInv, UNCHANGED <<response_mask, user_turns, assistant_turns>>,
         \/ state' = state \/ state' = "raised"
         \/ state = "pending" /\ state' = "generating"
  PROVE  TurnInv'
<1>1. n_response' = n_response
  BY DEF n_response
<1>2. (Asked' => Asked) /\ (Answered' => Answered)
  BY DEF Asked, Answered
<1> QED
  BY <1>1, <1>2 DEF TurnInv

\* A trajectory ends after a bounded number of turns, whatever the policy, the tools and the
\* user answer: turns of the other side are at most half of response_length, the policy has
\* one more at most, and neither goes over its own limit (max_assistant_turns,
\* max_user_turns), although the limits are looked at only after a generation.
TurnsBounded ==
  /\ assistant_turns <= user_turns + 1 /\ 2 * user_turns <= ResponseLength
  /\ MaxAssistantTurns > 0 => assistant_turns <= MaxAssistantTurns
  /\ MaxUserTurns > 0 => user_turns <= MaxUserTurns

\* The limits on turns and lengths in HandleGenerating and HandleProcessingTools end every
\* trajectory: its turns are bounded.
THEOREM TurnsEnd == Spec => []TurnsBounded
<1>1. AgentInit => TurnInv
  <2> SUFFICES ASSUME AgentInit PROVE TurnInv
    OBVIOUS
  <2>1. user_turns = 0 /\ assistant_turns = 0 /\ n_response = 0 /\ state = "pending"
    BY EmptySeq DEF AgentInit, n_response
  <2> QED
    BY <2>1, ToolAgentAssumption DEF TurnInv, Answered
<1>2. Inv /\ TurnInv /\ [Next]_vars => TurnInv'
  <2> SUFFICES ASSUME Inv, TurnInv, [Next]_vars PROVE TurnInv'
    OBVIOUS
  <2>1. CASE HandleGenerating
    BY <2>1, GeneratingTurn
  <2>2. CASE HandleProcessingTools
    BY <2>2, ToolsTurn
  <2>3. CASE HandleInteracting
    BY <2>3, InteractionTurn
  <2>4. CASE HandlePending
    BY <2>4, OtherTurn DEF HandlePending
  <2>5. CASE GenerateRaises \/ ProcessingRaises \/ Sync \/ UNCHANGED vars
    BY <2>5, OtherTurn DEF GenerateRaises, ProcessingRaises, Sync, vars, agentVars
  <2>6. ASSUME NEW c \in 1 .. MaxParallelCalls,
               CreateFails(c) \/ Create(c) \/ Execute(c) \/ Release(c)
        PROVE  TurnInv'
    BY <2>6, OtherTurn DEF CreateFails, Create, Execute, Release, agentVars
  <2> QED
    BY <2>1, <2>2, <2>3, <2>4, <2>5, <2>6 DEF Next, Step
<1>3. Inv /\ TurnInv => TurnsBounded
  BY TurnTypes DEF TurnInv, TurnsBounded
<1> QED
  BY <1>1, <1>2, <1>3, TrajectoryInv, PTL DEF Spec
==============================================================================
