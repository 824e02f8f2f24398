------------------------- MODULE CapturedTextProofs -------------------------
(***************************************************************************)
(* What the log shows of a command's texts, for every limit, every way of  *)
(* cutting a stream into writes, every environment and every set of rules. *)
(*                                                                         *)
(* The capture buffer keeps the beginning of the stream and says truly     *)
(* whether there was more. In a queued entry a secret value can be left    *)
(* only in a field that redactLogEntry passes over (ScrubbedOutsideCopies) *)
(* and nothing but secret values is gone (NothingElseIsLost).              *)
(*                                                                         *)
(* The last two are facts about Replace. A run of the replacer is followed *)
(* character by character (Runs). What is left of a text is traced back to *)
(* the text: an occurrence of a secret in the result, none of it a mask,   *)
(* would have been copied from an occurrence in the text, which the        *)
(* replacer looked at from its first character and would have covered.     *)
(* The recursive functions are shown to have a value by Iterated, and      *)
(* facts about their steps are counted up by CountingUp.                   *)
(***************************************************************************)
EXTENDS CapturedText, SequenceTheorems, WellFoundedInduction, TLAPS

USE MinScrubAssumption

\* A set of numbers has a least one.
LEMMA LeastOf ==
  ASSUME NEW S \in SUBSET Nat, S # {}
  PROVE  \E n \in S : \A m \in S : n <= m
  <1>1. PICK n \in S : \A m \in S : <<m, n>> \notin OpToRel(<, Nat)
    BY NatLessThanWellFounded, WFMin
  <1>2. \A m \in S : ~(m < n)
    BY <1>1 DEF OpToRel
  <1> QED
    BY <1>2

\* What holds of 0, and of a number when it holds of the one before.
LEMMA CountingUp ==
  ASSUME NEW n \in Nat, NEW P, 0 \in P, \A i \in 1..n : i - 1 \in P => i \in P
  PROVE  0..n \subseteq P
  <1> DEFINE rest == {i \in 0..n : i \notin P}
  <1> SUFFICES ASSUME rest # {} PROVE FALSE
    OBVIOUS
  <1>1. rest \in SUBSET Nat
    OBVIOUS
  <1>2. PICK i \in rest : \A j \in rest : i <= j
    <2> HIDE DEF rest
    <2> QED
      BY <1>1, LeastOf
  <1>3. i \in 1..n /\ i \notin P
    <2>1. i \in 0..n /\ i \notin P
      OBVIOUS
    <2> QED
      BY <2>1
  <1>4. i - 1 \in 0..n /\ i - 1 \notin P
    BY <1>3
  <1>5. i - 1 \in rest
    BY <1>4
  <1> HIDE DEF rest
  <1> QED
    BY <1>2, <1>3, <1>5

\* A recursion over 0..n whose steps stay in S has a solution.
Iteration(f, n, S, b, F) ==
  f \in [0..n -> S] /\ f[0] = b /\ \A i \in 1..n : f[i] = F[i][f[i - 1]]

LEMMA Iterated ==
  ASSUME NEW n \in Nat, NEW S, NEW b \in S, NEW F, \A i \in 1..n : \A x \in S : F[i][x] \in S
  PROVE  \E f : Iteration(f, n, S, b, F)
  <1> DEFINE Upto(m, f) == /\ f \in [0..m -> S] /\ f[0] = b
                           /\ \A i \in 1..m : f[i] = F[i][f[i - 1]]
             P == {m \in 0..n : \E f : Upto(m, f)}
  <1>1. 0 \in P
    <2> DEFINE f == [i \in 0..0 |-> b]
    <2>1. Upto(0, f)
      OBVIOUS
    <2> HIDE DEF f, Upto
    <2> QED
      BY <2>1
  <1>2. ASSUME NEW m \in 1..n, m - 1 \in P PROVE m \in P
    <2>1. PICK f : Upto(m - 1, f)
      BY <1>2
    <2> DEFINE g == [i \in 0..m |-> IF i < m THEN f[i] ELSE F[m][f[m - 1]]]
    <2>2. \A i \in 0..(m - 1) : g[i] = f[i] /\ f[i] \in S
      BY <2>1
    <2>3. g[m] = F[m][f[m - 1]] /\ g[m] \in S /\ DOMAIN g = 0..m /\ g = [i \in 0..m |-> g[i]]
      <3>1. f[m - 1] \in S
        BY <2>1
      <3> QED
        BY <3>1
    <2> HIDE DEF g
    <2>4. \A i \in 0..m : i \in 0..(m - 1) \/ i = m
      OBVIOUS
    <2>5. g \in [0..m -> S]
      BY <2>2, <2>3, <2>4
    <2>6. g[0] = b
      BY <2>1, <2>2
    <2>7. ASSUME NEW i \in 1..m PROVE g[i] = F[i][g[i - 1]]
      <3>1. i - 1 \in 0..(m - 1) /\ g[i - 1] = f[i - 1]
        BY <2>2
      <3>2. CASE i = m
        BY <2>3, <3>1, <3>2
      <3>3. CASE i # m
        <4>1. i \in 1..(m - 1) /\ i \in 0..(m - 1)
          BY <3>3
        <4> QED
          BY <2>1, <2>2, <3>1, <4>1
      <3> QED
        BY <3>2, <3>3
    <2>8. Upto(m, g)
      BY <2>5, <2>6, <2>7
    <2> HIDE DEF Upto
    <2> QED
      BY <2>8
  <1>3. 0..n \subseteq P
    <2> HIDE DEF P
    <2> QED
      BY <1>1, <1>2, CountingUp
  <1>4. PICK f : Upto(n, f)
    <2>1. n \in P
      BY <1>3
    <2> HIDE DEF Upto
    <2> QED
      BY <2>1
  <1> QED
    BY <1>4 DEF Iteration

-----------------------------------------------------------------------------
\* A text is looked at character by character.
LEMMA OccursAtFacts ==
  ASSUME NEW S, NEW part \in Seq(S), NEW text \in Seq(S), NEW i \in Nat \ {0}
  PROVE  OccursAt(part, text, i) <=>
           i + Len(part) - 1 <= Len(text) /\ \A d \in 1..Len(part) : text[i + d - 1] = part[d]
  <1> DEFINE last == i + Len(part) - 1
  <1>1. Len(part) \in Nat /\ Len(text) \in Nat /\ last \in Int /\ last - i + 1 = Len(part)
    OBVIOUS
  <1> SUFFICES ASSUME last <= Len(text)
               PROVE  SubSeq(text, i, last) = part <=> \A d \in 1..Len(part) : text[i + d - 1] = part[d]
    BY DEF OccursAt
  <1>2. \A k \in i..last : text[k] \in S
    <2>1. \A k \in i..last : k \in 1..Len(text)
      BY <1>1
    <2> HIDE DEF last
    <2> QED
      BY <2>1
  <1>3. /\ SubSeq(text, i, last) \in Seq(S)
        /\ Len(SubSeq(text, i, last)) = Len(part)
        /\ \A d \in 1..Len(part) : SubSeq(text, i, last)[d] = text[i + d - 1]
    <2> HIDE DEF last
    <2>1. /\ SubSeq(text, i, last) \in Seq(S)
          /\ Len(SubSeq(text, i, last)) = IF i <= last THEN last - i + 1 ELSE 0
          /\ \A d \in 1 .. last - i + 1 : SubSeq(text, i, last)[d] = text[i + d - 1]
      BY <1>1, <1>2, SubSeqProperties
    <2> QED
      BY <1>1, <2>1
  <1>4. PICK sub \in Seq(S) : sub = SubSeq(text, i, last)
    BY <1>3
  <1>5. sub = part <=> \A d \in 1..Len(part) : sub[d] = part[d]
    <2>1. Len(sub) = Len(part)
      BY <1>3, <1>4
    <2> QED
      BY <2>1, SeqEqual
  <1> HIDE DEF last
  <1> QED
    BY <1>3, <1>4, <1>5

\* A list of secrets is of texts, none of them empty.
IsSecrets(secrets) == secrets \in Seq(Texts) /\ \A s \in DOMAIN secrets : Len(secrets[s]) >= 1

Env == Seq([key : Names, value : Texts])

\* What is looked for is never empty: it would be everywhere.
LEMMA SecretValuesFacts ==
  ASSUME NEW rules, NEW env \in Env PROVE IsSecrets(SecretValues(rules, env))
  <1>1. PICK n \in Nat : n = Len(env) /\ \A i \in 1..n : env[i].value \in Texts
    <2>1. PICK T : T = [key : Names, value : Texts]
      OBVIOUS
    <2>2. env \in Seq(T)
      BY <2>1 DEF Env
    <2>3. Len(env) \in Nat /\ \A i \in 1..Len(env) : env[i] \in T
      BY <2>2
    <2> QED
      BY <2>1, <2>3
  <1> DEFINE S == {s \in Seq(Texts) : \A i \in DOMAIN s : Len(s[i]) >= 1}
             Secret(i) == ShouldMask(rules, env[i].key) /\ ShouldScrub(env[i].value)
             F == [i \in 1..n |-> [x \in S |-> IF Secret(i) THEN Append(x, env[i].value) ELSE x]]
             Values(f) == f = [i \in 0..n |->
                            IF i = 0 THEN <<>>
                            ELSE IF ShouldMask(rules, env[i].key) /\ ShouldScrub(env[i].value)
                              THEN Append(f[i - 1], env[i].value)
                            ELSE f[i - 1]]
  <1>2. <<>> \in S
    OBVIOUS
  <1>3. ASSUME NEW i \in 1..n, NEW x \in S PROVE F[i][x] \in S
    <2>1. F[i][x] = IF Secret(i) THEN Append(x, env[i].value) ELSE x
      OBVIOUS
    <2>2. ASSUME Secret(i) PROVE Append(x, env[i].value) \in S
      <3>1. PICK v \in Texts : v = env[i].value
        BY <1>1
      <3>2. Len(v) >= 1
        <4>1. Len(v) \in Nat /\ (Len(v) >= MinScrub \/ \E k \in 1..Len(v) : v[k] = Mask)
          BY <2>2, <3>1 DEF ShouldScrub, Contains, Texts
        <4>2. CASE Len(v) >= MinScrub
          BY <4>1, <4>2
        <4>3. CASE \E k \in 1..Len(v) : v[k] = Mask
          BY <4>1, <4>3
        <4> QED
          BY <4>1, <4>2, <4>3
      <3>3. x \in Seq(Texts) /\ \A k \in DOMAIN x : Len(x[k]) >= 1
        <4> HIDE DEF F, Secret, Values
        <4> QED
          OBVIOUS
      <3>4. /\ Append(x, v) \in Seq(Texts) /\ DOMAIN Append(x, v) = 1..(Len(x) + 1) /\ Len(x) \in Nat
            /\ DOMAIN x = 1..Len(x)
            /\ \A k \in 1..Len(x) : Append(x, v)[k] = x[k]
            /\ Append(x, v)[Len(x) + 1] = v
        BY <3>1, <3>3, AppendProperties
      <3>5. \A k \in 1..(Len(x) + 1) : k \in 1..Len(x) \/ k = Len(x) + 1
        BY <3>4
      <3>6. \A k \in DOMAIN Append(x, v) : Len(Append(x, v)[k]) >= 1
        BY <3>2, <3>3, <3>4, <3>5
      <3> QED
        BY <3>1, <3>4, <3>6
    <2> QED
      BY <2>1, <2>2
  <1> HIDE DEF S
  <1>4. \E f : Values(f)
    <2>1. PICK f : Iteration(f, n, S, <<>>, F)
      <3> HIDE DEF F
      <3> QED
        BY <1>1, <1>2, <1>3, Iterated
    <2>2. f \in [0..n -> S] /\ f[0] = <<>> /\ \A i \in 1..n : f[i - 1] \in S /\ f[i] = F[i][f[i - 1]]
      <3> HIDE DEF F, Secret, Values
      <3>1. f \in [0..n -> S] /\ f[0] = <<>> /\ \A i \in 1..n : f[i] = F[i][f[i - 1]]
        BY <2>1, Zenon DEF Iteration
      <3>2. \A i \in 1..n : i - 1 \in 0..n
        OBVIOUS
      <3> QED
        BY <3>1, <3>2
    <2>3. \A i \in 1..n : f[i] = IF Secret(i) THEN Append(f[i - 1], env[i].value) ELSE f[i - 1]
      BY <2>2
    <2>4. Values(f)
      <3> HIDE DEF F
      <3>1. \A i \in 0..n : i = 0 \/ i \in 1..n
        BY <1>1
      <3> QED
        BY <2>2, <2>3, <3>1
    <2> HIDE DEF Values
    <2> QED
      BY <2>4
  <1> DEFINE values == CHOOSE f : Values(f)
  <1>5. Values(values)
    <2> HIDE DEF Values
    <2> QED
      BY <1>4
  <1>6. SecretValues(rules, env) = values[n]
    BY <1>1 DEF SecretValues
  <1> HIDE DEF values
  <1>7. 0..n \subseteq {i \in 0..n : values[i] \in S}
    <2> DEFINE P == {i \in 0..n : values[i] \in S}
    <2>1. 0 \in P
      BY <1>1, <1>2, <1>5
    <2>2. ASSUME NEW i \in 1..n, i - 1 \in P PROVE i \in P
      <3>0. i \in 0..n /\ i # 0
        OBVIOUS
      <3>1. values[i] = IF Secret(i) THEN Append(values[i - 1], env[i].value) ELSE values[i - 1]
        BY <1>5, <3>0
      <3>2. F[i][values[i - 1]] = values[i] /\ F[i][values[i - 1]] \in S
        BY <1>3, <2>2, <3>1
      <3> QED
        BY <3>2
    <2> HIDE DEF P
    <2> QED
      BY <1>1, <2>1, <2>2, CountingUp DEF P
  <1>8. values[n] \in S
    BY <1>1, <1>7
  <1> QED
    BY <1>6, <1>8 DEF S, IsSecrets

\* Where a replacement can be: some text, and no less than nothing covered.
Places == [text : Texts, covered : Nat]

\* The first secret that is there is there.
LEMMA FirstAtFacts ==
  ASSUME NEW secrets, IsSecrets(secrets), NEW text, NEW i
  PROVE  LET s == FirstAt(secrets, text, i)
         IN  /\ s = 0 => \A k \in DOMAIN secrets : ~OccursAt(secrets[k], text, i)
             /\ s # 0 => s \in DOMAIN secrets /\ OccursAt(secrets[s], text, i)
  <1> DEFINE there == {s \in DOMAIN secrets : OccursAt(secrets[s], text, i)}
  <1>1. there \in SUBSET (Nat \ {0})
    BY DEF IsSecrets
  <1>2. FirstAt(secrets, text, i) = IF there = {} THEN 0 ELSE Min(there)
    BY DEF FirstAt
  <1>3. ASSUME there # {} PROVE Min(there) \in there
    <2>1. there \in SUBSET Nat
      BY <1>1
    <2> HIDE DEF there
    <2>2. \E n \in there : \A m \in there : n <= m
      BY <1>3, <2>1, LeastOf
    <2> QED
      BY <2>2 DEF Min
  <1>4. \A s : s \in there => s \in DOMAIN secrets /\ OccursAt(secrets[s], text, i)
    OBVIOUS
  <1>5. \A k \in DOMAIN secrets : OccursAt(secrets[k], text, i) => k \in there
    OBVIOUS
  <1> HIDE DEF there
  <1> QED
    BY <1>1, <1>2, <1>3, <1>4, <1>5

\* What one step of a replacement does.
Copies(text, i, done, next) ==
  done.covered = 0 /\ next.text = Append(done.text, text[i]) /\ next.covered = 0

Skips(done, next) == done.covered > 0 /\ next.text = done.text /\ next.covered = done.covered - 1

Masks(part, text, i, done, next) ==
  /\ done.covered = 0 /\ OccursAt(part, text, i)
  /\ next.text = Append(done.text, Mask) /\ next.covered = Len(part) - 1

Steps(secrets, text, i, done, next) ==
  \/ Skips(done, next)
  \/ Copies(text, i, done, next) /\ \A k \in DOMAIN secrets : ~OccursAt(secrets[k], text, i)
  \/ \E k \in DOMAIN secrets : Masks(secrets[k], text, i, done, next)

\* Advance skips, copies or masks.
LEMMA AdvanceFacts ==
  ASSUME NEW secrets, IsSecrets(secrets), NEW text \in Texts, NEW i \in 1..Len(text), NEW done \in Places
  PROVE  /\ Advance(secrets, text, i, done) \in Places
         /\ Steps(secrets, text, i, done, Advance(secrets, text, i, done))
  <1>1. PICK s : s = FirstAt(secrets, text, i)
    OBVIOUS
  <1>2. PICK next : next = Advance(secrets, text, i, done)
    OBVIOUS
  <1>3. next = IF done.covered > 0 THEN [text |-> done.text, covered |-> done.covered - 1]
               ELSE IF s = 0 THEN [text |-> Append(done.text, text[i]), covered |-> 0]
               ELSE [text |-> Append(done.text, Mask), covered |-> Len(secrets[s]) - 1]
    BY <1>1, <1>2 DEF Advance
  <1>4. done.text \in Texts /\ done.covered \in Nat /\ text[i] \in Byte \cup {Mask}
    BY DEF Places, Texts
  <1>5. CASE done.covered > 0
    <2>1. next = [text |-> done.text, covered |-> done.covered - 1]
      BY <1>3, <1>5
    <2>2. next.text = done.text /\ next.covered = done.covered - 1
      BY <2>1
    <2> QED
      BY <1>2, <1>4, <1>5, <2>1, <2>2 DEF Places, Steps, Skips
  <1>6. CASE done.covered = 0 /\ s = 0
    <2>1. next = [text |-> Append(done.text, text[i]), covered |-> 0]
      BY <1>3, <1>6
    <2>2. Append(done.text, text[i]) \in Texts
      BY <1>4 DEF Texts
    <2>3. next.text = Append(done.text, text[i]) /\ next.covered = 0 /\ next \in Places
      BY <2>1, <2>2 DEF Places
    <2>4. \A k \in DOMAIN secrets : ~OccursAt(secrets[k], text, i)
      BY <1>1, <1>6, FirstAtFacts
    <2> QED
      BY <1>2, <1>6, <2>3, <2>4 DEF Steps, Copies
  <1>7. CASE done.covered = 0 /\ s # 0
    <2>1. next = [text |-> Append(done.text, Mask), covered |-> Len(secrets[s]) - 1]
      BY <1>3, <1>7
    <2>2. s \in DOMAIN secrets /\ OccursAt(secrets[s], text, i)
      BY <1>1, <1>7, FirstAtFacts
    <2>3. Len(secrets[s]) - 1 \in Nat
      <3>1. secrets[s] \in Texts /\ Len(secrets[s]) >= 1
        BY <2>2 DEF IsSecrets
      <3>2. Len(secrets[s]) \in Nat
        BY <3>1 DEF Texts
      <3> QED
        BY <3>1, <3>2
    <2>4. Append(done.text, Mask) \in Texts
      BY <1>4 DEF Texts
    <2>5. next.text = Append(done.text, Mask) /\ next.covered = Len(secrets[s]) - 1
      BY <2>1
    <2>6. next \in Places
      BY <2>1, <2>3, <2>4 DEF Places
    <2> QED
      BY <1>2, <1>7, <2>2, <2>5, <2>6 DEF Steps, Masks
  <1> QED
    BY <1>4, <1>5, <1>6, <1>7

\* A replacement from its beginning to its end.
Runs(secrets, text, done) ==
  /\ done \in [0..Len(text) -> Places]
  /\ done[0] = [text |-> <<>>, covered |-> 0]
  /\ \A i \in 1..Len(text) : Steps(secrets, text, i, done[i - 1], done[i])

\* Replacing is such a replacement: the recursive function has a value.
LEMMA ReplacingRuns ==
  ASSUME NEW secrets, IsSecrets(secrets), NEW text \in Texts
  PROVE  Runs(secrets, text, Replacing(secrets, text))
  <1>1. PICK n \in Nat : n = Len(text)
    BY DEF Texts
  <1> DEFINE start == [text |-> <<>>, covered |-> 0]
             F == [i \in 1..n |-> [x \in Places |-> Advance(secrets, text, i, x)]]
             Solves(f) == f = [i \in 0..n |-> IF i = 0 THEN [text |-> <<>>, covered |-> 0]
                                              ELSE Advance(secrets, text, i, f[i - 1])]
  <1>2. start \in Places
    BY DEF Places, Texts
  <1> HIDE DEF start
  <1>3. \A i \in 1..n : \A x \in Places : F[i][x] = Advance(secrets, text, i, x) /\ F[i][x] \in Places
    BY <1>1, AdvanceFacts
  <1> HIDE DEF F
  <1>4. \E f : Solves(f)
    <2>1. PICK f : Iteration(f, n, Places, start, F)
      BY <1>2, <1>3, Iterated
    <2>2. f \in [0..n -> Places] /\ f[0] = start /\ \A i \in 1..n : f[i - 1] \in Places /\ f[i] = F[i][f[i - 1]]
      BY <2>1 DEF Iteration
    <2>3. \A i \in 1..n : f[i] = Advance(secrets, text, i, f[i - 1])
      BY <1>3, <2>2
    <2>4. Solves(f)
      <3>1. \A i \in 0..n : i = 0 \/ i \in 1..n
        OBVIOUS
      <3> QED
        BY <2>2, <2>3, <3>1 DEF start
    <2> HIDE DEF Solves
    <2> QED
      BY <2>4
  <1> DEFINE done == CHOOSE f : Solves(f)
  <1>5. Solves(done)
    <2> HIDE DEF Solves
    <2> QED
      BY <1>4
  <1>6. Replacing(secrets, text) = done
    BY <1>1 DEF Replacing
  <1> HIDE DEF done
  <1>7. \A i \in 1..n : i \in 0..n /\ i # 0 /\ i - 1 \in 0..n
    OBVIOUS
  <1>8. done[0] = start /\ \A i \in 1..n : done[i] = Advance(secrets, text, i, done[i - 1])
    BY <1>5, <1>7 DEF start
  <1>9. 0..n \subseteq {i \in 0..n : done[i] \in Places}
    <2> HIDE DEF Solves
    <2> DEFINE P == {i \in 0..n : done[i] \in Places}
    <2>1. 0 \in P
      BY <1>2, <1>8
    <2>2. ASSUME NEW i \in 1..n, i - 1 \in P PROVE i \in P
      BY <1>3, <1>7, <1>8, <2>2
    <2> HIDE DEF P
    <2> QED
      BY <2>1, <2>2, CountingUp DEF P
  <1>10. done \in [0..n -> Places]
    BY <1>5, <1>9
  <1>11. ASSUME NEW i \in 1..n PROVE Steps(secrets, text, i, done[i - 1], done[i])
    <2>1. done[i - 1] \in Places
      BY <1>7, <1>10
    <2>2. PICK before \in Places : before = done[i - 1]
      BY <2>1
    <2>3. Steps(secrets, text, i, before, Advance(secrets, text, i, before))
      BY <1>1, AdvanceFacts
    <2> QED
      BY <1>8, <2>2, <2>3
  <1> QED
    BY <1>1, <1>6, <1>8, <1>10, <1>11 DEF Runs, start

\* A sequence with one more element.
LEMMA AppendTo ==
  ASSUME NEW S, NEW s \in Seq(S), NEW x \in S
  PROVE  /\ Append(s, x) \in Seq(S) /\ Len(Append(s, x)) = Len(s) + 1 /\ Len(s) \in Nat
         /\ DOMAIN s = 1..Len(s) /\ DOMAIN Append(s, x) = 1..(Len(s) + 1)
         /\ \A k \in 1..Len(s) : Append(s, x)[k] = s[k]
         /\ Append(s, x)[Len(s) + 1] = x
  BY AppendProperties

\* Where the characters of a result that are not masks come from: places of the text
\* where no secret begins, each right after the one before it unless a mask is between.
\* If nothing is covered after place i, and the last character is no mask, it is from
\* place i.
From(secrets, text, i, done, from) ==
  /\ \A k \in DOMAIN done.text : done.text[k] # Mask =>
       /\ from[k] \in 1..i /\ done.text[k] = text[from[k]]
       /\ \A s \in DOMAIN secrets : ~OccursAt(secrets[s], text, from[k])
  /\ \A k, l \in DOMAIN done.text :
       k <= l /\ (\A j \in k..l : done.text[j] # Mask) => from[l] = from[k] + (l - k)
  /\ done.text # <<>> /\ done.text[Len(done.text)] # Mask =>
       done.covered = 0 /\ from[Len(done.text)] = i

Traced(secrets, text, i, done) == \E from : From(secrets, text, i, done, from)

\* A step of the replacer keeps what is left traceable to the text.
LEMMA TracedStep ==
  ASSUME NEW secrets, NEW text \in Texts, NEW i \in 1..Len(text),
         NEW done \in Places, NEW next \in Places,
         Steps(secrets, text, i, done, next), Traced(secrets, text, i - 1, done)
  PROVE  Traced(secrets, text, i, next)
  <1>1. PICK from : From(secrets, text, i - 1, done, from)
    BY DEF Traced
  <1>2. i \in Nat /\ i \in 1..i /\ \A k : k \in 1..(i - 1) => k \in 1..i
    BY DEF Texts
  <1>3. PICK t : t = done.text
    OBVIOUS
  <1>4. PICK u : u = next.text
    OBVIOUS
  <1>5. t \in Texts /\ u \in Texts /\ text[i] \in Byte \cup {Mask}
        /\ done.covered \in Nat /\ next.covered \in Nat
    BY <1>3, <1>4 DEF Places, Texts
  <1>6. PICK n \in Nat : n = Len(t) /\ DOMAIN t = 1..n /\ (n = 0 <=> t = <<>>)
    BY <1>5 DEF Texts
  <1>7. /\ \A k \in 1..n : t[k] # Mask =>
             /\ from[k] \in 1..(i - 1) /\ t[k] = text[from[k]]
             /\ \A s \in DOMAIN secrets : ~OccursAt(secrets[s], text, from[k])
        /\ \A k, l \in 1..n :
             k <= l /\ (\A j \in k..l : t[j] # Mask) => from[l] = from[k] + (l - k)
        /\ n # 0 /\ t[n] # Mask => done.covered = 0 /\ from[n] = i - 1
    BY <1>1, <1>3, <1>6 DEF From
  <1>8. CASE Skips(done, next)
    <2>1. u = t /\ done.covered > 0
      BY <1>3, <1>4, <1>8 DEF Skips
    <2>2. ~(n # 0 /\ t[n] # Mask)
      BY <1>5, <1>7, <2>1
    <2>3. \A k \in DOMAIN t : t[k] # Mask =>
            /\ from[k] \in 1..i /\ t[k] = text[from[k]]
            /\ \A s \in DOMAIN secrets : ~OccursAt(secrets[s], text, from[k])
      BY <1>2, <1>6, <1>7
    <2>4. \A k, l \in DOMAIN t :
            k <= l /\ (\A j \in k..l : t[j] # Mask) => from[l] = from[k] + (l - k)
      BY <1>6, <1>7
    <2>5. ~(t # <<>> /\ t[Len(t)] # Mask)
      BY <1>6, <2>2
    <2>6. From(secrets, text, i, next, from)
      BY <1>4, <2>1, <2>3, <2>4, <2>5, Zenon DEF From
    <2> QED
      BY <2>6 DEF Traced
  <1>9. ASSUME NEW x \in Byte \cup {Mask}, u = Append(t, x), done.covered = 0,
               x # Mask => /\ next.covered = 0 /\ x = text[i]
                           /\ \A s \in DOMAIN secrets : ~OccursAt(secrets[s], text, i)
        PROVE  Traced(secrets, text, i, next)
    <2>1. /\ DOMAIN u = 1..(n + 1) /\ Len(u) = n + 1 /\ u # <<>>
          /\ \A k \in 1..n : u[k] = t[k]
          /\ u[n + 1] = x
      BY <1>5, <1>6, <1>9, AppendTo DEF Texts
    <2> DEFINE to == [k \in 1..(n + 1) |-> IF k = n + 1 THEN i ELSE from[k]]
    <2>2. to[n + 1] = i /\ \A k \in 1..n : to[k] = from[k]
      OBVIOUS
    <2> HIDE DEF to
    <2>3. \A k \in 1..(n + 1) : k \in 1..n \/ k = n + 1
      OBVIOUS
    <2>4. ASSUME NEW k \in 1..(n + 1), u[k] # Mask
          PROVE  /\ to[k] \in 1..i /\ u[k] = text[to[k]]
                 /\ \A s \in DOMAIN secrets : ~OccursAt(secrets[s], text, to[k])
      <3>1. CASE k \in 1..n
        BY <1>2, <1>7, <2>1, <2>2, <2>4, <3>1
      <3>2. CASE k = n + 1
        BY <1>2, <1>9, <2>1, <2>2, <2>4, <3>2
      <3> QED
        BY <2>3, <3>1, <3>2
    <2>5. ASSUME NEW k \in 1..(n + 1), NEW l \in 1..(n + 1), k <= l, \A j \in k..l : u[j] # Mask
          PROVE  to[l] = to[k] + (l - k)
      <3>1. CASE l \in 1..n
        <4>1. k \in 1..n /\ \A j \in k..l : j \in 1..n
          BY <2>5, <3>1
        <4>2. \A j \in k..l : t[j] # Mask
          BY <2>1, <2>5, <4>1
        <4> QED
          BY <1>7, <2>2, <2>5, <3>1, <4>1, <4>2
      <3>2. CASE k = n + 1 /\ l = n + 1
        BY <2>2, <3>2, <1>2
      <3>3. CASE k \in 1..n /\ l = n + 1
        <4>1. n \in 1..n /\ n # 0 /\ k <= n /\ \A j \in k..n : j \in 1..n /\ j \in k..l
          BY <3>3
        <4>2. \A j \in k..n : t[j] # Mask
          BY <2>1, <2>5, <4>1
        <4>3. from[n] = from[k] + (n - k)
          BY <1>7, <3>3, <4>1, <4>2
        <4>4. from[n] = i - 1
          <5>1. n \in k..n
            BY <3>3, <4>1
          <5> QED
            BY <1>7, <4>1, <4>2, <5>1
        <4>5. from[k] \in 1..(i - 1)
          <5>1. k \in k..n
            BY <3>3, <4>1
          <5> QED
            BY <1>7, <3>3, <4>2, <5>1
        <4>6. to[l] = i /\ to[k] = from[k]
          BY <2>2, <3>3
        <4> QED
          BY <1>2, <3>3, <4>3, <4>4, <4>5, <4>6
      <3> QED
        BY <2>3, <2>5, <3>1, <3>2, <3>3
    <2>6. \A k \in DOMAIN u : u[k] # Mask =>
            /\ to[k] \in 1..i /\ u[k] = text[to[k]]
            /\ \A s \in DOMAIN secrets : ~OccursAt(secrets[s], text, to[k])
      BY <2>1, <2>4
    <2>7. \A k, l \in DOMAIN u :
            k <= l /\ (\A j \in k..l : u[j] # Mask) => to[l] = to[k] + (l - k)
      BY <2>1, <2>5
    <2>8. u # <<>> /\ u[Len(u)] # Mask => next.covered = 0 /\ to[Len(u)] = i
      BY <1>9, <2>1, <2>2
    <2>9. From(secrets, text, i, next, to)
      BY <1>4, <2>6, <2>7, <2>8, Zenon DEF From
    <2> QED
      BY <2>9 DEF Traced
  <1>10. CASE Copies(text, i, done, next) /\ \A s \in DOMAIN secrets : ~OccursAt(secrets[s], text, i)
    BY <1>3, <1>4, <1>5, <1>9, <1>10 DEF Copies
  <1>11. CASE \E s \in DOMAIN secrets : Masks(secrets[s], text, i, done, next)
    BY <1>3, <1>4, <1>9, <1>11 DEF Masks
  <1> QED
    BY <1>8, <1>10, <1>11 DEF Steps

\* No secret is left in the result.
LEMMA ReplaceScrubs ==
  ASSUME NEW secrets, IsSecrets(secrets), NEW text \in Texts,
         NEW s \in DOMAIN secrets, ~Contains(secrets[s], Mask)
  PROVE  ~Occurs(secrets[s], Replace(secrets, text))
  <1>1. PICK n \in Nat : n = Len(text) /\ DOMAIN text = 1..n
    BY DEF Texts
  <1>2. PICK done : done = Replacing(secrets, text)
    OBVIOUS
  <1>3. Runs(secrets, text, done)
    BY <1>2, ReplacingRuns
  <1>4. /\ done[0] = [text |-> <<>>, covered |-> 0]
        /\ \A i \in 0..n : done[i] \in Places
        /\ \A i \in 1..n : Steps(secrets, text, i, done[i - 1], done[i])
    BY <1>1, <1>3 DEF Runs
  <1>5. 0..n \subseteq {i \in 0..n : Traced(secrets, text, i, done[i])}
    <2> DEFINE P == {i \in 0..n : Traced(secrets, text, i, done[i])}
    <2>1. 0 \in P
      <3>1. done[0].text = <<>> /\ DOMAIN <<>> = {}
        BY <1>4
      <3>2. From(secrets, text, 0, done[0], <<>>)
        BY <3>1 DEF From
      <3> QED
        BY <3>2 DEF Traced
    <2>2. ASSUME NEW i \in 1..n, i - 1 \in P PROVE i \in P
      <3>1. i - 1 \in 0..n /\ i \in 0..n /\ i \in 1..Len(text)
        BY <1>1
      <3>2. PICK before \in Places : before = done[i - 1]
        BY <1>4, <3>1
      <3>3. PICK after \in Places : after = done[i]
        BY <1>4, <3>1
      <3>4. Traced(secrets, text, i - 1, before) /\ Steps(secrets, text, i, before, after)
        BY <1>4, <2>2, <3>2, <3>3
      <3>5. Traced(secrets, text, i, after)
        BY <3>1, <3>4, TracedStep
      <3> QED
        BY <3>1, <3>3, <3>5
    <2> HIDE DEF P
    <2> QED
      BY <2>1, <2>2, CountingUp DEF P
  <1>6. PICK r : r = done[n].text
    OBVIOUS
  <1>7. Replace(secrets, text) = r /\ r \in Texts
    <2>1. done[n] \in Places
      BY <1>4
    <2> QED
      BY <1>1, <1>2, <1>6, <2>1 DEF Replace, Places
  <1>8. Traced(secrets, text, n, done[n])
    BY <1>5
  <1>9. PICK from : From(secrets, text, n, done[n], from)
    BY <1>8 DEF Traced
  <1>10. PICK v : v = secrets[s]
    OBVIOUS
  <1>11. v \in Texts /\ Len(v) \in Nat \ {0}
    BY <1>10 DEF IsSecrets, Texts
  <1>12. \A d \in 1..Len(v) : v[d] # Mask
    BY <1>10 DEF Contains
  <1>13. ASSUME NEW i \in 1..Len(r), OccursAt(v, r, i) PROVE FALSE
    <2>1. Len(r) \in Nat /\ DOMAIN r = 1..Len(r)
      BY <1>7 DEF Texts
    <2>2. i + Len(v) - 1 <= Len(r) /\ \A d \in 1..Len(v) : r[i + d - 1] = v[d]
      <3>1. i \in Nat \ {0}
        BY <2>1
      <3> QED
        BY <1>7, <1>11, <1>13, <3>1, OccursAtFacts DEF Texts
    <2>3. PICK last \in 1..Len(r) : last = i + Len(v) - 1
      BY <1>11, <2>1, <2>2
    <2>4. \A j \in i..last : r[j] # Mask
      <3> SUFFICES ASSUME NEW j \in i..last PROVE r[j] # Mask
        OBVIOUS
      <3>1. j - i + 1 \in 1..Len(v) /\ i + (j - i + 1) - 1 = j
        BY <1>11, <2>1, <2>3
      <3> QED
        BY <1>12, <2>2, <3>1
    <2>5. from[i] \in 1..n /\ \A k \in DOMAIN secrets : ~OccursAt(secrets[k], text, from[i])
      <3>1. i \in i..last
        BY <1>11, <2>1, <2>3
      <3> QED
        BY <1>6, <1>9, <2>1, <2>4, <3>1 DEF From
    <2>6. \A d \in 1..Len(v) :
            /\ i + d - 1 \in 1..Len(r) /\ from[i + d - 1] = from[i] + (d - 1)
            /\ from[i + d - 1] \in 1..n /\ r[i + d - 1] = text[from[i + d - 1]]
      <3> SUFFICES ASSUME NEW d \in 1..Len(v)
                   PROVE  /\ i + d - 1 \in 1..Len(r) /\ from[i + d - 1] = from[i] + (d - 1)
                          /\ from[i + d - 1] \in 1..n /\ r[i + d - 1] = text[from[i + d - 1]]
        OBVIOUS
      <3>1. PICK j \in i..last : j = i + d - 1 /\ j - i = d - 1
        BY <1>11, <2>1, <2>3
      <3>2. j \in 1..Len(r) /\ i <= j /\ \A k \in i..j : k \in i..last
        BY <2>1, <2>3
      <3>3. \A k \in i..j : r[k] # Mask
        BY <2>4, <3>2
      <3>4. from[j] = from[i] + (j - i)
        BY <1>6, <1>9, <2>1, <3>2, <3>3 DEF From
      <3>5. from[j] \in 1..n /\ r[j] = text[from[j]]
        BY <1>6, <1>9, <2>1, <2>4, <3>2 DEF From
      <3> QED
        BY <3>1, <3>2, <3>4, <3>5
    <2>7. PICK m \in 1..n : m = from[i]
      BY <2>5
    <2>8. m + Len(v) - 1 <= n
      <3>1. Len(v) \in 1..Len(v)
        BY <1>11
      <3>2. from[i + Len(v) - 1] = m + (Len(v) - 1) /\ from[i + Len(v) - 1] \in 1..n
        BY <2>6, <2>7, <3>1
      <3> QED
        BY <1>11, <3>2
    <2>9. \A d \in 1..Len(v) : text[m + d - 1] = v[d]
      <3> SUFFICES ASSUME NEW d \in 1..Len(v) PROVE text[m + d - 1] = v[d]
        OBVIOUS
      <3>1. from[i + d - 1] = m + (d - 1) /\ m + (d - 1) = m + d - 1
        BY <1>11, <2>6, <2>7
      <3> QED
        BY <2>2, <2>6, <3>1
    <2>10. OccursAt(v, text, m)
      <3>1. m \in Nat \ {0}
        OBVIOUS
      <3> QED
        BY <1>1, <1>11, <2>8, <2>9, <3>1, OccursAtFacts DEF Texts
    <2> QED
      BY <1>10, <2>5, <2>7, <2>10
  <1> QED
    BY <1>7, <1>10, <1>13 DEF Occurs

\* What a character of a replaced text can stand for.
PartsOf(secrets, x) == IF x = Mask THEN Range(secrets) \cup {<<Mask>>} ELSE {<<x>>}

\* From as much of the text as the first characters can stand for, what the next one
\* stands for leads to as much as they can stand for together.
Leads(secrets, before, after, upTo) ==
  /\ upTo[0] = {0}
  /\ \A i \in 1..Len(after) : \A n \in upTo[i - 1] : \A part \in PartsOf(secrets, after[i]) :
       OccursAt(part, before, n + 1) /\ n + Len(part) \in 0..Len(before) => n + Len(part) \in upTo[i]

\* How much it leads to.
AfterOne(secrets, before, x, starts) ==
  {m \in 0..Len(before) : \E k \in starts, part \in PartsOf(secrets, x) :
                            m = k + Len(part) /\ OccursAt(part, before, k + 1)}

\* Accounts does: its recursion has a value, and each step of it is AfterOne.
LEMMA AccountsLeads ==
  ASSUME NEW secrets, NEW before \in Texts, NEW after \in Texts
  PROVE  Leads(secrets, before, after, Accounts(secrets, before, after))
  <1>1. PICK n \in Nat : n = Len(after)
    BY DEF Texts
  <1>2. PICK size \in Nat : size = Len(before)
    BY DEF Texts
  <1> DEFINE S == SUBSET (0..size)
             F == [i \in 1..n |-> [x \in S |-> AfterOne(secrets, before, after[i], x)]]
             Solves(f) == f = [i \in 0..n |-> IF i = 0 THEN {0} ELSE AfterOne(secrets, before, after[i], f[i - 1])]
  <1>3. {0} \in S
    OBVIOUS
  <1>4. \A i \in 1..n : \A x \in S : F[i][x] = AfterOne(secrets, before, after[i], x) /\ F[i][x] \in S
    BY <1>2 DEF AfterOne
  <1> HIDE DEF F, S
  <1>5. \E f : Solves(f)
    <2>1. PICK f : Iteration(f, n, S, {0}, F)
      BY <1>3, <1>4, Iterated
    <2>2. f \in [0..n -> S] /\ f[0] = {0} /\ \A i \in 1..n : f[i - 1] \in S /\ f[i] = F[i][f[i - 1]]
      BY <2>1 DEF Iteration
    <2>3. \A i \in 1..n : f[i] = AfterOne(secrets, before, after[i], f[i - 1])
      BY <1>4, <2>2
    <2>4. Solves(f)
      <3>1. \A i \in 0..n : i = 0 \/ i \in 1..n
        OBVIOUS
      <3> QED
        BY <2>2, <2>3, <3>1
    <2> HIDE DEF Solves
    <2> QED
      BY <2>4
  <1>6. PICK upTo : upTo = CHOOSE f : Solves(f)
    OBVIOUS
  <1>7. Accounts(secrets, before, after) = upTo
    BY <1>1, <1>2, <1>6 DEF Accounts, PartsOf, AfterOne
  <1>8. upTo = [i \in 0..n |-> IF i = 0 THEN {0} ELSE AfterOne(secrets, before, after[i], upTo[i - 1])]
    <2>1. Solves(upTo)
      <3> HIDE DEF Solves
      <3> QED
        BY <1>5, <1>6
    <2> QED
      BY <2>1
  <1>9. upTo[0] = {0} /\ \A i \in 1..n : upTo[i] = AfterOne(secrets, before, after[i], upTo[i - 1])
    <2>1. 0 \in 0..n /\ \A i \in 1..n : i \in 0..n /\ i # 0
      OBVIOUS
    <2>2. upTo[0] = {0}
      BY <1>8, <2>1
    <2>3. ASSUME NEW i \in 1..n PROVE upTo[i] = AfterOne(secrets, before, after[i], upTo[i - 1])
      <3>1. i \in 0..n /\ i # 0
        OBVIOUS
      <3> QED
        BY <1>8, <3>1
    <2> QED
      BY <2>2, <2>3
  <1>10. \A i \in 1..n : \A k \in upTo[i - 1] : \A part \in PartsOf(secrets, after[i]) :
           OccursAt(part, before, k + 1) /\ k + Len(part) \in 0..size => k + Len(part) \in upTo[i]
    BY <1>2, <1>9 DEF AfterOne
  <1> QED
    BY <1>1, <1>2, <1>7, <1>9, <1>10 DEF Leads

\* The text so far is how the whole result begins.
Begins(t, u) == Len(t) <= Len(u) /\ \A k \in 1..Len(t) : u[k] = t[k]

\* A step only adds to the text so far.
LEMMA StepBegins ==
  ASSUME NEW secrets, NEW text \in Texts, NEW i \in 1..Len(text),
         NEW done \in Places, NEW next \in Places, Steps(secrets, text, i, done, next)
  PROVE  Begins(done.text, next.text)
  <1>1. PICK t \in Texts : t = done.text
    BY DEF Places
  <1>2. PICK u \in Texts : u = next.text
    BY DEF Places
  <1>3. text[i] \in Byte \cup {Mask} /\ Len(t) \in Nat
    BY DEF Texts
  <1>4. u = t \/ \E x \in Byte \cup {Mask} : u = Append(t, x)
    BY <1>1, <1>2, <1>3 DEF Steps, Skips, Copies, Masks
  <1>5. CASE u = t
    BY <1>1, <1>2, <1>3, <1>5 DEF Begins
  <1>6. ASSUME NEW x \in Byte \cup {Mask}, u = Append(t, x) PROVE Begins(t, u)
    <2>1. Len(u) = Len(t) + 1 /\ \A k \in 1..Len(t) : u[k] = t[k]
      BY <1>6, AppendTo DEF Texts
    <2> QED
      BY <1>3, <2>1 DEF Begins
  <1> QED
    BY <1>1, <1>2, <1>4, <1>5, <1>6

\* At any character, the text so far is how the result begins.
LEMMA RunBegins ==
  ASSUME NEW secrets, NEW text \in Texts, NEW done, Runs(secrets, text, done), NEW i \in 0..Len(text)
  PROVE  Begins(done[i].text, done[Len(text)].text)
  <1>1. PICK n \in Nat : n = Len(text)
    BY DEF Texts
  <1>2. /\ \A j \in 0..n : done[j] \in Places /\ done[j].text \in Texts
        /\ \A j \in 1..n : Steps(secrets, text, j, done[j - 1], done[j])
    BY <1>1 DEF Runs, Places
  <1>3. PICK r \in Texts : r = done[n].text
    BY <1>2
  <1> DEFINE P == {d \in 0..n : Begins(done[n - d].text, r)}
  <1>4. 0 \in P
    BY <1>3 DEF Begins, Texts
  <1>5. ASSUME NEW d \in 1..n, d - 1 \in P PROVE d \in P
    <2>1. PICK j \in 1..n : j = n - (d - 1) /\ n - d = j - 1 /\ j - 1 \in 0..n
      OBVIOUS
    <2>2. PICK before \in Places : before = done[j - 1]
      BY <1>2, <2>1
    <2>3. PICK after \in Places : after = done[j]
      BY <1>2
    <2>4. Steps(secrets, text, j, before, after)
      BY <1>2, <2>2, <2>3
    <2>5. Begins(before.text, after.text)
      BY <1>1, <2>4, StepBegins
    <2>6. PICK t \in Texts : t = before.text
      BY DEF Places
    <2>7. PICK u \in Texts : u = after.text
      BY DEF Places
    <2>8. Begins(t, u) /\ Begins(u, r) /\ Len(t) \in Nat /\ Len(u) \in Nat /\ Len(r) \in Nat
      BY <1>5, <2>1, <2>3, <2>5, <2>6, <2>7 DEF Texts
    <2>9. Begins(t, r)
      BY <2>8 DEF Begins
    <2> QED
      BY <2>1, <2>2, <2>6, <2>9
  <1> HIDE DEF P
  <1>6. 0..n \subseteq P
    BY <1>4, <1>5, CountingUp
  <1>7. n - i \in 0..n /\ n - (n - i) = i
    BY <1>1
  <1> QED
    BY <1>1, <1>3, <1>6, <1>7 DEF P

\* The result accounts for as much of the text as was looked at and is covered.
LEMMA ReplaceAccounts ==
  ASSUME NEW secrets, IsSecrets(secrets), NEW text \in Texts
  PROVE  IsLeftOf(secrets, text, Replace(secrets, text))
  <1>1. PICK n \in Nat : n = Len(text)
    BY DEF Texts
  <1>2. PICK done : done = Replacing(secrets, text)
    OBVIOUS
  <1>3. Runs(secrets, text, done)
    BY <1>2, ReplacingRuns
  <1>4. /\ done[0] = [text |-> <<>>, covered |-> 0]
        /\ \A i \in 0..n : done[i] \in Places
        /\ \A i \in 1..n : Steps(secrets, text, i, done[i - 1], done[i])
    BY <1>1, <1>3 DEF Runs
  <1>5. PICK r \in Texts : r = done[n].text
    BY <1>4 DEF Places
  <1>6. Replace(secrets, text) = r
    BY <1>1, <1>2, <1>5 DEF Replace
  <1>7. PICK upTo : upTo = Accounts(secrets, text, r)
    OBVIOUS
  <1>8. Leads(secrets, text, r, upTo)
    BY <1>7, AccountsLeads
  <1>9. \A i \in 0..n : Begins(done[i].text, r)
    BY <1>1, <1>3, <1>5, RunBegins
  <1> DEFINE Good(i, d) == i + d.covered <= n /\ i + d.covered \in upTo[Len(d.text)]
             P == {i \in 0..n : Good(i, done[i])}
  <1>10. 0 \in P
    <2>1. done[0].text = <<>> /\ done[0].covered = 0 /\ Len(<<>>) = 0
      BY <1>4
    <2>2. upTo[0] = {0}
      BY <1>8 DEF Leads
    <2> QED
      BY <2>1, <2>2
  <1>11. ASSUME NEW i \in 1..n, i - 1 \in P PROVE i \in P
    <2>1. PICK before \in Places : before = done[i - 1]
      BY <1>4
    <2>2. PICK after \in Places : after = done[i]
      BY <1>4
    <2>3. Steps(secrets, text, i, before, after) /\ Good(i - 1, before) /\ Begins(after.text, r)
      <3>1. i \in 0..n
        OBVIOUS
      <3> QED
        BY <1>4, <1>9, <1>11, <2>1, <2>2, <3>1
    <2>4. PICK t \in Texts : t = before.text
      BY DEF Places
    <2>5. PICK u \in Texts : u = after.text
      BY DEF Places
    <2>6. /\ before.covered \in Nat /\ after.covered \in Nat /\ Len(t) \in Nat /\ Len(r) \in Nat
          /\ text[i] \in Byte \cup {Mask}
      BY <1>1 DEF Places, Texts
    <2>7. ASSUME NEW x \in Byte \cup {Mask}, u = Append(t, x), before.covered = 0,
                 NEW part, Len(part) \in Nat \ {0}, part \in PartsOf(secrets, x),
                 OccursAt(part, text, i), after.covered = Len(part) - 1
          PROVE  Good(i, after)
      <3>1. Len(u) = Len(t) + 1 /\ u[Len(t) + 1] = x
        BY <2>7, AppendTo DEF Texts
      <3>2. PICK k \in 1..Len(r) : k = Len(t) + 1 /\ k - 1 = Len(t) /\ r[k] = x
        BY <2>3, <2>5, <2>6, <3>1 DEF Begins
      <3>3. PICK m \in Nat : m = i - 1 /\ m + 1 = i /\ m \in upTo[k - 1]
        BY <2>3, <2>4, <2>7, <3>2
      <3>4. m + Len(part) = i + after.covered /\ m + Len(part) <= n
        BY <1>1, <2>7, <3>3 DEF OccursAt
      <3>5. m + Len(part) \in 0..Len(text)
        BY <1>1, <2>7, <3>4
      <3>6. OccursAt(part, text, m + 1)
        BY <2>7, <3>3
      <3>7. m + Len(part) \in upTo[k]
        BY <1>8, <2>7, <3>2, <3>3, <3>5, <3>6 DEF Leads
      <3> QED
        BY <2>5, <3>1, <3>2, <3>4, <3>7
    <2>8. CASE Skips(before, after)
      <3>1. after.text = before.text /\ i + after.covered = (i - 1) + before.covered
        BY <2>6, <2>8 DEF Skips
      <3>2. Good(i, after)
        BY <2>3, <3>1
      <3> QED
        BY <2>2, <3>2
    <2>9. CASE Copies(text, i, before, after)
      <3>1. PICK x \in Byte \cup {Mask} : x = text[i]
        BY <2>6
      <3>2. <<x>> \in PartsOf(secrets, x) /\ Len(<<x>>) = 1
        BY DEF PartsOf
      <3>3. OccursAt(<<x>>, text, i)
        <4>1. <<x>> \in Texts /\ i \in Nat \ {0} /\ i + 1 - 1 <= Len(text) /\ i + 1 - 1 = i
          BY <1>1 DEF Texts
        <4>2. \A d \in 1..1 : text[i + d - 1] = <<x>>[d]
          BY <3>1
        <4> QED
          BY <3>2, <4>1, <4>2, OccursAtFacts DEF Texts
      <3>4. PICK part \in {<<x>>} : part = <<x>>
        OBVIOUS
      <3>5. /\ u = Append(t, x) /\ before.covered = 0 /\ after.covered = Len(part) - 1
            /\ Len(part) \in Nat \ {0}
        BY <2>4, <2>5, <2>9, <3>1, <3>2, <3>4 DEF Copies
      <3>6. part \in PartsOf(secrets, x) /\ OccursAt(part, text, i)
        BY <3>2, <3>3, <3>4
      <3>7. Good(i, after)
        <4> HIDE DEF Good
        <4> QED
          BY <2>7, <3>5, <3>6
      <3> QED
        BY <2>2, <3>7
    <2>10. ASSUME NEW k \in DOMAIN secrets, Masks(secrets[k], text, i, before, after) PROVE i \in P
      <3>1. PICK part : part = secrets[k]
        OBVIOUS
      <3>2. part \in Texts /\ Len(part) \in Nat \ {0}
        BY <3>1 DEF IsSecrets, Texts
      <3>3. PICK x \in Byte \cup {Mask} : x = Mask /\ part \in PartsOf(secrets, x)
        BY <3>1 DEF PartsOf, Range
      <3>4. /\ u = Append(t, x) /\ before.covered = 0 /\ after.covered = Len(part) - 1
            /\ OccursAt(part, text, i)
        BY <2>4, <2>5, <2>10, <3>1, <3>3 DEF Masks
      <3>5. Good(i, after)
        <4> HIDE DEF Good
        <4> QED
          BY <2>7, <3>2, <3>3, <3>4
      <3> QED
        BY <2>2, <3>5
    <2> HIDE DEF P, Good
    <2> QED
      BY <2>3, <2>8, <2>9, <2>10 DEF Steps
  <1>12. 0..n \subseteq P
    <2> HIDE DEF P
    <2> QED
      BY <1>10, <1>11, CountingUp
  <1>13. Good(n, done[n])
    BY <1>12
  <1>14. done[n].covered \in Nat
    BY <1>4 DEF Places
  <1>15. n \in upTo[Len(r)]
    BY <1>5, <1>13, <1>14
  <1> QED
    BY <1>1, <1>6, <1>7, <1>15 DEF IsLeftOf

-----------------------------------------------------------------------------
\* The capture buffer.
USE LimitsAssumption, ChunksAssumption, MaxTotalAssumption

\* TotalBytes counts the bytes that were dropped as well.
TotalIsWholeStream == totalBytes = Len(stream)

\* The four facts together are inductive: which branch Write takes depends on
\* the length of the buffer, what is lost on the stream, the result on both.
IInv == TypeOK /\ KeepsThePrefix /\ TruncatedIffLost /\ TotalIsWholeStream

\* A concatenation, element by element: the first part is unchanged and the second
\* starts right after it.
LEMMA ConcatFacts ==
  ASSUME NEW S, NEW q \in Seq(S), NEW r \in Seq(S)
  PROVE  /\ q \o r \in Seq(S) /\ Len(q \o r) = Len(q) + Len(r)
         /\ Len(q) \in Nat /\ Len(r) \in Nat
         /\ \A i \in 1..Len(q) : (q \o r)[i] = q[i]
         /\ \A i \in 1..Len(r) : (q \o r)[Len(q) + i] = r[i]
  BY ConcatProperties

\* The empty buffer has captured the empty stream.
LEMMA InitIInv == Init => IInv
  <1> SUFFICES ASSUME Init PROVE IInv
    OBVIOUS
  <1>1. limit \in Int /\ Capacity \in Nat
    BY DEF Init, Capacity
  <1>2. buf = <<>> /\ stream = <<>> /\ totalBytes = 0 /\ truncated = FALSE /\ limit \in Limits
    BY DEF Init
  <1>3. TypeOK
    <2>1. buf \in Seq(Byte) /\ stream \in Seq(Byte) /\ Len(buf) = 0 /\ totalBytes \in Nat
      BY <1>2
    <2>2. Len(buf) <= Capacity
      BY <1>1, <2>1
    <2>3. truncated \in BOOLEAN
      BY <1>2
    <2> QED
      BY <1>2, <2>1, <2>2, <2>3, Zenon DEF TypeOK
  <1>4. KeepsThePrefix /\ TotalIsWholeStream
    BY <1>1, <1>2 DEF KeepsThePrefix, TotalIsWholeStream
  <1>5. TruncatedIffLost
    BY <1>2 DEF TruncatedIffLost
  <1> QED
    BY <1>3, <1>4, <1>5 DEF IInv

\* Storing nothing, all or some of a chunk preserves the invariant.
LEMMA WriteIInv == ASSUME IInv, NEW p \in Chunks, Write(p) PROVE IInv'
  <1>1. /\ limit' = limit /\ limit \in Int /\ Capacity' = Capacity /\ Capacity \in Nat
        /\ limit > 0 => Capacity = limit
        /\ limit <= 0 => Capacity = 0
    BY DEF IInv, TypeOK, Write, Counts, Capacity
  <1>2. /\ p \in Seq(Byte) /\ Len(p) \in Nat
        /\ buf \in Seq(Byte) /\ Len(buf) \in Nat /\ Len(buf) <= Capacity
        /\ stream \in Seq(Byte) /\ Len(stream) \in Nat
    BY DEF IInv, TypeOK
  <1>3. /\ stream' = stream \o p /\ stream' \in Seq(Byte)
        /\ Len(stream') = Len(stream) + Len(p)
        /\ \A i \in 1..Len(stream) : stream'[i] = stream[i]
        /\ \A i \in 1..Len(p) : stream'[Len(stream) + i] = p[i]
    BY <1>2, ConcatFacts DEF Write, Counts
  <1>4. totalBytes' \in Nat /\ TotalIsWholeStream'
    BY <1>2, <1>3 DEF IInv, TypeOK, TotalIsWholeStream, Write, Counts
  <1>5. /\ Len(buf) = IF Len(stream) <= Capacity THEN Len(stream) ELSE Capacity
        /\ \A i \in 1..Len(buf) : buf[i] = stream[i]
        /\ Len(buf) <= Len(stream)
    BY <1>1, <1>2 DEF IInv, KeepsThePrefix
  <1>6. truncated \in BOOLEAN /\ (truncated <=> Len(stream) > Len(buf))
    BY DEF IInv, TypeOK, TruncatedIffLost
  <1>7. CASE StoreNothing(p)
    <2>1. buf' = buf /\ truncated' = (truncated \/ Len(p) > 0)
      BY <1>7 DEF StoreNothing
    <2>2. Len(buf) = Capacity
      BY <1>1, <1>2, <1>7 DEF StoreNothing, Remaining
    <2>3. KeepsThePrefix'
      BY <1>1, <1>2, <1>3, <1>5, <2>1, <2>2 DEF KeepsThePrefix
    <2>4. Len(stream') > Len(buf') <=> (Len(stream) > Len(buf) \/ Len(p) > 0)
      BY <1>2, <1>3, <1>5, <2>1
    <2>5. TruncatedIffLost' /\ truncated' \in BOOLEAN
      BY <1>6, <2>1, <2>4, Zenon DEF TruncatedIffLost
    <2>6. TypeOK'
      BY <1>1, <1>2, <1>3, <1>4, <2>1, <2>5 DEF IInv, TypeOK
    <2> QED
      BY <1>4, <2>3, <2>5, <2>6 DEF IInv
  <1>8. CASE StoreAll(p)
    <2>1. /\ buf' = buf \o p /\ truncated' = truncated
          /\ limit > 0 /\ Len(p) <= limit - Len(buf) /\ Len(buf) < limit
      BY <1>8, <1>1, <1>2 DEF StoreAll, Remaining
    <2>2. /\ buf' \in Seq(Byte) /\ Len(buf') = Len(buf) + Len(p)
          /\ \A i \in 1..Len(buf) : buf'[i] = buf[i]
          /\ \A i \in 1..Len(p) : buf'[Len(buf) + i] = p[i]
      BY <1>2, <2>1, ConcatFacts
    <2>3. Len(stream) = Len(buf) /\ Len(stream') <= Capacity
      BY <1>1, <1>2, <1>3, <1>5, <2>1
    <2>4. \A i \in 1..Len(buf') : buf'[i] = stream'[i]
      <3>1. ASSUME NEW i \in 1..Len(buf') PROVE buf'[i] = stream'[i]
        <4>1. CASE i \in 1..Len(buf)
          BY <4>1, <1>3, <1>5, <2>2, <2>3
        <4>2. CASE i \notin 1..Len(buf)
          <5>1. PICK j \in 1..Len(p) : i = Len(buf) + j
            <6>1. i - Len(buf) \in 1..Len(p) /\ i = Len(buf) + (i - Len(buf))
              BY <4>2, <1>2, <2>2
            <6> QED
              BY <6>1
          <5>2. buf'[i] = p[j]
            BY <2>2, <5>1
          <5>3. stream'[i] = p[j]
            BY <1>3, <2>3, <5>1
          <5> QED
            BY <5>2, <5>3
        <4> QED
          BY <4>1, <4>2
      <3> QED
        BY <3>1
    <2>5. KeepsThePrefix'
      BY <1>1, <1>2, <1>3, <2>2, <2>3, <2>4 DEF KeepsThePrefix
    <2>6. ~(Len(stream) > Len(buf)) /\ ~(Len(stream') > Len(buf'))
      BY <1>2, <1>3, <2>2, <2>3
    <2>7. TruncatedIffLost' /\ truncated' \in BOOLEAN
      BY <1>6, <2>1, <2>6, Zenon DEF TruncatedIffLost
    <2>8. TypeOK'
      BY <1>1, <1>2, <1>3, <1>4, <2>2, <2>3, <2>7 DEF IInv, TypeOK
    <2> QED
      BY <1>4, <2>5, <2>7, <2>8 DEF IInv
  <1>9. CASE StoreSome(p)
    <2> DEFINE r == limit - Len(buf)
    <2>1. /\ buf' = buf \o SubSeq(p, 1, r) /\ truncated' = TRUE
          /\ limit > 0 /\ r \in Nat /\ r > 0 /\ r < Len(p) /\ Capacity = limit
      BY <1>9, <1>1, <1>2 DEF StoreSome, Remaining
    <2>2. /\ SubSeq(p, 1, r) \in Seq(Byte) /\ Len(SubSeq(p, 1, r)) = r
          /\ \A i \in 1..r : SubSeq(p, 1, r)[i] = p[i]
      BY <1>2, <2>1
    <2>3. /\ buf' \in Seq(Byte) /\ Len(buf') = Len(buf) + r
          /\ \A i \in 1..Len(buf) : buf'[i] = buf[i]
          /\ \A i \in 1..r : buf'[Len(buf) + i] = p[i]
      <3> HIDE DEF r
      <3> QED
        BY <1>2, <2>1, <2>2, ConcatFacts
    <2>4. Len(stream) = Len(buf) /\ Len(buf') = Capacity /\ Len(stream') > Capacity
      BY <1>1, <1>2, <1>3, <1>5, <2>1, <2>3
    <2>5. \A i \in 1..Len(buf') : buf'[i] = stream'[i]
      <3> HIDE DEF r
      <3>1. ASSUME NEW i \in 1..Len(buf') PROVE buf'[i] = stream'[i]
        <4>1. CASE i \in 1..Len(buf)
          BY <4>1, <1>3, <1>5, <2>3, <2>4
        <4>2. CASE i \notin 1..Len(buf)
          <5>1. i - Len(buf) \in 1..r /\ i = Len(buf) + (i - Len(buf))
            BY <4>2, <1>2, <2>1, <2>3
          <5>2. i - Len(buf) \in 1..Len(p)
            BY <5>1, <1>2, <2>1
          <5> QED
            BY <5>1, <5>2, <1>3, <2>3, <2>4
        <4> QED
          BY <4>1, <4>2
      <3> QED
        BY <3>1
    <2>6. KeepsThePrefix'
      BY <1>1, <1>2, <1>3, <2>4, <2>5 DEF KeepsThePrefix
    <2>7. Len(stream') > Len(buf')
      BY <2>4, <1>1, <1>2, <1>3
    <2>8. TruncatedIffLost' /\ truncated' \in BOOLEAN
      BY <2>1, <2>7, Zenon DEF TruncatedIffLost
    <2>9. TypeOK'
      BY <1>1, <1>2, <1>3, <1>4, <2>3, <2>4, <2>8 DEF IInv, TypeOK
    <2> QED
      BY <1>4, <2>6, <2>8, <2>9 DEF IInv
  <1> QED
    BY <1>7, <1>8, <1>9 DEF Write

\* Every reachable buffer satisfies the invariant.
THEOREM Invariance == Spec => []IInv
  <1>1. IInv /\ [Next]_vars => IInv'
    <2> SUFFICES ASSUME IInv, [Next]_vars PROVE IInv'
      OBVIOUS
    <2>1. CASE Next
      BY <2>1, WriteIInv DEF Next
    <2>2. CASE UNCHANGED vars
      BY <2>2 DEF vars, IInv, TypeOK, KeepsThePrefix, TruncatedIffLost,
                  TotalIsWholeStream, Capacity
    <2> QED
      BY <2>1, <2>2
  <1> QED
    BY <1>1, InitIInv, PTL DEF Spec

\* The buffer is never larger than -max-capture-bytes.
THEOREM TypeCorrect == Spec => []TypeOK
  <1>1. IInv => TypeOK
    BY DEF IInv
  <1> QED
    BY <1>1, Invariance, PTL

\* What is logged of a stream is its beginning, cut only by the limit.
THEOREM PrefixIsKept == Spec => []KeepsThePrefix
  <1>1. IInv => KeepsThePrefix
    BY DEF IInv
  <1> QED
    BY <1>1, Invariance, PTL

\* The truncated flag of an entry is right in both directions.
THEOREM TruncationIsReported == Spec => []TruncatedIffLost
  <1>1. IInv => TruncatedIffLost
    BY DEF IInv
  <1> QED
    BY <1>1, Invariance, PTL

\* Building a log entry from the buffer does not disturb it: what is true of every
\* capture buffer is true of this one, at every moment of the entry's making.
THEOREM StillACappedBuffer == TextSpec => Spec
  <1>1. TextInit => Init
    BY DEF TextInit
  <1>2. [TextNext]_textVars => [Next]_vars
    BY DEF TextNext, Captures, Log, textVars, vars
  <1> QED
    BY <1>1, <1>2, PTL DEF TextSpec, Spec

-----------------------------------------------------------------------------
\* The redacted entry.
\* A name in upper case is its own upper case.
LEMMA UpperTwice ==
  ASSUME NEW p \in Names
  PROVE  Upper(Upper(p)) = Upper(p)
  <1>1. \A i \in DOMAIN p : p[i] \in DOMAIN UpperCase
    <2>1. PICK C : C = DOMAIN UpperCase
      OBVIOUS
    <2>2. p \in Seq(C)
      BY <2>1 DEF Names
    <2>3. \A i \in DOMAIN p : p[i] \in C
      BY <2>2
    <2> QED
      BY <2>1, <2>3
  <1>2. PICK q : q = Upper(p)
    OBVIOUS
  <1>3. DOMAIN q = DOMAIN p /\ \A i \in DOMAIN p : q[i] = UpperCase[p[i]]
    BY <1>2 DEF Upper
  <1>4. \A i \in DOMAIN p : UpperCase[q[i]] = q[i]
    BY <1>1, <1>3, UpperCaseAssumption
  <1>5. Upper(q) = [i \in DOMAIN p |-> UpperCase[p[i]]]
    BY <1>3, <1>4 DEF Upper
  <1> QED
    BY <1>2, <1>5 DEF Upper

\* Normalising rules that are normalised changes nothing.
LEMMA NormalizeTwice ==
  ASSUME NEW S \in SUBSET Names
  PROVE  Normalize({Upper(p) : p \in S} \ {<<>>}) = Normalize(S)
  <1>1. \A p \in S : Upper(Upper(p)) = Upper(p)
    BY UpperTwice
  <1> QED
    BY <1>1 DEF Normalize

\* The same for all three kinds of rules: the redactors are equal.
LEMMA SameRedactor ==
  ASSUME NEW cfg \in Rules
  PROVE  NewRedactor([r \in DOMAIN cfg |-> {Upper(p) : p \in cfg[r]} \ {<<>>}]) = NewRedactor(cfg)
  <1>1. /\ DOMAIN cfg = {"names", "prefixes", "suffixes"}
        /\ cfg.names \in SUBSET Names /\ cfg.prefixes \in SUBSET Names /\ cfg.suffixes \in SUBSET Names
    BY RulesAssumption
  <1>2. PICK again : again = [r \in DOMAIN cfg |-> {Upper(p) : p \in cfg[r]} \ {<<>>}]
    OBVIOUS
  <1>3. /\ again.names = {Upper(p) : p \in cfg.names} \ {<<>>}
        /\ again.prefixes = {Upper(p) : p \in cfg.prefixes} \ {<<>>}
        /\ again.suffixes = {Upper(p) : p \in cfg.suffixes} \ {<<>>}
    BY <1>1, <1>2
  <1>4. /\ Normalize(again.names) = Normalize(cfg.names)
        /\ Normalize(again.prefixes) = Normalize(cfg.prefixes)
        /\ Normalize(again.suffixes) = Normalize(cfg.suffixes)
    BY <1>1, <1>3, NormalizeTwice
  <1> QED
    BY <1>2, <1>4 DEF NewRedactor

\* The fields of an entry are what they should be.
Entry ==
  [env : Env, before_env : Env, args : Seq(Texts), texts : [TextFields -> Texts],
   command : Texts, before_cwd : Texts, cwd : Texts]

\* An entry, once there is one, is the redaction of what was given to Log.
Queued ==
  logged # <<>> =>
    /\ logged[1].cfg \in Rules
    /\ logged[1].given \in Entry
    /\ logged[1].queued = RedactEntry(NewRedactor(logged[1].cfg), logged[1].given)

\* Inductive for the buffer and the entry together.
TextInv == IInv /\ Queued

\* What runExternal gives to Log is a proper entry, whatever the buffer has kept.
LEMMA GivenIsAnEntry ==
  ASSUME IInv, NEW env \in Environments, NEW line \in CommandLines, NEW program \in Programs,
         NEW dir \in Directories
  PROVE  EntryOf(env, line, program, dir) \in Entry
  <1>1. env \in Env /\ line \in Texts /\ program \in Texts /\ dir \in Texts
    BY EnvironmentsAssumption, CommandLinesAssumption, ProgramsAssumption, DirectoriesAssumption DEF Env
  <1>2. buf \in Texts /\ <<>> \in Texts
    BY DEF IInv, TypeOK, Texts
  <1>3. <<line>> \in Seq(Texts)
    BY <1>1
  <1> QED
    BY <1>1, <1>2, <1>3 DEF Entry, EntryOf

\* Filling the buffer leaves the entry alone; Log takes what the buffer holds.
LEMMA TextInvariant == TextSpec => []TextInv
  <1>1. TextInit => TextInv
    BY InitIInv DEF TextInit, TextInv, Queued
  <1>2. ASSUME TextInv, [TextNext]_textVars PROVE TextInv'
    <2>1. ASSUME logged' = logged, Queued PROVE Queued'
      BY <2>1 DEF Queued
    <2>2. CASE Captures
      BY <1>2, <2>1, <2>2, WriteIInv DEF Captures, Next, TextInv
    <2>3. CASE Log
      <3>1. IInv'
        BY <1>2, <2>3 DEF Log, TextInv, vars, IInv, TypeOK, KeepsThePrefix, TruncatedIffLost,
                          TotalIsWholeStream, Capacity
      <3>2. PICK cfg \in Rules, env \in Environments, line \in CommandLines, program \in Programs,
                 dir \in Directories :
              logged' = <<[cfg |-> cfg, given |-> EntryOf(env, line, program, dir),
                           queued |-> RedactEntry(NewRedactor(cfg),
                                                  EntryOf(env, line, program, dir))]>>
        BY <2>3 DEF Log
      <3>3. EntryOf(env, line, program, dir) \in Entry
        BY <1>2, GivenIsAnEntry DEF TextInv
      <3>4. PICK given \in Entry : given = EntryOf(env, line, program, dir)
        BY <3>3
      <3>5. PICK entry : entry = RedactEntry(NewRedactor(cfg), given)
        OBVIOUS
      <3>6. logged'[1].cfg = cfg /\ logged'[1].given = given /\ logged'[1].queued = entry
        BY <3>2, <3>4, <3>5
      <3>7. Queued'
        BY <3>4, <3>5, <3>6 DEF Queued
      <3> QED
        BY <3>1, <3>7 DEF TextInv
    <2>4. CASE UNCHANGED textVars
      BY <1>2, <2>1, <2>4 DEF textVars, TextInv, vars, IInv, TypeOK, KeepsThePrefix,
                              TruncatedIffLost, TotalIsWholeStream, Capacity
    <2> QED
      BY <1>2, <2>2, <2>3, <2>4 DEF TextNext
  <1> QED
    BY <1>1, <1>2, PTL DEF TextSpec

\* What redactLogEntry does to each field.
LEMMA RedactEntryFacts ==
  ASSUME NEW rules, NEW given \in Entry, NEW secrets, secrets = SecretValues(rules, given.env),
         NEW queued, queued = RedactEntry(rules, given)
  PROVE  /\ queued.env = RedactEnv(rules, given.env)
         /\ \A f \in TextFields : queued.texts[f] = Replace(secrets, given.texts[f])
         /\ DOMAIN queued.args = DOMAIN given.args
         /\ \A i \in DOMAIN given.args : queued.args[i] = Replace(secrets, given.args[i])
  <1>1. PICK env : env = RedactEnv(rules, given.env)
    OBVIOUS
  <1>2. PICK texts : texts = [f \in TextFields |-> Replace(secrets, given.texts[f])]
    OBVIOUS
  <1>3. PICK args : args = [i \in DOMAIN given.args |-> Replace(secrets, given.args[i])]
    OBVIOUS
  <1>4. queued = [given EXCEPT !.env = env, !.texts = texts, !.args = args]
    BY <1>1, <1>2, <1>3 DEF RedactEntry
  <1>5. queued.env = env /\ queued.texts = texts /\ queued.args = args
    BY <1>4 DEF Entry
  <1> QED
    BY <1>1, <1>2, <1>3, <1>5

\* The texts of a queued entry are those given to Log, with the secrets replaced.
LEMMA PairsAreReplaced ==
  ASSUME Queued, logged # <<>>, NEW pair \in TextPairs(logged[1].given, logged[1].queued)
  PROVE  IsSecrets(Secrets) /\ pair[1] \in Texts /\ pair[2] = Replace(Secrets, pair[1])
  <1>1. PICK given \in Entry : given = logged[1].given
    BY DEF Queued
  <1>2. PICK rules : rules = NewRedactor(logged[1].cfg)
    OBVIOUS
  <1>3. PICK secrets : secrets = SecretValues(rules, given.env)
    OBVIOUS
  <1>4. Secrets = secrets
    BY <1>1, <1>2, <1>3 DEF Secrets, RulesOf
  <1>5. /\ given.env \in Env /\ given.args \in Seq(Texts)
        /\ \A f \in TextFields : given.texts[f] \in Texts
    BY DEF Entry
  <1>6. IsSecrets(secrets)
    BY <1>3, <1>5, SecretValuesFacts
  <1>7. PICK queued : queued = logged[1].queued /\ queued = RedactEntry(rules, given)
    BY <1>1, <1>2 DEF Queued
  <1>8. /\ \A f \in TextFields : queued.texts[f] = Replace(secrets, given.texts[f])
        /\ \A i \in DOMAIN given.args : queued.args[i] = Replace(secrets, given.args[i])
    BY <1>3, <1>7, RedactEntryFacts
  <1>9. pair \in TextPairs(given, queued)
    BY <1>1, <1>7
  <1>10. CASE \E f \in TextFields : pair = <<given.texts[f], queued.texts[f]>>
    <2>1. PICK f \in TextFields : pair = <<given.texts[f], queued.texts[f]>>
      BY <1>10
    <2> QED
      BY <1>4, <1>5, <1>6, <1>8, <2>1
  <1>11. CASE \E i \in DOMAIN given.args : pair = <<given.args[i], queued.args[i]>>
    <2>1. PICK i \in DOMAIN given.args : pair = <<given.args[i], queued.args[i]>>
      BY <1>11
    <2>2. given.args[i] \in Texts
      <3>1. PICK T : T = Texts
        OBVIOUS
      <3>2. given.args[i] \in T
        BY <1>5, <3>1, <2>1
      <3> QED
        BY <3>1, <3>2
    <2> QED
      BY <1>4, <1>6, <1>8, <2>1, <2>2
  <1> QED
    BY <1>9, <1>10, <1>11 DEF TextPairs

\* Masking the environment leaves no variable with a secret name its value.
LEMMA RedactEnvMasks ==
  ASSUME NEW rules, NEW env \in Env
  PROVE  MaskedIn(rules, RedactEnv(rules, env))
  <1>1. PICK masked : masked = RedactEnv(rules, env)
    OBVIOUS
  <1>2. PICK val : val = <<Mask>>
    OBVIOUS
  <1>3. PICK T : T = [key : Names, value : Texts]
    OBVIOUS
  <1>4. \A i \in DOMAIN env : env[i] \in T
    <2>1. env \in Seq(T)
      BY <1>3 DEF Env
    <2> QED
      BY <2>1
  <1>5. ASSUME NEW i \in DOMAIN masked, ShouldMask(rules, masked[i].key) PROVE masked[i].value = val
    <2>1. /\ i \in DOMAIN env
          /\ masked[i] = IF ShouldMask(rules, env[i].key) THEN [env[i] EXCEPT !.value = val] ELSE env[i]
      BY <1>1, <1>2 DEF RedactEnv
    <2>2. PICK var \in [key : Names, value : Texts] : var = env[i]
      BY <1>3, <1>4, <2>1
    <2>3. CASE ShouldMask(rules, var.key)
      <3>1. masked[i] = [var EXCEPT !.value = val]
        BY <2>1, <2>2, <2>3
      <3> QED
        BY <3>1
    <2>4. CASE ~ShouldMask(rules, var.key)
      <3>1. masked[i] = var
        BY <2>1, <2>2, <2>4
      <3> QED
        BY <1>5, <2>4, <3>1
    <2> QED
      BY <2>3, <2>4
  <1> QED
    BY <1>1, <1>2, <1>5 DEF MaskedIn

\* A text of a queued entry is in a field that redactLogEntry passes over, or has been
\* through the replacer.
Copied(text) == text[1] \in {"before_env", "env", "command", "before_cwd", "cwd"}

LEMMA TextsAreCopiedOrPaired ==
  ASSUME Queued, logged # <<>>, NEW text \in TextsIn(logged[1].queued)
  PROVE  \/ Copied(text)
         \/ \E pair \in TextPairs(logged[1].given, logged[1].queued) : text[2] = pair[2]
  <1>1. PICK given \in Entry : given = logged[1].given
    BY DEF Queued
  <1>2. PICK queued : queued = logged[1].queued
                      /\ queued = RedactEntry(NewRedactor(logged[1].cfg), given)
    BY <1>1 DEF Queued
  <1>3. DOMAIN queued.args = DOMAIN given.args
    BY <1>2, RedactEntryFacts
  <1>4. text \in TextsIn(queued)
    BY <1>2
  <1>5. CASE \E f \in TextFields : text = <<f, queued.texts[f]>>
    <2>1. PICK f \in TextFields : text = <<f, queued.texts[f]>>
      BY <1>5
    <2>2. PICK pair : pair = <<given.texts[f], queued.texts[f]>>
      OBVIOUS
    <2>3. pair \in TextPairs(given, queued) /\ text[2] = pair[2]
      BY <2>1, <2>2 DEF TextPairs
    <2> QED
      BY <1>1, <1>2, <2>3
  <1>6. CASE \E i \in DOMAIN queued.args : text = <<"args", queued.args[i]>>
    <2>1. PICK i \in DOMAIN queued.args : text = <<"args", queued.args[i]>>
      BY <1>6
    <2>2. PICK pair : pair = <<given.args[i], queued.args[i]>>
      OBVIOUS
    <2>3. pair \in TextPairs(given, queued) /\ text[2] = pair[2]
      BY <1>3, <2>1, <2>2 DEF TextPairs
    <2> QED
      BY <1>1, <1>2, <2>3
  <1>7. CASE \/ \E i \in DOMAIN queued.env : text = <<"env", queued.env[i].value>>
             \/ \E i \in DOMAIN queued.before_env : text = <<"before_env", queued.before_env[i].value>>
             \/ text \in {<<"command", queued.command>>, <<"before_cwd", queued.before_cwd>>,
                          <<"cwd", queued.cwd>>}
    BY <1>7 DEF Copied
  <1> QED
    BY <1>4, <1>5, <1>6, <1>7 DEF TextsIn

\* Every variable with a secret name is masked in the environment a command left, and
\* a value of such a variable that is looked for is left only in the fields that
\* redactLogEntry passes over: before_env, other variables, command and directories.
THEOREM ScrubbedOutsideCopies == TextSpec => []SecretsOnlyInCopiedFields
  <1>1. ASSUME TextInv, logged # <<>>
        PROVE  MaskedIn(RulesOf(logged[1]), logged[1].queued.env)
    <2>1. PICK given \in Entry : given = logged[1].given
      BY <1>1 DEF TextInv, Queued
    <2>2. PICK rules : rules = RulesOf(logged[1]) /\ rules = NewRedactor(logged[1].cfg)
      BY DEF RulesOf
    <2>3. PICK queued : queued = logged[1].queued /\ queued = RedactEntry(rules, given)
      BY <1>1, <2>1, <2>2 DEF TextInv, Queued
    <2>4. queued.env = RedactEnv(rules, given.env)
      BY <2>3, RedactEntryFacts
    <2>5. given.env \in Env
      BY DEF Entry
    <2> QED
      BY <2>2, <2>3, <2>4, <2>5, RedactEnvMasks
  <1>2. ASSUME TextInv, logged # <<>>, NEW s \in DOMAIN Secrets, ~Contains(Secrets[s], Mask),
               NEW text \in TextsIn(logged[1].queued), Occurs(Secrets[s], text[2])
        PROVE  Copied(text)
    <2> SUFFICES ASSUME NEW pair \in TextPairs(logged[1].given, logged[1].queued), text[2] = pair[2]
                 PROVE  FALSE
      BY <1>2, TextsAreCopiedOrPaired DEF TextInv
    <2>1. IsSecrets(Secrets) /\ pair[1] \in Texts /\ pair[2] = Replace(Secrets, pair[1])
      BY <1>2, PairsAreReplaced DEF TextInv
    <2>2. PICK secrets : secrets = Secrets
      OBVIOUS
    <2>3. PICK before \in Texts : before = pair[1]
      BY <2>1
    <2>4. ~Occurs(secrets[s], Replace(secrets, before))
      BY <1>2, <2>1, <2>2, ReplaceScrubs
    <2> QED
      BY <1>2, <2>1, <2>2, <2>3, <2>4
  <1>3. TextInv => SecretsOnlyInCopiedFields
    BY <1>1, <1>2 DEF SecretsOnlyInCopiedFields, Copied
  <1> QED
    BY <1>3, TextInvariant, PTL

\* Redaction loses nothing but secrets: every queued text is the one the command had
\* with some whole secrets in it replaced, and rules written differently or blank
\* mask nothing more.
THEOREM NothingElseIsLost == TextSpec => []OnlySecretsChange
  <1>1. ASSUME TextInv, logged # <<>>, NEW pair \in TextPairs(logged[1].given, logged[1].queued)
        PROVE  IsLeftOf(Secrets, pair[1], pair[2])
    <2>1. IsSecrets(Secrets) /\ pair[1] \in Texts /\ pair[2] = Replace(Secrets, pair[1])
      BY <1>1, PairsAreReplaced DEF TextInv
    <2>2. PICK secrets : secrets = Secrets
      OBVIOUS
    <2>3. PICK text \in Texts : text = pair[1]
      BY <2>1
    <2>4. IsLeftOf(secrets, text, Replace(secrets, text))
      BY <2>1, <2>2, ReplaceAccounts
    <2> QED
      BY <2>1, <2>2, <2>3, <2>4
  <1>2. ASSUME TextInv, logged # <<>>
        PROVE  LET cfg   == logged[1].cfg
                   again == [r \in DOMAIN cfg |-> {Upper(p) : p \in cfg[r]} \ {<<>>}]
               IN  RedactEntry(NewRedactor(again), logged[1].given) = logged[1].queued
    <2>1. PICK cfg \in Rules : cfg = logged[1].cfg
      BY <1>2 DEF TextInv, Queued
    <2>2. NewRedactor([r \in DOMAIN cfg |-> {Upper(p) : p \in cfg[r]} \ {<<>>}]) = NewRedactor(cfg)
      BY SameRedactor
    <2> QED
      BY <1>2, <2>1, <2>2 DEF TextInv, Queued
  <1>3. TextInv => OnlySecretsChange
    BY <1>1, <1>2 DEF OnlySecretsChange
  <1> QED
    BY <1>3, TextInvariant, PTL
=============================================================================
