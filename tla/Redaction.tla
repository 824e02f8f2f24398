------------------------------- MODULE Redaction -------------------------------
(***************************************************************************)
(* redactLogEntry and what it uses (src/internal/pipery/logger.go): the    *)
(* values of variables whose names look secret are replaced by a mask, in  *)
(* the environment of a log entry and wherever they occur in its texts.    *)
(* The environment before the command, the command's name and the          *)
(* directories are left as they are.                                       *)
(*                                                                         *)
(* Names and texts are sequences of characters. Mask is the text           *)
(* "[MASKED]", taken as one character: no value is looked for inside it.   *)
(* An environment is the sequence of its variables, [key, value], in the   *)
(* order of the entry.                                                     *)
(***************************************************************************)
EXTENDS Integers, SequencesExt

CONSTANTS
  Mask,
  MinScrub,     \* a shorter value is not looked for in texts, 4 in the code
  UpperCase,    \* characters to their upper case
  GithubToken,  \* the name GITHUB_TOKEN
  Markers       \* names that contain one of these are secret

ASSUME MinScrubAssumption == MinScrub \in Nat \ {0}
ASSUME UpperCaseAssumption ==
  \A c \in DOMAIN UpperCase : UpperCase[c] \in DOMAIN UpperCase /\ UpperCase[UpperCase[c]] = UpperCase[c]

Upper(name) == [i \in DOMAIN name |-> UpperCase[name[i]]]

OccursAt(part, text, i) ==
  i + Len(part) - 1 <= Len(text) /\ SubSeq(text, i, i + Len(part) - 1) = part

Occurs(part, text) == \E i \in 1..Len(text) : OccursAt(part, text, i)

\* normalizeMatchers: a blank rule would match every name.
NormalizeKeepingBlanks(patterns) == {Upper(p) : p \in patterns}

Normalize(patterns) == {Upper(p) : p \in patterns} \ {<<>>}

NewRedactor(cfg) ==
  [names |-> Normalize(cfg.names), prefixes |-> Normalize(cfg.prefixes),
   suffixes |-> Normalize(cfg.suffixes)]

ShouldMask(rules, key) ==
  LET name == Upper(key)
  IN  \/ name = GithubToken
      \/ name \in rules.names
      \/ \E p \in rules.prefixes : IsPrefix(p, name)
      \/ \E s \in rules.suffixes : IsSuffix(s, name)
      \/ \E m \in Markers : Occurs(m, name)

ShouldScrub(value) == Len(value) >= MinScrub \/ Contains(value, Mask)

\* The values to look for, in the order of their variables.
SecretValues(rules, env) ==
  LET values[i \in 0..Len(env)] ==
        IF i = 0 THEN <<>>
        ELSE IF ShouldMask(rules, env[i].key) /\ ShouldScrub(env[i].value)
          THEN Append(values[i - 1], env[i].value)
        ELSE values[i - 1]
  IN  values[Len(env)]

RedactEnv(rules, env) ==
  [i \in DOMAIN env |->
     IF ShouldMask(rules, env[i].key) THEN [env[i] EXCEPT !.value = <<Mask>>] ELSE env[i]]

\* strings.Replacer: from left to right, at each place the first secret of the list
\* that is there; what it covers is not looked at again. done is the text so far and
\* how much of what follows is covered.
FirstAt(secrets, text, i) ==
  LET there == {s \in DOMAIN secrets : OccursAt(secrets[s], text, i)}
  IN  IF there = {} THEN 0 ELSE Min(there)

Advance(secrets, text, i, done) ==
  LET s == FirstAt(secrets, text, i)
  IN  IF done.covered > 0 THEN [text |-> done.text, covered |-> done.covered - 1]
      ELSE IF s = 0 THEN [text |-> Append(done.text, text[i]), covered |-> 0]
      ELSE [text |-> Append(done.text, Mask), covered |-> Len(secrets[s]) - 1]

Replacing(secrets, text) ==
  LET done[i \in 0..Len(text)] ==
        IF i = 0 THEN [text |-> <<>>, covered |-> 0]
        ELSE Advance(secrets, text, i, done[i - 1])
  IN  done

ReplaceTheFirstOnly(secrets, text) ==
  Replacing(IF secrets = <<>> THEN <<>> ELSE <<secrets[1]>>, text)[Len(text)].text

Replace(secrets, text) == Replacing(secrets, text)[Len(text)].text

\* An entry: its environment before the command and after it, its five texts by name,
\* its arguments, the command and the directories. What has no EXCEPT of its own here,
\* before_env with it, is queued as it was given.
TextFields == {"raw_command", "stdin", "stdout", "stderr", "error"}

RedactEntry(rules, entry) ==
  LET secrets == SecretValues(rules, entry.env)
  IN  [entry EXCEPT
         !.env   = RedactEnv(rules, entry.env),
         !.texts = [f \in TextFields |-> Replace(secrets, entry.texts[f])],
         !.args  = [i \in DOMAIN entry.args |-> Replace(secrets, entry.args[i])]]
=============================================================================
