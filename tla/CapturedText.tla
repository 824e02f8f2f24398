----------------------------- MODULE CapturedText ------------------------------
(***************************************************************************)
(* What a reader of the log sees of a command's output: the capture buffer *)
(* of CappedBuffer filled write by write, and the redaction of the entry   *)
(* that is built from it (runExternal, then Log).                          *)
(***************************************************************************)
EXTENDS CappedBuffer, Redaction

CONSTANTS
  Environments,  \* environments a command may leave, as sequences of variables
  Rules,         \* redaction rules as configured
  CommandLines,  \* raw command lines
  Programs,      \* names of programs, as they are started
  Directories    \* working directories

Texts == Seq(Byte \cup {Mask})
Names == Seq(DOMAIN UpperCase)

ASSUME CommandLinesAssumption == CommandLines \subseteq Texts
ASSUME ProgramsAssumption == Programs \subseteq Texts
ASSUME DirectoriesAssumption == Directories \subseteq Texts
ASSUME EnvironmentsAssumption == Environments \subseteq Seq([key : Names, value : Texts])
ASSUME RulesAssumption ==
  Rules \subseteq [names : SUBSET Names, prefixes : SUBSET Names, suffixes : SUBSET Names]

VARIABLE logged  \* the entry given to Log and what was queued, once there is one

textVars == <<vars, logged>>

TextInit == Init /\ logged = <<>>

\* The entry of runExternal: an external command leaves the session's environment and
\* directory alone, so each is there twice.
EntryOf(env, line, program, dir) ==
  [env |-> env, before_env |-> env, args |-> <<line>>, command |-> program,
   before_cwd |-> dir, cwd |-> dir,
   texts |-> [f \in TextFields |->
                CASE f = "raw_command" -> line [] f = "stdout" -> buf [] OTHER -> <<>>]]

Captures == logged = <<>> /\ Next /\ UNCHANGED logged

\* Log, up to the send.
Log ==
  /\ logged = <<>>
  /\ \E cfg \in Rules, env \in Environments, line \in CommandLines, program \in Programs,
        dir \in Directories :
       LET entry == EntryOf(env, line, program, dir)
       IN  logged' = <<[cfg |-> cfg, given |-> entry,
                        queued |-> RedactEntry(NewRedactor(cfg), entry)]>>
  /\ UNCHANGED vars

TextNext == Captures \/ Log

TextSpec == TextInit /\ [][TextNext]_textVars

-----------------------------------------------------------------------------
\* The texts of the first entry beside those of the second.
TextPairs(given, queued) ==
  {<<given.texts[f], queued.texts[f]>> : f \in TextFields}
    \cup {<<given.args[i], queued.args[i]>> : i \in DOMAIN given.args}

RulesOf(entry) == NewRedactor(entry.cfg)

Secrets == SecretValues(RulesOf(logged[1]), logged[1].given.env)

\* Every text of an entry beside the field it is in.
TextsIn(entry) ==
  {<<f, entry.texts[f]>> : f \in TextFields}
    \cup {<<"args", entry.args[i]>> : i \in DOMAIN entry.args}
    \cup {<<"env", entry.env[i].value>> : i \in DOMAIN entry.env}
    \cup {<<"before_env", entry.before_env[i].value>> : i \in DOMAIN entry.before_env}
    \cup {<<"command", entry.command>>, <<"before_cwd", entry.before_cwd>>, <<"cwd", entry.cwd>>}

MaskedIn(rules, env) == \A i \in DOMAIN env : ShouldMask(rules, env[i].key) => env[i].value = <<Mask>>

\* "Secret values are scrubbed from command text and captured outputs" (internal
\* README), and how far: in the environment the command left, every variable with a
\* secret name is masked. A value of such a variable that is long enough to be looked
\* for is nowhere in the arguments, the raw command line and the captured texts,
\* however several such values lie over each other and however the output was cut into
\* writes. It can still be in the fields redactLogEntry passes over: the environment
\* before the command, other variables, the command's name and the directories. A
\* value of fewer than MinScrub characters can be anywhere.
SecretsOnlyInCopiedFields ==
  logged # <<>> =>
    /\ MaskedIn(RulesOf(logged[1]), logged[1].queued.env)
    /\ \A i \in DOMAIN Secrets : ~Contains(Secrets[i], Mask) =>
         \A text \in TextsIn(logged[1].queued) :
           Occurs(Secrets[i], text[2]) =>
             text[1] \in {"before_env", "env", "command", "before_cwd", "cwd"}

\* "Secret env vars are masked automatically" (README): in a queued entry every
\* variable with a secret name has its value masked, in both of its environments.
SecretVariablesAreMasked ==
  logged # <<>> =>
    /\ MaskedIn(RulesOf(logged[1]), logged[1].queued.env)
    /\ MaskedIn(RulesOf(logged[1]), logged[1].queued.before_env)

\* Of how much of before the first characters of after can be what is left: a mask
\* stands for one of the secrets, or for itself; any other character for itself.
Accounts(secrets, before, after) ==
  LET upTo[i \in 0..Len(after)] ==
        IF i = 0 THEN {0}
        ELSE LET starts == upTo[i - 1]
                 parts  == IF after[i] = Mask THEN Range(secrets) \cup {<<Mask>>} ELSE {<<after[i]>>}
             IN  {m \in 0..Len(before) : \E n \in starts, part \in parts :
                                          m = n + Len(part) /\ OccursAt(part, before, n + 1)}
  IN  upTo

IsLeftOf(secrets, before, after) == Len(before) \in Accounts(secrets, before, after)[Len(after)]

\* Nothing but secrets is lost: a queued text is the one the command had, with some
\* whole secrets in it replaced; and blank or differently written rules, as a list
\* with a comma too many gives, mask nothing more.
OnlySecretsChange ==
  logged # <<>> =>
    /\ \A pair \in TextPairs(logged[1].given, logged[1].queued) : IsLeftOf(Secrets, pair[1], pair[2])
    /\ LET cfg   == logged[1].cfg
           again == [r \in DOMAIN cfg |-> {Upper(p) : p \in cfg[r]} \ {<<>>}]
       IN  RedactEntry(NewRedactor(again), logged[1].given) = logged[1].queued
=============================================================================
