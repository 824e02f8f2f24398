--------------------------------- MODULE Config ---------------------------------
(***************************************************************************)
(* parseArgs (src/internal/pipery/config.go): the settings of a run from   *)
(* the built-in defaults, a YAML file, PIPERY_* variables and flags, each  *)
(* overriding the ones before it.                                          *)
(*                                                                         *)
(* A text that somebody wrote is what it reads as: a number, a duration, a *)
(* truth value, or words with commas between them (none is the empty text; *)
(* a YAML list is its words) or with blanks. A value in YAML is a text, or *)
(* a number or a truth value of YAML's own. "settings" are a function on   *)
(* the keys a source mentions; a YAML null counts as no mention.           *)
(***************************************************************************)
EXTENDS Integers, SequencesExt, TLC

CONSTANT Second  \* a second in nanoseconds

ASSUME SecondAssumption == Second \in Nat \ {0}

Number(n)  == [number |-> n]
Seconds(n) == [seconds |-> n]
Truth(b)   == [truth |-> b]
Words(ws)  == [words |-> ws]
Spaced(ws) == [spaced |-> ws]
Empty      == Words(<<>>)
Text == [number : Int] \cup [seconds : Int] \cup [truth : BOOLEAN] \cup [words : Seq(STRING)]
          \cup [spaced : {ws \in Seq(STRING) : Len(ws) > 1}]

YamlInt(n)  == [int |-> n]
YamlBool(b) == [bool |-> b]
Raw == Text \cup [int : Int] \cup [bool : BOOLEAN]

Reads(raw, form) == form \in DOMAIN raw

\* The fields of config that more than one source can set.
KindOf ==
  [log_file |-> "string", replay_log_file |-> "string", syslog |-> "string",
   syslog_tag |-> "string", shell |-> "string", prompt |-> "string",
   queue_size |-> "int", max_capture_bytes |-> "int",
   fail_on_error |-> "bool", flush_timeout |-> "duration",
   replay_files |-> "list", secret_names |-> "list",
   secret_prefixes |-> "list", secret_suffixes |-> "list"]
Keys == DOMAIN KindOf

\* defaultConfig.
Defaults ==
  [log_file |-> Words(<<"pipery.jsonl">>), replay_log_file |-> Empty, syslog |-> Empty,
   syslog_tag |-> Words(<<"psh">>), shell |-> Words(<<"/bin/sh">>), prompt |-> Words(<<"psh>">>),
   queue_size |-> 256, max_capture_bytes |-> 256 * 1024,
   fail_on_error |-> FALSE, flush_timeout |-> 3 * Second,
   replay_files |-> <<>>, secret_names |-> <<>>,
   secret_prefixes |-> <<>>, secret_suffixes |-> <<>>]

\* The text of a value of YAML's own.
AsText(raw) ==
  IF Reads(raw, "int") THEN Number(raw.int)
  ELSE IF Reads(raw, "bool") THEN Truth(raw.bool) ELSE raw

\* viper's GetInt, GetDuration and so on: a text that does not read as the kind is a
\* zero, a number that should be a duration counts nanoseconds. YAML's true is the
\* number 1, and any of its numbers but 0 is true; the text 1 is true, other numbers in
\* a text are not. A list is split at blanks as well as at commas.
Cast(kind, raw) ==
  CASE kind = "string"   -> AsText(raw)
    [] kind = "list"     -> IF Reads(raw, "words") THEN raw.words
                            ELSE IF Reads(raw, "spaced") THEN raw.spaced ELSE <<AsText(raw)>>
    [] kind = "int"      -> IF Reads(raw, "number") THEN raw.number
                            ELSE IF Reads(raw, "int") THEN raw.int
                            ELSE IF raw = YamlBool(TRUE) THEN 1 ELSE 0
    [] kind = "bool"     -> \/ raw \in {Truth(TRUE), Number(1), YamlBool(TRUE)}
                            \/ Reads(raw, "int") /\ raw.int # 0
    [] kind = "duration" -> IF Reads(raw, "seconds") THEN raw.seconds * Second
                            ELSE IF Reads(raw, "number") THEN raw.number
                            ELSE IF Reads(raw, "int") THEN raw.int ELSE 0

\* What a flag makes of a text: the same, but a list is split at commas only.
FlagValue(kind, raw) ==
  IF kind = "list" /\ Reads(raw, "spaced") THEN <<raw>> ELSE Cast(kind, raw)

\* The flag package refuses what does not read as the flag's type. A duration
\* other than 0 needs a unit.
FlagTakes(kind, raw) ==
  CASE kind = "int"      -> Reads(raw, "number")
    [] kind = "bool"     -> Reads(raw, "truth") \/ raw \in {Number(0), Number(1)}
    [] kind = "duration" -> Reads(raw, "seconds") \/ raw = Number(0)
    [] OTHER             -> TRUE

-----------------------------------------------------------------------------
\* Arguments before "--": [flag, value]. A flag is a key, or "config", "c",
\* "replay", "help", or one that does not exist.
Argument  == [flag : STRING, value : Text]
FlagNames == (Keys \ {"replay_files"}) \cup {"config", "c", "replay", "help"}

Refused(arg) ==
  arg.flag \notin FlagNames \/ (arg.flag \in Keys /\ ~FlagTakes(KindOf[arg.flag], arg.value))

\* Parsing stops at the first argument it refuses, or at -h.
Stops(args) == {i \in DOMAIN args : args[i].flag = "help" \/ Refused(args[i])}

Mentioned(args) == {args[i].flag : i \in DOMAIN args}

\* What a flag that was given says: its last value; and a repeatable one, all.
LastIndex(args, flag) == Max({i \in DOMAIN args : args[i].flag = flag})
LastValue(args, flag) == args[LastIndex(args, flag)].value

Values(args, flag) ==
  LET given == SelectSeq(args, LAMBDA arg : arg.flag = flag)
  IN  [i \in DOMAIN given |-> given[i].value]

\* loadConfig: a variable that is set and not empty, else the file, else the default.
LoadConfig(yaml, env) ==
  [k \in Keys |->
     IF k \in DOMAIN env /\ env[k] # Empty THEN Cast(KindOf[k], env[k])
     ELSE IF k \in DOMAIN yaml THEN Cast(KindOf[k], yaml[k])
     ELSE Defaults[k]]

Zero == [string |-> Empty, list |-> <<>>, int |-> 0, bool |-> FALSE, duration |-> 0]

\* applyFlagOverrides: only flags that were given, the last of each, zero values too;
\* and -replay.
ApplyFlagsUnlessZero(cfg, args) ==
  [k \in Keys |->
     IF k = "replay_files" /\ "replay" \in Mentioned(args)
       THEN Values(args, "replay")
     ELSE IF k \in Mentioned(args) /\ FlagValue(KindOf[k], LastValue(args, k)) # Zero[KindOf[k]]
       THEN FlagValue(KindOf[k], LastValue(args, k))
     ELSE cfg[k]]

ApplyFlagOverrides(cfg, args) ==
  [k \in Keys |->
     IF k = "replay_files" /\ "replay" \in Mentioned(args)
       THEN Values(args, "replay")
     ELSE IF k \in Mentioned(args) THEN FlagValue(KindOf[k], LastValue(args, k))
     ELSE cfg[k]]

\* A file is missing, a directory, malformed, or yaml with its settings. One named
\* with -config must be there; ./.pipery/config.yaml need not.
NamesFile(args) == "config" \in Mentioned(args) /\ LastValue(args, "config") # Empty

FileUsed(args, files) == IF NamesFile(args) THEN files.named ELSE files.discovered

FileFails(args, files) ==
  LET state == FileUsed(args, files).state
  IN  state \in {"directory", "malformed"} \/ (NamesFile(args) /\ state = "missing")

ValidBeforeTheQueue(cfg) == cfg.queue_size >= 0 /\ cfg.max_capture_bytes >= 0 /\ cfg.flush_timeout >= 0

Valid(cfg) == cfg.queue_size >= 1 /\ cfg.max_capture_bytes >= 0 /\ cfg.flush_timeout >= 0

\* A replay takes no commands, and -c and a direct command exclude each other.
OneMode(cfg, commands, direct) ==
  IF cfg.replay_files # <<>> THEN ~commands /\ ~direct ELSE ~commands \/ ~direct

\* parseArgs: what the run is to be, "help", "error", or a mode.
Result(as, cfg) == [as |-> as, cfg |-> cfg]

Settings(args, files, env) ==
  LET file == FileUsed(args, files)
  IN  ApplyFlagOverrides(LoadConfig(IF file.state = "yaml" THEN file.settings ELSE <<>>, env), args)

ParseArgs(args, direct, files, env) ==
  LET stops == Stops(args)
      cfg   == Settings(args, files, env)
      commands == "c" \in Mentioned(args)
  IN  CASE stops # {} -> Result(IF args[Min(stops)].flag = "help" THEN "help" ELSE "error", Defaults)
        [] stops = {} /\ FileFails(args, files) -> Result("error", Defaults)
        [] OTHER -> Result(IF ~Valid(cfg) \/ ~OneMode(cfg, commands, direct) THEN "error"
                           ELSE IF cfg.replay_files # <<>> THEN "replay"
                           ELSE IF direct THEN "direct"
                           ELSE IF commands THEN "shell" ELSE "repl", cfg)
=============================================================================
