-------------------------------- MODULE Startup --------------------------------
(***************************************************************************)
(* App.Run up to its first command: the settings (Config), the sinks, the  *)
(* rules of redaction with the names GitHub tells (GithubSecrets), the     *)
(* session, and the choice of a mode. Session, AsyncLogger and Replay say  *)
(* what follows.                                                           *)
(***************************************************************************)
EXTENDS Config, GithubSecrets

CONSTANT Inputs  \* command lines, files and environments psh is started with

\* args, direct, files and env are ParseArgs'; workflow says that GITHUB_ACTIONS,
\* GITHUB_TOKEN and GITHUB_REPOSITORY have values that allow asking.
ASSUME InputsAssumption ==
  \A input \in Inputs :
    /\ DOMAIN input = {"args", "direct", "files", "env", "workflow"}
    /\ input.args \in Seq(Argument)
    /\ \A file \in {input.files.named, input.files.discovered} :
         \A k \in DOMAIN file.settings : file.settings[k] \in Raw
    /\ \A k \in DOMAIN input.env : input.env[k] \in Text

VARIABLES
  input,
  at,      \* the step of App.Run
  parsed,  \* what parseArgs returned
  sinks,   \* sinks of the logger, or {}
  rules    \* SecretNames of the logger's redaction rules, or {}

startup == <<input, at, parsed, sinks, rules>>
vars == <<startup, githubVars>>

Modes == {"direct", "shell", "repl", "replay"}

Init ==
  /\ input \in Inputs
  /\ at = "parse" /\ parsed = Result("error", Defaults)
  /\ sinks = {} /\ rules = {}
  /\ GithubInit

\* "return 1, err".
Refuse == at' = "refused"

Parse ==
  /\ at = "parse"
  /\ parsed' = ParseArgs(input.args, input.direct, input.files, input.env)
  /\ CASE parsed'.as = "error"  -> Refuse
       [] parsed'.as = "help"   -> at' = "helped"
       [] parsed'.as = "replay" -> at' = "replayLog"
       [] OTHER                 -> at' = "sinks"
  /\ UNCHANGED <<input, sinks, rules, githubVars>>

\* buildSinks. A file may not open; a target may be no syslog address.
Wanted(cfg) ==
  {s \in {"file", "syslog"} : cfg[IF s = "file" THEN "log_file" ELSE "syslog"] # Empty}

BuildSinks ==
  /\ at = "sinks"
  /\ \/ Wanted(parsed.cfg) # {} /\ sinks' = Wanted(parsed.cfg) /\ at' = "discovery"
     \/ Refuse /\ UNCHANGED sinks
  /\ UNCHANGED <<input, parsed, rules, githubVars>>

\* buildReplaySinks and the rules of replaySequence: the user's alone.
OpenReplayLog ==
  /\ at = "replayLog"
  /\ \/ sinks' = {"file"} /\ rules' = Range(parsed.cfg.secret_names) /\ at' = "replay"
     \/ Refuse /\ UNCHANGED <<sinks, rules>>
  /\ UNCHANGED <<input, parsed, githubVars>>

\* buildRedactionConfig, around loadGitHubActionsSecretNames.
Ask == at = "discovery" /\ StartReading(input.workflow) /\ UNCHANGED startup

Discover == (Request \/ Server) /\ UNCHANGED startup

BuildRules ==
  /\ at = "discovery" /\ fetch \notin {"idle", "reading"}
  /\ rules' = Range(parsed.cfg.secret_names) \cup found
  /\ at' = "session"
  /\ UNCHANGED <<input, parsed, sinks, githubVars>>

\* newSession fails when psh's own directory is gone.
StartSession ==
  /\ at = "session"
  /\ at' = parsed.as \/ Refuse
  /\ UNCHANGED <<input, parsed, sinks, rules, githubVars>>

Next ==
  \/ Parse
  \/ BuildSinks
  \/ OpenReplayLog
  \/ Ask
  \/ Discover
  \/ BuildRules
  \/ StartSession

\* http.Client has a Timeout: a request is answered, or it fails and reading is over.
Spec == Init /\ [][Next]_vars /\ WF_vars(PageArrives /\ UNCHANGED startup)

-----------------------------------------------------------------------------
\* The sources of a setting, weakest first, each with the value it makes of what it
\* says: a flag given twice says its last text, an empty variable says nothing.
Says(k) ==
  LET file == FileUsed(input.args, input.files)
      yaml == IF file.state = "yaml" /\ k \in DOMAIN file.settings
                THEN <<Cast(KindOf[k], file.settings[k])>> ELSE <<>>
      env  == IF k \in DOMAIN input.env /\ input.env[k] # Empty
                THEN <<Cast(KindOf[k], input.env[k])>> ELSE <<>>
      flag == IF k \in Mentioned(input.args)
                THEN <<FlagValue(KindOf[k], LastValue(input.args, k))>> ELSE <<>>
  IN  yaml \o env \o flag

\* "1. built-in defaults 2. YAML config file 3. PIPERY_* environment variables
\* 4. CLI flags" (config.go): whoever speaks last about a setting decides it, and
\* a source that does not mention it leaves it alone, zero values included.
PrecedenceHolds ==
  at \in Modes =>
    \A k \in Keys \ {"replay_files"} :
      parsed.cfg[k] = IF Says(k) = <<>> THEN Defaults[k] ELSE Last(Says(k))

\* A run that gets to a mode has given its logger what the models of the logger
\* and of a replay assume: room for an entry and somewhere to write it. And a
\* replay of one thing is never mixed with commands of another.
LoggerCanWork ==
  at \in Modes =>
    /\ parsed.cfg.queue_size \in Nat \ {0} /\ sinks # {}
    /\ parsed.cfg.max_capture_bytes >= 0 /\ parsed.cfg.flush_timeout >= 0
    /\ at = "replay" => ~input.direct /\ "c" \notin Mentioned(input.args)
    /\ at = "direct" => "c" \notin Mentioned(input.args)

\* The rules have every name the user gave, whatever happens on the way to GitHub;
\* nothing GitHub did not list; nothing of a reading that failed; and if no secret
\* was deleted during a reading that ended, every name that was listed when psh
\* began, though pages shift under the reader and the total changes.
RulesNameTheSecrets ==
  at \in Modes =>
    LET users == Range(parsed.cfg.secret_names)
    IN  /\ users \subseteq rules /\ rules \subseteq users \cup listed
        /\ fetch \in {"idle", "skipped", "failed"} => rules = users
        /\ fetch = "done" /\ ~deleted => atStart \subseteq rules

\* Reading ends, however long the lists are and whatever is added meanwhile.
DiscoveryEnds == fetch = "reading" ~> fetch # "reading"
=============================================================================
