------------------------------- MODULE MCStartup -------------------------------
\* Instances of Startup for TLC: one setting at a time, spoken about by any of its
\* sources; then every mix of modes and config files; then every list at GitHub.
EXTENDS Startup

Junk == Words(<<"junk">>)

Texts ==
  [int |-> {Number(-1), Number(0), Number(7), Junk},
   bool |-> {Truth(TRUE), Truth(FALSE), Number(1), Junk},
   duration |-> {Seconds(-1), Seconds(5), Number(7), Junk}, string |-> {Empty, Junk},
   list |-> {Empty, Junk, Words(<<"a", "junk">>), Spaced(<<"b", "junk">>)}]

\* YAML's own values beside the texts.
YamlValues(kind) ==
  Texts[kind] \cup (CASE kind = "int"  -> {YamlInt(2), YamlBool(TRUE)}
                      [] kind = "bool" -> {YamlInt(2), YamlBool(FALSE)}
                      [] OTHER         -> {YamlInt(2)})

Varied == {"queue_size", "max_capture_bytes", "flush_timeout", "fail_on_error",
           "log_file", "syslog", "prompt", "secret_names"}

Nobody == [k \in {} |-> Empty]
Maybe(k, raws) == {Nobody} \cup {k :> raw : raw \in raws}
Flag(f, raw) == [flag |-> f, value |-> raw]
Flags(k) ==
  {<<>>} \cup {<<Flag(k, raw)>> : raw \in Texts[KindOf[k]]}
         \cup {<<Flag(k, r1), Flag(k, r2)>> : r1, r2 \in Texts[KindOf[k]]}

Yaml(settings) == [state |-> "yaml", settings |-> settings]
Without(state) == [state |-> state, settings |-> Nobody]
Discovered(file) == [named |-> Without("missing"), discovered |-> file]

Input(args, direct, files, env, workflow) ==
  [args |-> args, direct |-> direct, files |-> files, env |-> env, workflow |-> workflow]

OneSetting ==
  UNION {{Input(args, FALSE, Discovered(Yaml(yaml)), env, FALSE) :
            args \in Flags(k), yaml \in Maybe(k, YamlValues(KindOf[k])), env \in Maybe(k, Texts[KindOf[k]])} : k \in Varied}

ModeArgs == {<<>>, <<Flag("c", Junk)>>, <<Flag("replay", Empty)>>,
             <<Flag("c", Junk), Flag("replay", Junk)>>, <<Flag("help", Empty)>>,
             <<Flag("unknown", Empty), Flag("help", Empty)>>}
FileArgs == {<<>>, <<Flag("config", Empty)>>, <<Flag("config", Junk)>>}
Files    == {Without("missing"), Without("directory"), Without("malformed"),
             Yaml(Nobody), Yaml("replay_files" :> Junk)}

ModesAndFiles ==
  {Input(f \o m, direct, [named |-> n, discovered |-> d], Nobody, FALSE) :
     f \in FileArgs, m \in ModeArgs, direct \in BOOLEAN, n \in Files, d \in Files}

AtGithub ==
  {Input(args, FALSE, Discovered(Without("missing")), Nobody, TRUE) :
     args \in {<<>>, <<Flag("secret_names", Words(<<"a", "junk">>))>>}}

MCInputs == OneSetting \cup ModesAndFiles \cup AtGithub

MCNames == {"a", "b", "c", "d", "e"}
MCLists == {<<>>, <<"a">>, <<"b", "a">>, <<"a", "b", "c">>, <<"d", "c", "b", "a">>}
=============================================================================
