----------------------------- MODULE AgentConfig -----------------------------
(***************************************************************************)
(* How the agent's configuration comes about (agent.LoadConfig: defaults,  *)
(* then the file, then the environment, then Validate) and what main makes *)
(* of it: which parts are started, and what makes the agent exit instead.  *)
(*                                                                         *)
(* Settings are those that main decides by, one of every kind that         *)
(* applyEnv reads; names, paths and addresses are words.                   *)
(***************************************************************************)
EXTENDS Inputs, Integers, Sequences, FiniteSets

DefaultConfig ==
  [edge |-> "", reconcile |-> 60, report |-> 15, endpoint |-> "", endpoints |-> <<>>,
   interfaces |-> <<>>, feedMode |-> "", anchorsInclude |-> "", flowspecInclude |-> "",
   canaryInclude |-> "", canaryPrefix |-> "", canaryLC |-> <<>>, metering |-> FALSE,
   brokers |-> <<>>, kafkaCA |-> "", plaintext |-> FALSE, probe |-> "", plugin |-> FALSE]

Keys == DOMAIN DefaultConfig
Parsed == {"reconcile", "report", "metering", "plaintext", "plugin"}   \* may be malformed

Failed == [err |-> TRUE]
Unset == [state |-> "unset"]

-----------------------------------------------------------------------------

\* config.LoadFile (external): what the file names takes the place of the default.
LoadFile(cfg, file) ==
  [k \in Keys |-> IF k \in DOMAIN file THEN file[k] ELSE cfg[k]]

\* splitCSV.
SplitCSV(parts) == SelectSeq(parts, LAMBDA p : p # "")

\* config.String, Strings, DurationEnv, Uint64, Int, Bool (external), and
\* POLICER_INTERFACES: an empty variable is as good as none.
FromEnv(k, v, var) ==
  CASE var.state \in {"unset", "empty"} -> v
    [] var.state = "set" -> IF k = "interfaces" THEN SplitCSV(var.v) ELSE var.v
    [] OTHER -> v

\* applyEnv.
ApplyEnv(cfg, env) ==
  IF \E k \in Parsed : env[k].state = "malformed" THEN Failed
  ELSE [err |-> FALSE, cfg |-> [k \in Keys |-> FromEnv(k, cfg[k], env[k])]]

\* Validate.
Validate(cfg) == cfg.edge # "" /\ cfg.reconcile > 0

\* Mutant: the file is read last.
FileLast(file, env) ==
  LET over == ApplyEnv(DefaultConfig, env) IN
  IF over.err THEN Failed
  ELSE LET cfg == LoadFile(over.cfg, file)
       IN IF Validate(cfg) THEN [err |-> FALSE, cfg |-> cfg] ELSE Failed

\* LoadConfig.
LoadConfig(file, env) ==
  LET over == ApplyEnv(LoadFile(DefaultConfig, file), env) IN
  IF over.err THEN Failed
  ELSE IF Validate(over.cfg) THEN over ELSE Failed

\* Bootstrap: the endpoints to dial; the first is used.
Bootstrap(cfg) ==
  CASE cfg.endpoints # <<>>                        -> cfg.endpoints
    [] cfg.endpoints = <<>> /\ cfg.endpoint # ""   -> <<cfg.endpoint>>
    [] OTHER                                       -> <<>>

-----------------------------------------------------------------------------
(***************************************************************************)
(* main, part by part: is a part wanted, does setting it up succeed, and   *)
(* does the agent exit when it does not.  down holds what is out of reach: *)
(* "vpp", "stats", "files" (to be written), "ca" (the file, to be read).   *)
(* The clients of the server and of Kafka do no I/O when they are made, so *)
(* that a peer out of reach is no concern of main's; they refuse only an   *)
(* address they cannot use, "junk".                                        *)
(***************************************************************************)

Part(name, wanted, works, needed) ==
  [name |-> name, wanted |-> wanted, works |-> works, needed |-> needed]

\* parseLC: three numbers; -1 stands for what is not one of 32 bits.
ParseLC(parts) == Len(parts) = 3 /\ \A i \in DOMAIN parts : parts[i] >= 0

\* Mutant: one setting is enough to want the canary.
CanaryMentioned(cfg) ==
  cfg.canaryInclude # "" \/ cfg.canaryPrefix # "" \/ cfg.canaryLC # <<>>

\* setupCanary is a no-op unless all three are set.
CanaryWanted(cfg) ==
  cfg.canaryInclude # "" /\ cfg.canaryPrefix # "" /\ cfg.canaryLC # <<>>

SetupCanary(cfg, down) ==
  Part("canary", CanaryWanted(cfg),
       cfg.canaryPrefix # "junk" /\ ParseLC(cfg.canaryLC) /\ "files" \notin down, TRUE)

\* setupBirdMaterializers: the feed, or the include appliers, or neither.
SetupBirdFeed(cfg) == Part("feed", cfg.feedMode = "api", TRUE, TRUE)
SetupBirdApply(cfg, down) ==
  Part("includes", cfg.feedMode # "api" /\ cfg.anchorsInclude # "" /\ cfg.flowspecInclude # "",
       "files" \notin down, TRUE)

\* setupForwardingProbe: the ping needs no stats segment.
SetupProbe(cfg, down) ==
  Part("probe", cfg.probe # "", ~cfg.plugin \/ "stats" \notin down, FALSE)

SetupLiveness(down) == Part("liveness", TRUE, "stats" \notin down, FALSE)

\* grpcclient.Dial of the first endpoint; RunDirect registers, and retries, later.
Dial(cfg) ==
  Part("server", TRUE, Bootstrap(cfg) # <<>> /\ Bootstrap(cfg)[1] # "junk", TRUE)

\* kafkasink.New; the topic has a default.
NewSink(cfg, down) ==
  /\ \A i \in DOMAIN cfg.brokers : cfg.brokers[i] # "junk"
  /\ cfg.plaintext \/ cfg.kafkaCA = "" \/ "ca" \notin down

StartMetering(cfg, down) ==
  Part("metering", cfg.metering /\ cfg.brokers # <<>>,
       "stats" \notin down /\ NewSink(cfg, down), FALSE)

\* The order of main; "agent" stands for the loops, which only a complete start reaches.
Parts(cfg, down) ==
  <<Part("vpp", TRUE, "vpp" \notin down, TRUE), SetupProbe(cfg, down), SetupLiveness(down),
    SetupBirdFeed(cfg), SetupBirdApply(cfg, down), SetupCanary(cfg, down),
    Dial(cfg), Part("agent", TRUE, TRUE, TRUE), StartMetering(cfg, down)>>

\* The names of the parts that run: all that work, up to the first that makes main exit.
Boot(cfg, down) ==
  LET parts == Parts(cfg, down)
      Fatal(i) == parts[i].wanted /\ ~parts[i].works /\ parts[i].needed
      reached == {i \in DOMAIN parts : \A j \in 1 .. i : ~Fatal(j)}
  IN {parts[i].name : i \in {j \in reached : parts[j].wanted /\ parts[j].works}}

-----------------------------------------------------------------------------
(***************************************************************************)
(* Inputs: files and environments that name every setting, none, or one,   *)
(* besides the edge id; and settings of the optional parts, with one thing *)
(* out of reach.                                                           *)
(***************************************************************************)

ValueOfKey(k, word, number) ==
  CASE k \in {"reconcile", "report"}     -> number
    [] k \in {"metering", "plaintext", "plugin"} -> number % 2 = 1
    [] k \in {"endpoints", "brokers"}    -> <<word>>
    [] k = "interfaces"                  -> <<word, "">>
    [] k = "canaryLC"                    -> <<number, 1, 1>>
    [] OTHER                             -> word

Named == {{}, Keys} \cup {{k} : k \in Keys}

ConfigInputs ==
  [of : {"config"}, inFile : Named, inEnv : Named,
   state : {"set", "empty", "malformed"}, number : {0, 8}]

FileOf(in) == [k \in in.inFile \cup {"edge"} |-> ValueOfKey(k, "file", 5)]
EnvOf(in) ==
  [k \in Keys |-> IF k \notin in.inEnv THEN Unset
                  ELSE [state |-> in.state, v |-> ValueOfKey(k, "env", in.number)]]

BootInputs ==
  [of : {"boot"}, feedMode : {"", "api"}, includes : SUBSET {"anchors", "flowspec"},
   canary : SUBSET {"include", "prefix", "lc"}, prefix : {"cp", "junk"},
   lc : {<<65000, 1, 1>>, <<65000, 1>>, <<65000, -1, 1>>},
   endpoint : {"", "s1", "junk"}, endpoints : {<<>>, <<"s2", "junk">>},
   metering : {"off", "plain", "tls", "junk"}, plugin : {FALSE, TRUE},
   down : {{}} \cup {{d} : d \in {"vpp", "stats", "files", "ca"}}]

CfgOf(in) ==
  [DefaultConfig EXCEPT
     !.edge = "e", !.feedMode = in.feedMode, !.endpoint = in.endpoint,
     !.endpoints = in.endpoints, !.metering = in.metering # "off",
     !.brokers = <<IF in.metering = "junk" THEN "junk" ELSE "k">>,
     !.kafkaCA = "ca", !.plaintext = in.metering = "plain",
     !.probe = "nexthop", !.plugin = in.plugin,
     !.anchorsInclude = IF "anchors" \in in.includes THEN "a" ELSE "",
     !.flowspecInclude = IF "flowspec" \in in.includes THEN "f" ELSE "",
     !.canaryInclude = IF "include" \in in.canary THEN "c" ELSE "",
     !.canaryPrefix = IF "prefix" \in in.canary THEN in.prefix ELSE "",
     !.canaryLC = IF "lc" \in in.canary THEN in.lc ELSE <<>>]

-----------------------------------------------------------------------------

\* The environment has the last word on every setting, the file the next, unless the
\* variable is empty; a configuration that is malformed or unusable starts nothing
\* (LoadConfig).
EnvWins ==
  input.of = "config" =>
    LET got == LoadConfig(FileOf(input), EnvOf(input))
        file == FileOf(input)
        Named1(k) == IF k \in input.inEnv /\ input.state = "set"
                     THEN LET v == ValueOfKey(k, "env", input.number)
                          IN IF k = "interfaces" THEN <<v[1]>> ELSE v
                     ELSE IF k \in DOMAIN file THEN file[k] ELSE DefaultConfig[k]
        malformed == input.state = "malformed" /\ input.inEnv \cap Parsed # {}
    IN /\ got.err <=> (malformed \/ Named1("reconcile") <= 0)
       /\ ~got.err => \A k \in Keys : got.cfg[k] = Named1(k)

\* Only VPP, the lack of an endpoint to dial, and what was asked for in full keep the agent
\* from starting: the statistics, the metering's settings, a second endpoint, or a part
\* configured by halves never do, and metering fails alone; and BIRD is never given routes
\* in two ways at once (main, setupCanary, setupBirdMaterializers, startMetering).
StartsWhenItCan ==
  input.of = "boot" =>
    LET cfg == CfgOf(input)
        running == Boot(cfg, input.down)
        badCanary == /\ input.canary = {"include", "prefix", "lc"}
                     /\ input.prefix = "junk" \/ input.lc # <<65000, 1, 1>>
        files == \/ input.canary = {"include", "prefix", "lc"}
                 \/ input.feedMode = "" /\ input.includes = {"anchors", "flowspec"}
    IN /\ "agent" \in running <=>
            /\ "vpp" \notin input.down
            /\ ~("files" \in input.down /\ files)
            /\ ~badCanary
            /\ input.endpoint = "s1" \/ input.endpoints # <<>>
       /\ "metering" \in running <=>
            /\ "agent" \in running
            /\ \/ input.metering = "plain" /\ "stats" \notin input.down
               \/ input.metering = "tls" /\ input.down \cap {"stats", "ca"} = {}
       /\ ~({"feed", "includes"} \subseteq running)

\* The agent starts with the settings it was given, whenever they are usable.
StartsAsConfigured == EnvWins /\ StartsWhenItCan
=============================================================================
