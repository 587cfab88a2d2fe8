--------------------------- MODULE Configuration ---------------------------
(***************************************************************************)
(* The configuration a process runs with (Load in                          *)
(* internal/config/config.go): the defaults, overlaid by config.yaml,      *)
(* overlaid by the process environment, into which .env and .env.local     *)
(* have been read; then the checks and corrections of validate.            *)
(*                                                                         *)
(* Of the fields there is one for each way a field is read, checked or     *)
(* corrected: see Lists, Numbers and Words.  The search for a file in the  *)
(* directories above and the diagnostics are left out.                     *)
(***************************************************************************)
EXTENDS Integers, Sequences

CONSTANTS
  Files,        \* what .env, .env.local or the shell may set: name -> text
  Yamls,        \* what config.yaml may say: name -> value
  NoFile,       \* a file that is not there
  Broken,       \* a file that cannot be parsed
  Empty,        \* the empty text
  Garbage,      \* a text that is no number
  Blank,        \* an item of a list that is blank
  WeakSecrets,  \* weakSecrets, and the words that are equal but for their case
  BodyDefault,  \* 64 KB
  QueueDefault  \* 10000

(* backends as proxy_tokens; default_rpm; check_interval_seconds;          *)
(* queue_capacity as the days and the upload limit that must not be        *)
(* negative; body_max_bytes as max_body_bytes; timeout_seconds, as         *)
(* retention_days, of any value; the strategy; jwt_secret as the password. *)
Lists == {"backends"}
Numbers == {"rpm", "interval", "queue", "body", "timeout"}
Words == {"strategy", "secret"}
Names == Lists \cup Numbers \cup Words

ConfigurationAssumption ==
  /\ \A f \in Files \cup Yamls : f \in {NoFile, Broken} \/ DOMAIN f \subseteq Names
  /\ \A f \in Files \ {NoFile, Broken}, n \in Numbers :
       n \in DOMAIN f => f[n] \in Int \cup {Empty, Garbage}
  /\ \A f \in Yamls \ {NoFile, Broken}, n \in Numbers : n \in DOMAIN f => f[n] \in Int
  /\ BodyDefault \in Nat \ {0} /\ QueueDefault \in Nat

VARIABLES
  shell,   \* what the process was started with
  dotenv,  \* .env
  local,   \* .env.local
  yaml,    \* config.yaml
  pc,      \* Load: the step it takes next, or how it has ended
  env,     \* the environment of the process
  cfg      \* the configuration

sources == <<shell, dotenv, local, yaml>>
vars == <<sources, pc, env, cfg>>

(* defaultConfig.                                                          *)
Default ==
  [n \in Names |-> CASE n = "strategy" -> "round_robin"
                     [] n = "queue"    -> QueueDefault
                     [] n = "body"     -> BodyDefault
                     [] n = "timeout"  -> 30
                     [] n \in Lists    -> <<>>
                     [] n = "secret"   -> Empty
                     [] OTHER          -> 0]

Over(top, below) ==
  [n \in DOMAIN top \cup DOMAIN below |-> IF n \in DOMAIN top THEN top[n] ELSE below[n]]

Readable(file) == file \notin {NoFile, Broken}
Start == pc = "dotenv" /\ env = shell /\ cfg = Default

Init ==
  /\ shell \in {f \in Files : Readable(f)}
  /\ dotenv \in Files /\ local \in Files /\ yaml \in Yamls
  /\ Start
-----------------------------------------------------------------------------
OverShell == Over(dotenv, env)

(* godotenv.Load: a name the environment has, be it empty, stays.          *)
UnderShell == Over(env, dotenv)

LoadDotenv ==
  /\ pc = "dotenv"
  /\ env' = IF Readable(dotenv) THEN UnderShell ELSE env
  /\ pc' = "local"
  /\ UNCHANGED <<sources, cfg>>

(* godotenv.Overload.  A file that cannot be parsed is passed over.        *)
LoadLocal ==
  /\ pc = "local"
  /\ env' = IF Readable(local) THEN Over(local, env) ELSE env
  /\ pc' = "yaml"
  /\ UNCHANGED <<sources, cfg>>

ReadYaml ==
  /\ pc = "yaml"
  /\ IF yaml = Broken THEN pc' = "failed" ELSE pc' = "env"
  /\ cfg' = IF Readable(yaml) THEN Over(yaml, cfg) ELSE cfg
  /\ UNCHANGED <<sources, env>>

(* applyEnv: an empty text, or one that is no number where one is wanted,  *)
(* leaves the field as it is; blank items of a list are dropped.           *)
Items(text) == SelectSeq(text, LAMBDA item : item # Blank)

FromEnv(n, old, text) ==
  IF text = Empty \/ (n \in Numbers /\ text = Garbage) THEN old
  ELSE IF n \in Lists THEN Items(text) ELSE text

ApplyEnv ==
  /\ pc = "env"
  /\ cfg' = [n \in Names |-> IF n \in DOMAIN env THEN FromEnv(n, cfg[n], env[n]) ELSE cfg[n]]
  /\ pc' = "validate"
  /\ UNCHANGED <<sources, env>>

(* validate: what stops the start ...                                      *)
Fatal(c) ==
  \/ c["backends"] = <<>>
  \/ c["secret"] \in WeakSecrets \cup {Empty}
  \/ c["strategy"] \notin {"round_robin", "random"}
  \/ c["rpm"] < 0
  \/ c["interval"] < 0 \/ c["interval"] \in 1..4

(* ... and what is corrected without a word.                               *)
Corrected(c) ==
  [c EXCEPT !["queue"] = IF @ < 0 THEN 0 ELSE @,
            !["body"]  = IF @ <= 0 THEN BodyDefault ELSE @]

Validate ==
  /\ pc = "validate"
  /\ IF Fatal(cfg)
     THEN pc' = "failed" /\ UNCHANGED cfg
     ELSE pc' = "running" /\ cfg' = Corrected(cfg)
  /\ UNCHANGED <<sources, env>>

(* The process, running or failed, is started again.                       *)
Restart ==
  /\ pc \in {"running", "failed"}
  /\ pc' = "dotenv" /\ env' = shell /\ cfg' = Default
  /\ UNCHANGED sources

Next == LoadDotenv \/ LoadLocal \/ ReadYaml \/ ApplyEnv \/ Validate \/ Restart

Spec == Init /\ [][Next]_vars
-----------------------------------------------------------------------------
Says(source, n) == Readable(source) /\ n \in DOMAIN source
Below(n) == IF Says(yaml, n) THEN yaml[n] ELSE Default[n]

(* Of the sources that set a name without .env.local doing so, the shell's *)
(* decides, then .env's; what is empty or unreadable there leaves the name *)
(* to config.yaml and the defaults, and to no other source (Load's steps;  *)
(* applyEnv).                                                              *)
ShellBeatsFiles ==
  pc = "running" =>
    \A n \in Names : ~Says(local, n) =>
      LET text == IF n \in DOMAIN shell THEN shell[n]
                  ELSE IF Says(dotenv, n) THEN dotenv[n] ELSE Empty
          own == IF text = Empty \/ (n \in Numbers /\ text = Garbage) THEN Below(n)
                 ELSE IF n \in Lists THEN Items(text) ELSE text
      IN cfg[n] = Corrected([cfg EXCEPT ![n] = own])[n]
-----------------------------------------------------------------------------
(* What the documentation says and the code does not do.                   *)

(* DEPLOYMENT.md:226 and the start's log line (main.go:50): a variable     *)
(* that the shell has set goes before .env.local.                          *)
ShellBeatsLocal ==
  pc = "running" =>
    \A n \in Words : n \in DOMAIN shell /\ shell[n] # Empty => cfg[n] = shell[n]

(* config.go:353: validate stops the start on a fatal problem, so that     *)
(* what is running can answer requests; each of them has timeout_seconds   *)
(* from its arrival to its answer (config.example.yaml:48, handler.go:182).*)
RequestsHaveTime == pc = "running" => cfg["timeout"] > 0

(* README.md:155: config.yaml may choose round_robin, random or weighted.  *)
DocumentedStrategiesStart ==
  pc = "failed" /\ cfg["strategy"] \in {"round_robin", "random", "weighted"} =>
    yaml = Broken \/ Fatal([cfg EXCEPT !["strategy"] = "round_robin"])
=============================================================================
