------------------------------ MODULE Startup ------------------------------
(***************************************************************************)
(* The two halves of a start (cmd/sentinel/main.go): the configuration is  *)
(* loaded, and the database is upgraded.  They share no state: the upgrade *)
(* has the administrator and the tokens of the configuration as constants. *)
(***************************************************************************)
EXTENDS Upgrade

CONSTANTS
  Files, Yamls, NoFile, Broken, Empty, Garbage, Blank, WeakSecrets,
  BodyDefault, QueueDefault                  \* of the configuration

VARIABLES shell, dotenv, local, yaml, pc, env, cfg

C == INSTANCE Configuration

ASSUME StartupAssumption == C!ConfigurationAssumption

configVars == <<shell, dotenv, local, yaml, pc, env, cfg>>
-----------------------------------------------------------------------------
(* Module Configuration's property: the shell decides before .env, which   *)
(* decides before config.yaml (config.go Load, applyEnv).                  *)
ShellBeatsFiles == C!ShellBeatsFiles

(* Module Configuration's property: what is running leaves its requests    *)
(* time to be answered (config.go validate, handler.go ServeHTTP).         *)
RequestsHaveTime == C!RequestsHaveTime

(* Module Configuration's: what DEPLOYMENT.md, the start's log line and    *)
(* the README say, and the code does not do.                               *)
ShellBeatsLocal == C!ShellBeatsLocal
DocumentedStrategiesStart == C!DocumentedStrategiesStart
=============================================================================
