------------------------------ MODULE Startup ------------------------------
(***************************************************************************)
(* How the programs begin, all in one environment: main() of QOffload up   *)
(* to the start of its workers, and the first lines of main() of the QRM   *)
(* workflow programs.  A program touches nothing shared until it runs.     *)
(***************************************************************************)
EXTENDS Config

CONSTANTS Scenarios,      \* what is started where: environment, programs, qasm
          Daemons,        \* the executions of the daemon program
          NoConfig        \* std::nullopt

VARIABLES
  scenario,   \* never changes
  main,       \* main[p]: where program p is in main()
  loaded,     \* QOffload's configuration before it is stored
  stored,     \* stored[p]: the process-wide configuration of p
  logger,     \* QOffload's sinks and level
  reported    \* the variable named in QOffload's error message, or "none"

startVars == <<scenario, main, loaded, stored, logger, reported>>

Workers == {"scheduler", "compiler", "submitter"}
QrmPrograms == Workers \cup Daemons
Programs == {"qoffload"} \cup QrmPrograms
env == scenario.env

StartInit ==
  /\ scenario \in Scenarios
  /\ main = [p \in Programs |-> "start"]
  /\ loaded = NoConfig
  /\ stored = [p \in Programs |-> NoConfig]
  /\ logger = [sinks |-> {}, level |-> "Off"]
  /\ reported = "none"

Goto(p, label) == main' = [main EXCEPT ![p] = label]

(* An error ends main() with status 1. *)
LoadConfig ==
  LET config == loadConfig(env) IN
  /\ main["qoffload"] = "start" /\ "qoffload" \in scenario.programs
  /\ \/ /\ config.ok
        /\ loaded' = config.value
        /\ Goto("qoffload", "loaded") /\ UNCHANGED reported
     \/ /\ ~config.ok
        /\ reported' = config.value
        /\ Goto("qoffload", "exited") /\ UNCHANGED loaded
  /\ UNCHANGED <<scenario, stored, logger>>

(* The directories and the logger, before the configuration is stored;     *)
(* what the file system refuses ends the process.                          *)
MakeLogger ==
  /\ main["qoffload"] = "loaded"
  /\ \/ logger' = makeLogger(loaded) /\ Goto("qoffload", "logging")
     \/ Goto("qoffload", "exited") /\ UNCHANGED logger
  /\ UNCHANGED <<scenario, loaded, stored, reported>>

(* initConfig(), which moves the configuration into the static storage,    *)
(* and getConfig().                                                        *)
InitConfig ==
  /\ main["qoffload"] = "logging" /\ stored["qoffload"] = NoConfig
  /\ stored' = [stored EXCEPT !["qoffload"] = loaded]
  /\ loaded' = NoConfig
  /\ Goto("qoffload", "running")
  /\ UNCHANGED <<scenario, logger, reported>>

(* initConfig(loadConfig()), getConfig() and makeLogger(), whose exception *)
(* nobody catches.                                                         *)
QrmStart(p) ==
  /\ main[p] = "start" /\ p \in scenario.programs
  /\ stored' = [stored EXCEPT ![p] = qrmLoadConfig(env)]
  /\ Goto(p, "running") \/ Goto(p, "down")
  /\ UNCHANGED <<scenario, loaded, logger, reported>>

(* Seeded fault: the port of the client-facing broker is used for QRM. *)
WrongPortConnection(config) ==
  [host |-> config.qrm_host, port |-> config.port, user |-> config.qrm_user,
   password |-> config.qrm_password, vhost |-> config.qrm_vhost]

(* The connection of QOffload's QRM Messenger. *)
QrmConnection(config) ==
  [host |-> config.qrm_host, port |-> config.qrm_port, user |-> config.qrm_user,
   password |-> config.qrm_password, vhost |-> config.qrm_vhost]

(* The options a workflow program sets; its virtual host stays "/". *)
ProgramConnection(config) ==
  [host |-> config.host, port |-> config.port, user |-> config.user,
   password |-> config.password, vhost |-> "/"]
-----------------------------------------------------------------------------
(* The texts that decide about a setting: that of its first variable that  *)
(* is defined, whatever the text.                                          *)
Deciding(s) ==
  {env[s.names[k]] : k \in {i \in DOMAIN s.names :
     s.names[i] \in DOMAIN env /\ \A j \in 1 .. i - 1 : s.names[j] \notin DOMAIN env}}
Convertible(s) ==
  s.kind = "string" \/ Deciding(s) \subseteq DOMAIN Readings(s.kind)

(* All or nothing: QOffload refuses to start over its configuration        *)
(* exactly when a setting cannot be read, and reports the first such       *)
(* setting in the order of the code; a configuration that is stored holds, *)
(* for each setting, the default or what the first defined variable says.  *)
ConfigurationEffective ==
  LET bad == {i \in DOMAIN Settings : ~Convertible(Settings[i])} IN
  /\ main["qoffload"] # "start" =>
       IF bad = {} THEN reported = "none"
       ELSE \E i \in bad : /\ \A j \in bad : i <= j
                           /\ reported = Settings[i].names[1]
                           /\ main["qoffload"] = "exited"
  /\ stored["qoffload"] # NoConfig =>
       \A i \in DOMAIN Settings :
         LET s == Settings[i]
             v == stored["qoffload"][s.field] IN
         /\ Deciding(s) = {} => v = makeDefaultConfig[s.field]
         /\ \A text \in Deciding(s) :
              v = IF s.kind = "string" THEN text ELSE Readings(s.kind)[text]

(* QOffload and the workflow programs, which read the same variables with  *)
(* different code, connect to the same QRM broker: wherever a variable is  *)
(* set, and always for the port, whose default is the same.  The virtual   *)
(* host is not among them.                                                 *)
SameBroker ==
  \A p \in QrmPrograms : \A f \in {"host", "port", "user", "password"} :
    (main["qoffload"] = "running" /\ main[p] = "running"
       /\ (f = "port" \/ \E i \in DOMAIN QrmSettings :
             QrmSettings[i].field = f /\ QrmSettings[i].names[1] \in DOMAIN env))
      => QrmConnection(stored["qoffload"])[f] = ProgramConnection(stored[p])[f]
=============================================================================
