------------------------------- MODULE Config -------------------------------
(***************************************************************************)
(* include/mqss/Config.hpp, the configuration of QOffload                  *)
(* (qoffload/Config.hpp) and that of the QRM workflow programs             *)
(* (qrm_workflow/src/Config.cpp), as operators on an environment.          *)
(*                                                                         *)
(* An environment is a function from the variables that are defined to     *)
(* their texts.  What std::from_chars reads to the end of a text is the    *)
(* constant Number.  A configuration is a function from settings to        *)
(* values; build-time defaults are named by what they are.                 *)
(***************************************************************************)
EXTENDS Integers, Sequences, SequencesExt

CONSTANTS Number,     \* the texts that are integers, with their values
          IntMax,     \* largest int
          WordMax     \* largest std::uint64_t, largest std::size_t

ASSUME ConfigAssumption ==
  /\ IntMax \in Nat /\ WordMax \in Nat
  /\ \A text \in DOMAIN Number : Number[text] \in Int

(* Result<T>; the error of a conversion names the setting's first variable. *)
Success(v) == [ok |-> TRUE, value |-> v]
Failure(name) == [ok |-> FALSE, value |-> name]

TrueTexts == {"1", "true", "TRUE", "t", "T", "yes", "YES", "on", "ON"}
FalseTexts == {"0", "false", "FALSE", "f", "F", "no", "NO", "off", "OFF"}

parseLogLevel ==
  [trace |-> "Trace", debug |-> "Debug", info |-> "Info", warning |-> "Warning",
   warn |-> "Warning", error |-> "Error", critical |-> "Critical", off |-> "Off"]

parseLogFileMode == [append |-> "Append", truncate |-> "Truncate", rotate |-> "Rotate"]

(* The generated defaults are texts too; one that is not known falls back. *)
defaultLogLevel(text) ==
  IF text \in DOMAIN parseLogLevel THEN parseLogLevel[text] ELSE "Info"
defaultLogFileMode(text) ==
  IF text \in DOMAIN parseLogFileMode THEN parseLogFileMode[text] ELSE "Rotate"

Integral(lo, hi) == [text \in {t \in DOMAIN Number : Number[t] \in lo .. hi} |-> Number[text]]

(* The texts each kind of setting accepts, and what they mean. *)
Readings(kind) ==
  CASE kind = "int" -> Integral(-IntMax - 1, IntMax)
    [] kind = "word" -> Integral(0, WordMax)
    [] kind = "bool" -> [text \in TrueTexts \cup FalseTexts |-> text \in TrueTexts]
    [] kind = "level" -> parseLogLevel
    [] kind = "mode" -> parseLogFileMode

(* The text of the first variable that is defined, if any. *)
getEnv(env, names) ==
  LET defined == {i \in DOMAIN names : names[i] \in DOMAIN env}
  IN  IF defined = {} THEN {} ELSE {env[names[Min(defined)]]}

(* The four getEnvOr() and the parsing of level and file mode: an          *)
(* undefined setting keeps its value, a text that cannot be converted is   *)
(* an error.                                                               *)
getEnvOr(env, s, fallback) ==
  LET text == CHOOSE t \in getEnv(env, s.names) : TRUE
  IN  IF getEnv(env, s.names) = {} THEN Success(fallback)
      ELSE IF s.kind = "string" THEN Success(text)
      ELSE IF text \in DOMAIN Readings(s.kind) THEN Success(Readings(s.kind)[text])
      ELSE Failure(s.names[1])
-----------------------------------------------------------------------------
(* QOffload. *)
Setting(field, names, kind) == [field |-> field, names |-> names, kind |-> kind]

(* The overrides, in the order of applyEnvironment(). *)
Settings == <<
  Setting("host", <<"QOFFLOAD_AMQP_HOST">>, "string"),
  Setting("port", <<"QOFFLOAD_AMQP_PORT">>, "int"),
  Setting("user", <<"QOFFLOAD_AMQP_USER">>, "string"),
  Setting("password", <<"QOFFLOAD_AMQP_PASSWORD">>, "string"),
  Setting("vhost", <<"QOFFLOAD_AMQP_VHOST">>, "string"),
  Setting("qrm_host", <<"QRM_AMQP_HOST">>, "string"),
  Setting("qrm_port", <<"QRM_AMQP_PORT">>, "int"),
  Setting("qrm_user", <<"QRM_AMQP_USER">>, "string"),
  Setting("qrm_password", <<"QRM_AMQP_PASSWORD">>, "string"),
  Setting("qrm_vhost", <<"QRM_AMQP_VHOST">>, "string"),
  Setting("request", <<"QOFFLOAD_REQUEST_QUEUE">>, "string"),
  Setting("control_request",
          <<"QOFFLOAD_CONTROL_REQUEST_QUEUE", "QOFFLOAD_API_REQUEST_QUEUE">>, "string"),
  Setting("result", <<"QOFFLOAD_RESULT_QUEUE">>, "string"),
  Setting("qrm_task", <<"QRM_TASK_QUEUE">>, "string"),
  Setting("instance_uid", <<"QOFFLOAD_INSTANCE_UID", "QOFFLOAD_DAEMON_UID">>, "word"),
  Setting("user_identity", <<"QOFFLOAD_USER_IDENTITY">>, "string"),
  Setting("enabled", <<"QOFFLOAD_LOG_ENABLED">>, "bool"),
  Setting("console_enabled", <<"QOFFLOAD_LOG_CONSOLE_ENABLED">>, "bool"),
  Setting("file_enabled", <<"QOFFLOAD_LOG_FILE_ENABLED">>, "bool"),
  Setting("level", <<"QOFFLOAD_LOG_LEVEL">>, "level"),
  Setting("file_mode", <<"QOFFLOAD_LOG_FILE_MODE">>, "mode"),
  Setting("rotation_size", <<"QOFFLOAD_LOG_ROTATION_SIZE">>, "word"),
  Setting("rotation_files", <<"QOFFLOAD_LOG_ROTATION_FILES">>, "word"),
  Setting("runtime_dir", <<"QOFFLOAD_RUNTIME_DIR">>, "string"),
  Setting("log_dir", <<"QOFFLOAD_LOG_DIR">>, "string"),
  Setting("state_file", <<"QOFFLOAD_STATE_FILE">>, "string"),
  Setting("hpc_node", <<"QOFFLOAD_HPC_NODE">>, "bool"),
  Setting("resume_state", <<"QOFFLOAD_RESUME_STATE">>, "bool") >>

Fields == {Settings[i].field : i \in DOMAIN Settings}

(* Numbers are scaled like IntMax; texts other than queues are not told apart. *)
makeDefaultConfig ==
  [f \in Fields |->
     CASE f \in {"port", "qrm_port"} -> 56
       [] f = "instance_uid" -> 0
       [] f = "rotation_size" -> 10
       [] f = "rotation_files" -> 3
       [] f \in {"enabled", "console_enabled"} -> TRUE
       [] f \in {"file_enabled", "hpc_node", "resume_state"} -> FALSE
       [] f = "level" -> defaultLogLevel("info")
       [] f = "file_mode" -> defaultLogFileMode("rotate")
       [] OTHER -> "default"]

(* Seeded fault: the first error does not end the function and is          *)
(* forgotten when a later setting can be converted.                        *)
applyToTheEnd(env, acc, s) ==
  LET config == IF acc.ok THEN acc.value ELSE makeDefaultConfig
      v == getEnvOr(env, s, config[s.field])
  IN  IF v.ok THEN Success([config EXCEPT ![s.field] = v.value]) ELSE v

(* One override, unless an earlier one has failed. *)
applySetting(env, acc, s) ==
  IF ~acc.ok THEN acc
  ELSE LET v == getEnvOr(env, s, acc.value[s.field])
       IN  IF v.ok THEN Success([acc.value EXCEPT ![s.field] = v.value]) ELSE v

(* Every setting in turn; the first error ends the function. *)
applyEnvironment(env, config) ==
  LET after[i \in 0 .. Len(Settings)] ==
        IF i = 0 THEN Success(config) ELSE applySetting(env, after[i - 1], Settings[i])
  IN  after[Len(Settings)]

(* Defaults, then the environment; QOffload has no command-line options. *)
loadConfig(env) == applyEnvironment(env, makeDefaultConfig)

(* makeLogger(): a null sink when nothing else is asked for. *)
makeLogger(config) ==
  LET console == IF config.console_enabled THEN {"console"} ELSE {}
      file == IF config.file_enabled THEN {config.file_mode} ELSE {}
      sinks == IF config.enabled THEN console \cup file ELSE {}
  IN  [sinks |-> IF sinks = {} THEN {"null"} ELSE sinks,
       level |-> IF config.enabled THEN config.level ELSE "Off"]
-----------------------------------------------------------------------------
(* The QRM workflow programs have a configuration of their own. *)
QrmSettings == <<
  Setting("log_dir", <<"QRM_LOG_DIR">>, "string"),
  Setting("host", <<"QRM_AMQP_HOST">>, "string"),
  Setting("port", <<"QRM_AMQP_PORT">>, "int"),
  Setting("user", <<"QRM_AMQP_USER">>, "string"),
  Setting("password", <<"QRM_AMQP_PASSWORD">>, "string"),
  Setting("vhost", <<"QRM_AMQP_VHOST">>, "string"),
  Setting("scheduler", <<"QRM_SCHEDULER_QUEUE">>, "string"),
  Setting("compiler", <<"QRM_COMPILER_QUEUE">>, "string"),
  Setting("results", <<"QRM_RESULTS_QUEUE">>, "string"),
  Setting("submitter", <<"QRM_SUBMITTER_QUEUE">>, "string"),
  Setting("benchmark_dir", <<"QRM_BENCHMARK_DIR">>, "string") >>

QrmFields == {QrmSettings[i].field : i \in DOMAIN QrmSettings}
QrmSetting == [f \in QrmFields |-> CHOOSE s \in ToSet(QrmSettings) : s.field = f]
QrmQueueFields == {"scheduler", "compiler", "submitter", "results"}

QrmDefault(f) == IF f = "port" THEN 56 ELSE IF f \in QrmQueueFields THEN f ELSE "default"

(* An integer that cannot be converted silently leaves the default. *)
qrmGetEnvOr(env, s, fallback) ==
  LET v == getEnvOr(env, s, fallback) IN IF v.ok THEN v.value ELSE fallback

qrmLoadConfig(env) ==
  [f \in QrmFields |-> qrmGetEnvOr(env, QrmSetting[f], QrmDefault(f))]
=============================================================================
