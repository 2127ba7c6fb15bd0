--------------------------- MODULE MCQrmWorkflow ---------------------------
(***************************************************************************)
(* The QRM workflow programs and the start of QOffload for TLC.            *)
(***************************************************************************)
EXTENDS QrmWorkflow

CONSTANTS d1, d2

(* IntMax and WordMax are 127 and 255 in the configurations. *)
MCNumber == [t \in {"7", "neg", "big", "huge"} |->
               CASE t = "7" -> 7 [] t = "neg" -> -1 [] t = "big" -> 200 [] t = "huge" -> 256]

Plain == <<"stmt">>
NoEnv == <<>>
Scenario(e, programs, qasm) == [env |-> e, programs |-> programs, qasm |-> qasm]

(* Texts worth telling apart for a setting: read, refused, empty. *)
Texts(kind) ==
  CASE kind = "string" -> {"name", ""}
    [] kind \in {"int", "word"} -> {"7", "neg", "big", "huge", ""}
    [] kind = "bool" -> {"no", "name"}
    [] kind = "level" -> {"warn", "name"}
    [] kind = "mode" -> {"truncate", "name"}

Definitions ==
  UNION {{<<s.names[i], t>> : i \in DOMAIN s.names, t \in Texts(s.kind)} :
           s \in ToSet(Settings) \cup ToSet(QrmSettings)}

(* Environments that define no variable, one or two. *)
Environment(defs) == [n \in {d[1] : d \in defs} |-> (CHOOSE d \in defs : d[1] = n)[2]]
Environments == {Environment({a, b}) : a \in Definitions, b \in Definitions} \cup {NoEnv}

Starts == {Scenario(e, {"qoffload", "scheduler"}, Plain) : e \in Environments}

(* All texts of up to three lines, and one with a definition on one line. *)
Lines == {"stmt", "other", "gate {", "}"}
Circuits == {Scenario(NoEnv, Workers \cup {d1}, q) :
               q \in SeqOf(Lines, 3) \cup {<<"gate {}", "stmt", "}", "other">>}}

Flows == {Scenario(NoEnv, QrmPrograms, Plain)}

(* Two queues with one name, and a queue without a name. *)
Aliases ==
  {Scenario([n \in {name} |-> text], Workers \cup {d1}, Plain) :
     name \in {"QRM_COMPILER_QUEUE"}, text \in {"submitter", "scheduler", ""}}

MCScenarios == Starts \cup Circuits \cup Flows \cup Aliases
=============================================================================
