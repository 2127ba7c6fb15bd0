---------------------------- MODULE Loops_proofs ----------------------------
(***************************************************************************)
(* What two loops of the programs compute, for any input, by induction     *)
(* over their passes: applyEnvironment() over its 28 settings, with what   *)
(* main() makes of the outcome, and stripSpuriousGateDefs() over the lines *)
(* of a circuit, with the way of that circuit to the device.               *)
(***************************************************************************)
EXTENDS QrmWorkflow_proofs, WellFoundedInduction, NaturalsInduction

(* Induction over the numbers of a set. *)
LEMMA NatSet ==
  ASSUME NEW S, 0 \in S, \A n \in Nat : n \in S => n + 1 \in S PROVE Nat \subseteq S
<1> DEFINE Below == {pair \in Nat \X Nat : pair[1] < pair[2]}  T == Nat \ S
<1>1. \A x, y \in Nat : <<y, x>> \in Below <=> y < x
  OBVIOUS
<1>2. IsWellFoundedOn(Below, Nat)
  BY NatLessThanWellFounded DEF OpToRel
<1> HIDE DEF Below
<1> SUFFICES ASSUME T # {} PROVE FALSE
  OBVIOUS
<1>3. T \subseteq Nat
  OBVIOUS
<1> HIDE DEF T
<1>4. \E x \in T : \A y \in T : ~(<<y, x>> \in Below)
  BY <1>2, <1>3, WFMin
<1>5. PICK x \in T : \A y \in T : ~(<<y, x>> \in Below)
  BY <1>4
<1>6. x \in Nat /\ x # 0 /\ x \notin S
  BY <1>3 DEF T
<1>7. x - 1 \in Nat /\ (x - 1) + 1 = x /\ x - 1 < x
  BY <1>6
<1>8. x - 1 \notin T
  BY <1>1, <1>5, <1>6, <1>7
<1>9. x - 1 \in S
  BY <1>7, <1>8 DEF T
<1> QED BY <1>6, <1>7, <1>9

(* A set of numbers has a least one. *)
LEMMA LeastOf ==
  ASSUME NEW S \in SUBSET Nat, S # {} PROVE Min(S) \in S /\ \A y \in S : Min(S) <= y
<1> DEFINE Below == {pair \in Nat \X Nat : pair[1] < pair[2]}
<1>1. \A x, y \in Nat : <<y, x>> \in Below <=> y < x
  OBVIOUS
<1>2. IsWellFoundedOn(Below, Nat)
  BY NatLessThanWellFounded DEF OpToRel
<1> HIDE DEF Below
<1>3. \E x \in S : \A y \in S : ~(<<y, x>> \in Below)
  BY <1>2, WFMin
<1>4. PICK x \in S : \A y \in S : ~(<<y, x>> \in Below)
  BY <1>3
<1>5. \A y \in S : x <= y
  <2> TAKE y \in S
  <2>1. x \in Nat /\ y \in Nat /\ ~(y < x)
    BY <1>1, <1>4
  <2> QED BY <2>1
<1> QED BY <1>5 DEF Min

(* applyEnvironment() goes through the settings one by one. *)
LEMMA Repeats ==
  ASSUME NEW e, NEW config
  PROVE  \E f : /\ f[0] = Success(config)
                /\ \A i \in 1 .. Len(Settings) : f[i] = applySetting(e, f[i - 1], Settings[i])
                /\ applyEnvironment(e, config) = f[Len(Settings)]
<1> DEFINE D(n) == 0 .. n
           G(f, n) == [i \in D(n) |-> IF i = 0 THEN Success(config)
                                      ELSE applySetting(e, f[i - 1], Settings[i])]
           N == Len(Settings)
           after == CHOOSE f : f = G(f, N)
<1>1. N \in Nat
  BY DEF Settings
<1>2. \A n \in Nat : \E f : f = G(f, n)
  <2> DEFINE S == {n \in Nat : \E f : f = G(f, n)}
  <2>1. 0 \in S
    <3> DEFINE f == [i \in 0 .. 0 |-> Success(config)]
    <3>1. f = G(f, 0)
      OBVIOUS
    <3> QED BY <3>1
  <2>2. ASSUME NEW n \in Nat, n \in S PROVE n + 1 \in S
    <3>1. PICK f : f = G(f, n)
      BY <2>2
    <3> DEFINE last == applySetting(e, f[n], Settings[n + 1])
               g == [i \in 0 .. n + 1 |-> IF i = n + 1 THEN last ELSE f[i]]
    <3>2. \A i \in 0 .. n : g[i] = f[i]
      OBVIOUS
    <3>3. g[n + 1] = last
      OBVIOUS
    <3> HIDE DEF last
    <3>4. ASSUME NEW i \in 0 .. n + 1
          PROVE  g[i] = IF i = 0 THEN Success(config)
                        ELSE applySetting(e, g[i - 1], Settings[i])
      <4>1. CASE i \in 0 .. n
        <5>1. f[i] = IF i = 0 THEN Success(config) ELSE applySetting(e, f[i - 1], Settings[i])
          BY <3>1, <4>1
        <5>2. g[i] = f[i]
          BY <3>2, <4>1
        <5>3. i # 0 => g[i - 1] = f[i - 1]
          BY <3>2, <4>1
        <5> HIDE DEF g
        <5> QED BY <5>1, <5>2, <5>3
      <4>2. CASE i = n + 1
        <5>1. g[i - 1] = f[n] /\ i # 0
          BY <3>2, <4>2
        <5>2. g[i] = last
          BY <3>3, <4>2
        <5> HIDE DEF g
        <5> QED BY <4>2, <5>1, <5>2 DEF last
      <4> QED BY <4>1, <4>2
    <3>5. g = G(g, n + 1)
      <4>1. g = [i \in 0 .. n + 1 |-> g[i]]
        OBVIOUS
      <4> HIDE DEF g
      <4> QED BY <3>4, <4>1
    <3> HIDE DEF g
    <3> QED BY <3>5
  <2> HIDE DEF S
  <2>3. Nat \subseteq S
    BY <2>1, <2>2, NatSet
  <2> QED BY <2>3 DEF S
<1>3. after = G(after, N)
  <2>1. \E f : f = G(f, N)
    BY <1>1, <1>2
  <2> QED BY <2>1
<1>4. applyEnvironment(e, config) = after[N]
  BY DEF applyEnvironment
<1> HIDE DEF after, N
<1>5. /\ after[0] = Success(config)
      /\ \A i \in 1 .. N : after[i] = applySetting(e, after[i - 1], Settings[i])
  BY <1>1, <1>3
<1> QED BY <1>4, <1>5 DEF N

(* Where the settings stand in the list. *)
Position ==
  [host |-> 1, port |-> 2, user |-> 3, password |-> 4, vhost |-> 5, qrm_host |-> 6,
   qrm_port |-> 7, qrm_user |-> 8, qrm_password |-> 9, qrm_vhost |-> 10,
   request |-> 11, control_request |-> 12, result |-> 13, qrm_task |-> 14,
   instance_uid |-> 15, user_identity |-> 16, enabled |-> 17,
   console_enabled |-> 18, file_enabled |-> 19, level |-> 20, file_mode |-> 21,
   rotation_size |-> 22, rotation_files |-> 23, runtime_dir |-> 24, log_dir |-> 25,
   state_file |-> 26, hpc_node |-> 27, resume_state |-> 28]

LEMMA SettingsCount == Len(Settings) = 28 /\ DOMAIN Settings = 1 .. 28
BY DEF Settings

LEMMA SettingsPlaced == \A i \in 1 .. 28 : Position[Settings[i].field] = i
BY DEF Settings, Setting, Position

LEMMA SettingsNamed == \A i \in 1 .. 28 : DOMAIN Settings[i].names \in {1 .. 1, 1 .. 2}
BY DEF Settings, Setting

(* getEnv() finds the text that decides, and getEnvOr() reads it. *)
LEMMA Decides ==
  ASSUME NEW s, NEW n \in Nat, DOMAIN s.names = 1 .. n
  PROVE  /\ getEnv(env, s.names) = Deciding(s)
         /\ Deciding(s) # {} => \E text : Deciding(s) = {text}
<1> DEFINE defined == {i \in 1 .. n : s.names[i] \in DOMAIN env}
           first == {i \in 1 .. n : s.names[i] \in DOMAIN env
                                      /\ \A j \in 1 .. i - 1 : s.names[j] \notin DOMAIN env}
<1>1. getEnv(env, s.names) = IF defined = {} THEN {} ELSE {env[s.names[Min(defined)]]}
  BY DEF getEnv
<1>2. Deciding(s) = {env[s.names[k]] : k \in first}
  BY DEF Deciding
<1>3. CASE defined = {}
  <2>1. first = {}
    BY <1>3
  <2> QED BY <1>1, <1>2, <1>3, <2>1
<1>4. CASE defined # {}
  <2>1. defined \in SUBSET Nat
    OBVIOUS
  <2>2. PICK m : m = Min(defined)
    OBVIOUS
  <2>3. m \in defined /\ \A y \in defined : m <= y
    <3> HIDE DEF defined
    <3> QED BY <1>4, <2>1, <2>2, LeastOf
  <2>4. first = {m}
    <3>1. m \in first
      BY <2>3
    <3>2. ASSUME NEW i \in first PROVE i = m
      <4>1. i \in defined /\ i \in Nat /\ m \in Nat /\ m <= i
        BY <2>3
      <4>2. ~(m \in 1 .. i - 1)
        BY <2>3
      <4>3. m >= 1
        BY <2>3
      <4> QED BY <4>1, <4>2, <4>3
    <3> HIDE DEF first
    <3> QED BY <3>1, <3>2
  <2>5. Deciding(s) = {env[s.names[m]]}
    BY <1>2, <2>4
  <2> QED BY <1>1, <1>4, <2>2, <2>5
<1> QED BY <1>3, <1>4

Effective(s, v, fallback) ==
  /\ Deciding(s) = {} => v = fallback
  /\ \A text \in Deciding(s) : v = IF s.kind = "string" THEN text ELSE Readings(s.kind)[text]

LEMMA Reads ==
  ASSUME NEW s, NEW n \in Nat, DOMAIN s.names = 1 .. n, NEW fallback
  PROVE  \/ /\ Convertible(s)
            /\ \E v : getEnvOr(env, s, fallback) = Success(v) /\ Effective(s, v, fallback)
         \/ ~Convertible(s) /\ getEnvOr(env, s, fallback) = Failure(s.names[1])
<1>1. getEnv(env, s.names) = Deciding(s)
  BY Decides
<1>2. CASE Deciding(s) = {}
  <2>1. getEnvOr(env, s, fallback) = Success(fallback)
    BY <1>1, <1>2 DEF getEnvOr
  <2>2. Convertible(s) /\ Effective(s, fallback, fallback)
    BY <1>2 DEF Convertible, Effective
  <2> QED BY <2>1, <2>2
<1>3. CASE Deciding(s) # {}
  <2>1. PICK text : Deciding(s) = {text}
    BY <1>3, Decides
  <2> DEFINE chosen == CHOOSE t \in getEnv(env, s.names) : TRUE
  <2>2. chosen = text
    BY <1>1, <2>1
  <2>8. getEnvOr(env, s, fallback) =
          IF getEnv(env, s.names) = {} THEN Success(fallback)
          ELSE IF s.kind = "string" THEN Success(chosen)
          ELSE IF chosen \in DOMAIN Readings(s.kind) THEN Success(Readings(s.kind)[chosen])
          ELSE Failure(s.names[1])
    BY DEF getEnvOr
  <2> HIDE DEF chosen
  <2>3. getEnvOr(env, s, fallback) =
          IF s.kind = "string" THEN Success(text)
          ELSE IF text \in DOMAIN Readings(s.kind) THEN Success(Readings(s.kind)[text])
          ELSE Failure(s.names[1])
    BY <1>1, <1>3, <2>2, <2>8
  <2>4. Convertible(s) <=> s.kind = "string" \/ text \in DOMAIN Readings(s.kind)
    BY <2>1 DEF Convertible
  <2>5. CASE s.kind = "string"
    <3>1. Effective(s, text, fallback)
      BY <2>1, <2>5 DEF Effective
    <3> QED BY <2>3, <2>4, <2>5, <3>1
  <2>6. CASE s.kind # "string" /\ text \in DOMAIN Readings(s.kind)
    <3>1. Effective(s, Readings(s.kind)[text], fallback)
      BY <2>1, <2>6 DEF Effective
    <3> QED BY <2>3, <2>4, <2>6, <3>1
  <2>7. CASE s.kind # "string" /\ text \notin DOMAIN Readings(s.kind)
    BY <2>3, <2>4, <2>7
  <2> QED BY <2>5, <2>6, <2>7
<1> QED BY <1>2, <1>3
-----------------------------------------------------------------------------
(* What applyEnvironment() has done after i settings: all of them are read *)
(* and the others have their defaults, or the first that cannot be read is *)
(* the error.                                                              *)
Unreadable == {i \in DOMAIN Settings : ~Convertible(Settings[i])}
DefaultOf(i) == makeDefaultConfig[Settings[i].field]

Applied(i, acc) ==
  /\ acc.ok = TRUE /\ DOMAIN acc.value = Fields
  /\ \A j \in 1 .. i : j \notin Unreadable
  /\ \A j \in 1 .. 28 :
       IF j <= i THEN Effective(Settings[j], acc.value[Settings[j].field], DefaultOf(j))
       ELSE acc.value[Settings[j].field] = DefaultOf(j)
Refused(acc) ==
  /\ acc.ok = FALSE
  /\ \E k \in Unreadable : /\ \A j \in Unreadable : k <= j
                           /\ acc.value = Settings[k].names[1]

LEMMA ApplyNext ==
  ASSUME NEW acc, NEW i \in 1 .. 28, Applied(i - 1, acc) \/ Refused(acc)
  PROVE  \/ Applied(i, applySetting(env, acc, Settings[i]))
         \/ Refused(applySetting(env, acc, Settings[i]))
<1>1. CASE Refused(acc)
  <2>1. applySetting(env, acc, Settings[i]) = acc
    BY <1>1 DEF Refused, applySetting
  <2> QED BY <1>1, <2>1
<1>2. CASE Applied(i - 1, acc)
  <2> DEFINE s == Settings[i]  f == s.field  next == applySetting(env, acc, s)
  <2>0. acc.ok = TRUE /\ DOMAIN acc.value = Fields /\ i \in Nat /\ i - 1 \in Nat
    BY <1>2 DEF Applied
  <2>1. acc.value[f] = DefaultOf(i)
    BY <1>2 DEF Applied
  <2>2. PICK n \in Nat : DOMAIN s.names = 1 .. n
    BY SettingsNamed
  <2>3. f \in Fields
    BY SettingsCount DEF Fields
  <2>4. DOMAIN Settings = 1 .. 28
    BY SettingsCount
  <2>5. CASE ~Convertible(s)
    <3>1. getEnvOr(env, s, acc.value[f]) = Failure(s.names[1])
      <4> HIDE DEF s
      <4> QED BY <2>2, <2>5, Reads
    <3>2. next = Failure(s.names[1])
      BY <2>0, <3>1 DEF applySetting, Failure
    <3>3. i \in Unreadable
      BY <2>4, <2>5 DEF Unreadable
    <3>4. \A j \in Unreadable : i <= j
      BY <1>2, <2>0, <2>4 DEF Applied, Unreadable
    <3>5. next.ok = FALSE /\ next.value = Settings[i].names[1]
      BY <3>2 DEF Failure
    <3>6. Refused(next)
      <4> HIDE DEF next
      <4> QED BY <3>3, <3>4, <3>5 DEF Refused
    <3> QED BY <3>6
  <2>6. CASE Convertible(s)
    <3>1. PICK v : /\ getEnvOr(env, s, acc.value[f]) = Success(v)
                   /\ Effective(s, v, acc.value[f])
      <4> HIDE DEF s
      <4> QED BY <2>2, <2>6, Reads
    <3>2. next = Success([acc.value EXCEPT ![f] = v])
      BY <2>0, <3>1 DEF applySetting, Success
    <3> DEFINE val == [acc.value EXCEPT ![f] = v]
    <3>3. /\ next.ok = TRUE /\ next.value = val /\ DOMAIN val = Fields /\ val[f] = v
          /\ \A g \in Fields : g # f => val[g] = acc.value[g]
      BY <2>0, <2>3, <3>2 DEF Success
    <3> HIDE DEF val
    <3>4. ASSUME NEW j \in 1 .. 28
          PROVE  IF j <= i THEN Effective(Settings[j], val[Settings[j].field], DefaultOf(j))
                 ELSE val[Settings[j].field] = DefaultOf(j)
      <4>1. CASE j = i
        BY <2>0, <2>1, <3>1, <3>3, <4>1
      <4>2. CASE j # i
        <5>1. Settings[j].field \in Fields /\ Settings[j].field # f
          BY <2>4, <4>2, SettingsPlaced DEF Fields
        <5>2. val[Settings[j].field] = acc.value[Settings[j].field]
          BY <3>3, <5>1
        <5>3. IF j <= i - 1 THEN Effective(Settings[j], acc.value[Settings[j].field], DefaultOf(j))
              ELSE acc.value[Settings[j].field] = DefaultOf(j)
          BY <1>2 DEF Applied
        <5>4. j <= i - 1 <=> j <= i
          BY <2>0, <4>2
        <5> QED BY <5>2, <5>3, <5>4
      <4> QED BY <4>1, <4>2
    <3>5. \A j \in 1 .. i : j \notin Unreadable
      <4>1. \A j \in 1 .. i - 1 : j \notin Unreadable
        BY <1>2 DEF Applied
      <4>2. i \notin Unreadable
        BY <2>6 DEF Unreadable
      <4>3. \A j \in 1 .. i : j = i \/ j \in 1 .. i - 1
        BY <2>0
      <4> QED BY <4>1, <4>2, <4>3
    <3> HIDE DEF next
    <3>6. Applied(i, next)
      BY <3>3, <3>4, <3>5 DEF Applied
    <3> QED BY <3>6 DEF next
  <2> QED BY <2>5, <2>6
<1> QED BY <1>1, <1>2

(* All or nothing. *)
LEMMA Loads ==
  \/ Unreadable = {} /\ Applied(28, loadConfig(env))
  \/ Unreadable # {} /\ Refused(loadConfig(env))
<1>1. PICK f : /\ f[0] = Success(makeDefaultConfig)
               /\ \A i \in 1 .. 28 : f[i] = applySetting(env, f[i - 1], Settings[i])
               /\ loadConfig(env) = f[28]
  BY Repeats, SettingsCount DEF loadConfig
<1> DEFINE S == {n \in Nat : n <= 28 => Applied(n, f[n]) \/ Refused(f[n])}
<1>2. 0 \in S
  <2>1. f[0].ok = TRUE /\ f[0].value = makeDefaultConfig
    BY <1>1 DEF Success
  <2>2. DOMAIN makeDefaultConfig = Fields
    BY DEF makeDefaultConfig
  <2>3. Applied(0, f[0])
    BY <2>1, <2>2 DEF Applied, DefaultOf
  <2> QED BY <2>3
<1>3. ASSUME NEW n \in Nat, n \in S PROVE n + 1 \in S
  <2>1. CASE n + 1 <= 28
    <3>1. n + 1 \in 1 .. 28 /\ (n + 1) - 1 = n /\ n <= 28
      BY <2>1
    <3>2. PICK i \in 1 .. 28 : i = n + 1 /\ i - 1 = n
      BY <3>1
    <3>3. Applied(i - 1, f[n]) \/ Refused(f[n])
      BY <1>3, <3>1, <3>2
    <3>4. f[i] = applySetting(env, f[n], Settings[i])
      BY <1>1, <3>2
    <3>5. Applied(i, f[i]) \/ Refused(f[i])
      BY <3>3, <3>4, ApplyNext
    <3> QED BY <3>2, <3>5
  <2>2. CASE ~(n + 1 <= 28)
    BY <2>2
  <2> QED BY <2>1, <2>2
<1> HIDE DEF S
<1>4. Nat \subseteq S
  BY <1>2, <1>3, NatSet
<1>5. 28 \in S
  BY <1>4
<1>6. Applied(28, f[28]) \/ Refused(f[28])
  BY <1>5 DEF S
<1>7. Applied(28, f[28]) => Unreadable = {}
  BY SettingsCount DEF Applied, Unreadable
<1>8. Refused(f[28]) => Unreadable # {}
  BY DEF Refused
<1> QED BY <1>1, <1>6, <1>7, <1>8
-----------------------------------------------------------------------------
(* Where main() of QOffload is tells what has become of its configuration. *)
Started ==
  LET at == main["qoffload"]
      config == loadConfig(env) IN
  /\ at \in {"start", "loaded", "logging", "running", "exited"}
  /\ at = "start" => reported = "none"
  /\ at \in {"loaded", "logging"} => config.ok /\ loaded = config.value /\ reported = "none"
  /\ at = "running" => config.ok /\ stored["qoffload"] = config.value /\ reported = "none"
  /\ at # "running" => stored["qoffload"] = NoConfig
  /\ at = "exited" => reported = IF config.ok THEN "none" ELSE config.value

LEMMA InitStarted == Init => Started
BY DEF Init, StartInit, Started, Programs

(* The workflow programs do not touch what is QOffload's. *)
LEMMA OthersStarted ==
  ASSUME Types, [Next]_vars, ~LoadConfig, ~MakeLogger, ~InitConfig
  PROVE  /\ main'["qoffload"] = main["qoffload"] /\ stored'["qoffload"] = stored["qoffload"]
         /\ UNCHANGED <<loaded, reported>>
<1>0. /\ DOMAIN main = Programs /\ DOMAIN stored = Programs /\ DOMAIN queue = QueueNames
      /\ sendCh \in [QrmPrograms -> {"none", "open", "broken"}] /\ faults \in 0 .. MaxFaults
      /\ "qoffload" \notin QrmPrograms /\ "qoffload" \in Programs
      /\ Workers \subseteq QrmPrograms /\ Daemons \subseteq QrmPrograms
  BY Names DEF Types, Labels, Contents
<1>1. ASSUME NEW p \in QrmPrograms, NEW label, main' = [main EXCEPT ![p] = label]
      PROVE  main'["qoffload"] = main["qoffload"]
  BY <1>0, <1>1
<1>2. CASE UNCHANGED vars
  BY <1>2 DEF vars, startVars
<1>3. ASSUME NEW p \in QrmPrograms, QrmStart(p)
      PROVE  /\ main'["qoffload"] = main["qoffload"] /\ stored'["qoffload"] = stored["qoffload"]
             /\ UNCHANGED <<loaded, reported>>
  <2>1. main'["qoffload"] = main["qoffload"]
    BY <1>1, <1>3 DEF QrmStart, Goto
  <2>2. stored'["qoffload"] = stored["qoffload"]
    BY <1>0, <1>3 DEF QrmStart
  <2> QED BY <1>3, <2>1, <2>2 DEF QrmStart
<1>4. ASSUME NEW w \in Workers, WorkerReceive(w) \/ WorkerReceiveNothing(w)
      PROVE  main'["qoffload"] = main["qoffload"] /\ UNCHANGED <<stored, loaded, reported>>
  BY <1>0, <1>1, <1>4 DEF WorkerReceive, Receive, WorkerReceiveNothing, Goto, startVars
<1>5. ASSUME NEW w \in Workers, WorkerSend(w)
      PROVE  main'["qoffload"] = main["qoffload"] /\ UNCHANGED <<stored, loaded, reported>>
  <2>1. main[w] \in InHand
    BY <1>5 DEF WorkerSend, InHand
  <2>2. Destination(w) \in QueueNames
    BY <2>1, NextStage
  <2>3. PICK q \in QueueNames : q = Destination(w)
    BY <2>2
  <2>4. PICK msg : msg = hand[w]
    OBVIOUS
  <2>5. Send(w, q, msg, "running", "running")
    BY <1>5, <2>3, <2>4 DEF WorkerSend
  <2>6. main' = [main EXCEPT ![w] = "running"]
    BY <1>0, <2>5, SendOutcome
  <2> QED BY <1>0, <1>1, <1>5, <2>6 DEF WorkerSend
<1>6. ASSUME Compile \/ Execute
      PROVE  main'["qoffload"] = main["qoffload"] /\ UNCHANGED <<stored, loaded, reported>>
  <2>1. "compiler" \in QrmPrograms /\ "submitter" \in QrmPrograms
    BY Names
  <2>2. \E p \in QrmPrograms : \E label : main' = [main EXCEPT ![p] = label]
    BY <1>6, <2>1 DEF Compile, Execute, Die, Goto
  <2> QED BY <1>1, <1>6, <2>2 DEF Compile, Execute
<1>7. ASSUME NEW d \in Daemons, SendTask(d)
      PROVE  main'["qoffload"] = main["qoffload"] /\ UNCHANGED <<stored, loaded, reported>>
  <2>1. PICK q \in QueueNames : q = stored[d].scheduler
    <3>1. d \in QrmPrograms /\ main[d] # "start"
      BY <1>0, <1>7 DEF SendTask
    <3> QED BY <3>1, OwnQueue, Names
  <2>2. PICK msg : Send(d, q, msg, "waiting", "failed")
    BY <1>7, <2>1 DEF SendTask
  <2>3. main' = [main EXCEPT ![d] = "waiting"] \/ main' = [main EXCEPT ![d] = "failed"]
    BY <1>0, <2>2, SendOutcome
  <2> QED BY <1>0, <1>1, <1>7, <2>3 DEF SendTask
<1>8. ASSUME NEW d \in Daemons, Await(d) \/ GiveUp(d)
      PROVE  main'["qoffload"] = main["qoffload"] /\ UNCHANGED <<stored, loaded, reported>>
  BY <1>0, <1>1, <1>8 DEF Await, GiveUp, Goto
<1> QED BY <1>2, <1>3, <1>4, <1>5, <1>6, <1>7, <1>8 DEF Next, Starting, Work

LEMMA NextStarted == ASSUME Types, Started, [Next]_vars PROVE Started'
<1>0. /\ DOMAIN main = Programs /\ DOMAIN stored = Programs /\ "qoffload" \in Programs
      /\ scenario' = scenario
  BY Names, Fixed DEF Types, Labels
<1>1. loadConfig(env)' = loadConfig(env)
  BY <1>0 DEF env
<1> DEFINE config == loadConfig(env)
<1>2. PICK c : c = config
  OBVIOUS
<1>3. config' = c
  BY <1>1, <1>2
<1>4. c.ok \in BOOLEAN
  BY <1>2, Loads DEF Applied, Refused
<1> HIDE DEF config
<1>5. CASE LoadConfig
  BY <1>0, <1>2, <1>3, <1>5 DEF LoadConfig, Goto, Started, config
<1>6. CASE MakeLogger
  BY <1>0, <1>2, <1>3, <1>6 DEF MakeLogger, Goto, Started, config
<1>7. CASE InitConfig
  BY <1>0, <1>2, <1>3, <1>7 DEF InitConfig, Goto, Started, config
<1>8. CASE ~LoadConfig /\ ~MakeLogger /\ ~InitConfig
  BY <1>2, <1>3, <1>8, OthersStarted DEF Started, config
<1> QED BY <1>5, <1>6, <1>7, <1>8

LEMMA StartedHold == Spec => [](Types /\ Started)
<1>1. Init => Types /\ Started
  BY InitTypes, InitStarted
<1>2. Types /\ Started /\ [Next]_vars => (Types /\ Started)'
  BY NextTypes, NextStarted
<1> QED BY <1>1, <1>2, PTL DEF Spec

(* QOffload's loadConfig() and main() take the environment whole or refuse *)
(* it for the first setting that cannot be read: for any environment, and  *)
(* whatever the other programs do meanwhile.                               *)
THEOREM ConfigurationWhole == Spec => []ConfigurationEffective
<1>1. Types /\ Started => ConfigurationEffective
  <2> SUFFICES ASSUME Types, Started PROVE ConfigurationEffective
    OBVIOUS
  <2> DEFINE config == loadConfig(env)
             bad == {i \in DOMAIN Settings : ~Convertible(Settings[i])}
  <2>1. bad = Unreadable
    BY DEF Unreadable
  <2>2. main["qoffload"] # "start" =>
          IF bad = {} THEN reported = "none"
          ELSE \E i \in bad : /\ \A j \in bad : i <= j
                              /\ reported = Settings[i].names[1]
                              /\ main["qoffload"] = "exited"
    <3>1. CASE Unreadable = {}
      <4>1. config.ok
        BY <3>1, Loads DEF Applied
      <4> QED BY <2>1, <3>1, <4>1 DEF Started
    <3>2. CASE Unreadable # {} /\ main["qoffload"] # "start"
      <4>1. Refused(config)
        BY <3>2, Loads
      <4>2. ~config.ok
        BY <4>1 DEF Refused
      <4>3. PICK k \in Unreadable : /\ \A j \in Unreadable : k <= j
                                    /\ config.value = Settings[k].names[1]
        BY <4>1 DEF Refused
      <4>4. main["qoffload"] = "exited" /\ reported = config.value
        BY <3>2, <4>2 DEF Started
      <4> HIDE DEF config, bad
      <4> QED BY <2>1, <4>3, <4>4
    <3> QED BY <3>1, <3>2
  <2>3. ASSUME stored["qoffload"] # NoConfig, NEW i \in DOMAIN Settings
        PROVE  Effective(Settings[i], stored["qoffload"][Settings[i].field],
                         makeDefaultConfig[Settings[i].field])
    <3>1. config.ok /\ stored["qoffload"] = config.value
      BY <2>3 DEF Started
    <3>2. Applied(28, config)
      BY <3>1, Loads DEF Refused
    <3>3. i \in 1 .. 28 /\ i <= 28
      BY SettingsCount
    <3>4. Effective(Settings[i], config.value[Settings[i].field], DefaultOf(i))
      BY <3>2, <3>3 DEF Applied
    <3> QED BY <3>1, <3>4 DEF DefaultOf
  <2> QED BY <2>2, <2>3 DEF ConfigurationEffective, Effective
<1> QED BY <1>1, StartedHold, PTL
-----------------------------------------------------------------------------
(* The workflow programs read with code of their own. *)
LEMMA QrmReads ==
  ASSUME NEW s, NEW n \in Nat, DOMAIN s.names = 1 .. n, NEW fallback, Convertible(s)
  PROVE  Effective(s, qrmGetEnvOr(env, s, fallback), fallback)
<1>1. PICK v : getEnvOr(env, s, fallback) = Success(v) /\ Effective(s, v, fallback)
  BY Reads
<1>2. qrmGetEnvOr(env, s, fallback) = v
  BY <1>1 DEF qrmGetEnvOr, Success
<1> QED BY <1>1, <1>2

LEMMA SameReading ==
  ASSUME NEW s, NEW t, s.names = t.names, s.kind = t.kind, NEW a, NEW b, NEW v, NEW w,
         Effective(s, v, a), Effective(t, w, b), a = b \/ Deciding(s) # {}
  PROVE  v = w
<1>1. Deciding(s) = Deciding(t)
  BY DEF Deciding
<1> QED BY <1>1 DEF Effective

LEMMA FirstDecides ==
  ASSUME NEW s, NEW n \in Nat, DOMAIN s.names = 1 .. n, n >= 1, s.names[1] \in DOMAIN env
  PROVE  Deciding(s) # {}
<1>1. 1 \in DOMAIN s.names /\ \A j \in 1 .. 1 - 1 : s.names[j] \notin DOMAIN env
  OBVIOUS
<1> QED BY <1>1 DEF Deciding

(* The settings of the QRM broker, as both sides name them. *)
QrmPosition ==
  [log_dir |-> 1, host |-> 2, port |-> 3, user |-> 4, password |-> 5, vhost |-> 6,
   scheduler |-> 7, compiler |-> 8, results |-> 9, submitter |-> 10, benchmark_dir |-> 11]

LEMMA QrmPlaced ==
  DOMAIN QrmSettings = 1 .. 11 /\ \A i \in 1 .. 11 : QrmPosition[QrmSettings[i].field] = i
BY DEF QrmSettings, Setting, QrmPosition

LEMMA QrmSettingAt ==
  ASSUME NEW i \in 1 .. 11
  PROVE  /\ QrmSettings[i].field \in QrmFields
         /\ QrmSetting[QrmSettings[i].field] = QrmSettings[i]
<1> DEFINE f == QrmSettings[i].field
<1>1. f \in QrmFields /\ QrmSettings[i] \in ToSet(QrmSettings)
  BY QrmPlaced DEF QrmFields, ToSet
<1>2. \A s \in ToSet(QrmSettings) : s.field = f => s = QrmSettings[i]
  <2>1. \A j \in 1 .. 11 : QrmSettings[j].field = f => j = i
    BY QrmPlaced
  <2> QED BY <2>1, QrmPlaced DEF ToSet
<1>3. QrmSetting[f] = CHOOSE s \in ToSet(QrmSettings) : s.field = f
  BY <1>1 DEF QrmSetting
<1> QED BY <1>1, <1>2, <1>3

LEMMA BrokerSettings ==
  /\ \A k \in 6 .. 9 : /\ Settings[k].names = QrmSettings[k - 4].names
                       /\ Settings[k].kind = QrmSettings[k - 4].kind
                       /\ DOMAIN Settings[k].names = 1 .. 1
  /\ Settings[6].field = "qrm_host" /\ QrmSettings[2].field = "host"
  /\ Settings[7].field = "qrm_port" /\ QrmSettings[3].field = "port"
  /\ Settings[8].field = "qrm_user" /\ QrmSettings[4].field = "user"
  /\ Settings[9].field = "qrm_password" /\ QrmSettings[5].field = "password"
BY DEF Settings, QrmSettings, Setting

LEMMA BrokerReading ==
  ASSUME Types, Started, main["qoffload"] = "running", NEW k \in 6 .. 9,
         \/ DefaultOf(k) = QrmDefault(QrmSettings[k - 4].field)
         \/ \E i \in DOMAIN QrmSettings : /\ QrmSettings[i].field = QrmSettings[k - 4].field
                                          /\ QrmSettings[i].names[1] \in DOMAIN env
  PROVE  stored["qoffload"][Settings[k].field] = Config[QrmSettings[k - 4].field]
<1> DEFINE s == Settings[k]  t == QrmSettings[k - 4]  v == stored["qoffload"][s.field]
           w == Config[t.field]
<1>1. k \in 1 .. 28 /\ k <= 28 /\ k - 4 \in 1 .. 11 /\ k \in Nat
  OBVIOUS
<1>2. s.names = t.names /\ s.kind = t.kind /\ DOMAIN s.names = 1 .. 1
  BY BrokerSettings
<1>3. loadConfig(env).ok /\ stored["qoffload"] = loadConfig(env).value
  BY DEF Started
<1>4. Applied(28, loadConfig(env))
  BY <1>3, Loads DEF Refused
<1>5. Effective(s, v, DefaultOf(k)) /\ Convertible(s)
  <2>1. Effective(s, v, DefaultOf(k))
    BY <1>1, <1>3, <1>4 DEF Applied
  <2>2. k \notin Unreadable /\ k \in DOMAIN Settings
    BY <1>1, <1>4, SettingsCount DEF Applied
  <2> QED BY <2>1, <2>2 DEF Unreadable
<1>6. Convertible(t)
  BY <1>2, <1>5 DEF Convertible, Deciding
<1>7. w = qrmGetEnvOr(env, t, QrmDefault(t.field))
  <2>1. t.field \in QrmFields /\ QrmSetting[t.field] = t
    BY <1>1, QrmSettingAt
  <2> QED BY <2>1 DEF Config, qrmLoadConfig
<1>8. Effective(t, w, QrmDefault(t.field))
  <2> HIDE DEF t, s
  <2>1. DOMAIN t.names = 1 .. 1 /\ 1 \in Nat
    BY <1>2
  <2> QED BY <1>6, <1>7, <2>1, QrmReads
<1>9. DefaultOf(k) = QrmDefault(t.field) \/ Deciding(s) # {}
  <2>1. CASE DefaultOf(k) = QrmDefault(t.field)
    BY <2>1
  <2>2. ASSUME NEW i \in DOMAIN QrmSettings, QrmSettings[i].field = t.field,
               QrmSettings[i].names[1] \in DOMAIN env
        PROVE  Deciding(s) # {}
    <3>1. i = k - 4
      BY <1>1, <2>2, QrmPlaced
    <3>2. s.names[1] \in DOMAIN env
      BY <1>2, <2>2, <3>1
    <3> HIDE DEF s, t
    <3>3. DOMAIN s.names = 1 .. 1 /\ 1 \in Nat /\ 1 >= 1
      BY <1>2
    <3> QED BY <3>2, <3>3, FirstDecides
  <2> QED BY <2>1, <2>2
<1> HIDE DEF s, t, v, w
<1>10. v = w
  BY <1>2, <1>5, <1>8, <1>9, SameReading
<1> QED BY <1>10 DEF s, t, v, w

(* QOffload and each workflow program connect to the same QRM broker, for  *)
(* any environment: their two loadConfig() read the variables alike.       *)
THEOREM BrokersAgree == Spec => []SameBroker
<1>1. Types /\ Started => SameBroker
  <2> SUFFICES ASSUME Types, Started, main["qoffload"] = "running",
                      NEW p \in QrmPrograms, main[p] = "running",
                      NEW f \in {"host", "port", "user", "password"},
                      f = "port" \/ \E i \in DOMAIN QrmSettings :
                                      /\ QrmSettings[i].field = f
                                      /\ QrmSettings[i].names[1] \in DOMAIN env
               PROVE  QrmConnection(stored["qoffload"])[f] = ProgramConnection(stored[p])[f]
    BY DEF SameBroker
  <2>1. stored[p] = Config
    BY DEF Types, Labels
  <2>2. DefaultOf(7) = QrmDefault("port")
    <3>1. Settings[7].field = "qrm_port" /\ Settings[7].field \in Fields
      BY BrokerSettings, SettingsCount DEF Fields
    <3> QED BY <3>1 DEF DefaultOf, makeDefaultConfig, QrmDefault
  <2>3. CASE f = "host"
    <3>1. stored["qoffload"]["qrm_host"] = Config["host"]
      <4>1. 6 \in 6 .. 9 /\ 6 - 4 = 2
        OBVIOUS
      <4> QED BY <2>3, <4>1, BrokerReading, BrokerSettings
    <3> QED BY <2>1, <2>3, <3>1 DEF QrmConnection, ProgramConnection
  <2>4. CASE f = "port"
    <3>1. stored["qoffload"]["qrm_port"] = Config["port"]
      <4>1. 7 \in 6 .. 9 /\ 7 - 4 = 3
        OBVIOUS
      <4> QED BY <2>2, <4>1, BrokerReading, BrokerSettings
    <3> QED BY <2>1, <2>4, <3>1 DEF QrmConnection, ProgramConnection
  <2>5. CASE f = "user"
    <3>1. stored["qoffload"]["qrm_user"] = Config["user"]
      <4>1. 8 \in 6 .. 9 /\ 8 - 4 = 4
        OBVIOUS
      <4> QED BY <2>5, <4>1, BrokerReading, BrokerSettings
    <3> QED BY <2>1, <2>5, <3>1 DEF QrmConnection, ProgramConnection
  <2>6. CASE f = "password"
    <3>1. stored["qoffload"]["qrm_password"] = Config["password"]
      <4>1. 9 \in 6 .. 9 /\ 9 - 4 = 5
        OBVIOUS
      <4> QED BY <2>6, <4>1, BrokerReading, BrokerSettings
    <3> QED BY <2>1, <2>6, <3>1 DEF QrmConnection, ProgramConnection
  <2> QED BY <2>3, <2>4, <2>5, <2>6
<1> QED BY <1>1, StartedHold, PTL
-----------------------------------------------------------------------------
(* The lines of a circuit. *)
Before == [inside |-> FALSE, out |-> <<>>]

(* stripSpuriousGateDefs() goes through the lines one by one. *)
LEMMA StripsLines ==
  ASSUME NEW text, Len(text) \in Nat
  PROVE  \E f : /\ f[0] = Before
                /\ \A i \in 1 .. Len(text) : f[i] = stripLine(f[i - 1], text[i])
                /\ stripSpuriousGateDefs(text) = f[Len(text)].out
<1> DEFINE D(n) == 0 .. n
           G(f, n) == [i \in D(n) |-> IF i = 0 THEN Before
                                      ELSE stripLine(f[i - 1], text[i])]
           N == Len(text)
           after == CHOOSE f : f = G(f, N)
<1>1. N \in Nat
  OBVIOUS
<1>2. \A n \in Nat : \E f : f = G(f, n)
  <2> DEFINE S == {n \in Nat : \E f : f = G(f, n)}
  <2>1. 0 \in S
    <3> DEFINE f == [i \in 0 .. 0 |-> Before]
    <3>1. f = G(f, 0)
      OBVIOUS
    <3> QED BY <3>1
  <2>2. ASSUME NEW n \in Nat, n \in S PROVE n + 1 \in S
    <3>1. PICK f : f = G(f, n)
      BY <2>2
    <3> DEFINE last == stripLine(f[n], text[n + 1])
               g == [i \in 0 .. n + 1 |-> IF i = n + 1 THEN last ELSE f[i]]
    <3>2. \A i \in 0 .. n : g[i] = f[i]
      OBVIOUS
    <3>3. g[n + 1] = last
      OBVIOUS
    <3> HIDE DEF last
    <3>4. ASSUME NEW i \in 0 .. n + 1
          PROVE  g[i] = IF i = 0 THEN Before
                        ELSE stripLine(g[i - 1], text[i])
      <4>1. CASE i \in 0 .. n
        <5>1. f[i] = IF i = 0 THEN Before ELSE stripLine(f[i - 1], text[i])
          BY <3>1, <4>1
        <5>2. g[i] = f[i]
          BY <3>2, <4>1
        <5>3. i # 0 => g[i - 1] = f[i - 1]
          BY <3>2, <4>1
        <5> HIDE DEF g
        <5> QED BY <5>1, <5>2, <5>3
      <4>2. CASE i = n + 1
        <5>1. g[i - 1] = f[n] /\ i # 0
          BY <3>2, <4>2
        <5>2. g[i] = last
          BY <3>3, <4>2
        <5> HIDE DEF g
        <5> QED BY <4>2, <5>1, <5>2 DEF last
      <4> QED BY <4>1, <4>2
    <3>5. g = G(g, n + 1)
      <4>1. g = [i \in 0 .. n + 1 |-> g[i]]
        OBVIOUS
      <4> HIDE DEF g
      <4> QED BY <3>4, <4>1
    <3> HIDE DEF g
    <3> QED BY <3>5
  <2> HIDE DEF S
  <2>3. Nat \subseteq S
    BY <2>1, <2>2, NatSet
  <2> QED BY <2>3 DEF S
<1>3. after = G(after, N)
  <2>1. \E f : f = G(f, N)
    BY <1>1, <1>2
  <2> QED BY <2>1
<1>4. stripSpuriousGateDefs(text) = after[N].out
  BY DEF stripSpuriousGateDefs, Before
<1> HIDE DEF after, N
<1>5. /\ after[0] = Before
      /\ \A i \in 1 .. N : after[i] = stripLine(after[i - 1], text[i])
  BY <1>1, <1>3
<1> QED BY <1>4, <1>5 DEF N

(* One more line that is kept, behind the others. *)
LEMMA ListsAppend ==
  ASSUME NEW L, NEW text, NEW n \in Nat, NEW S \in SUBSET (1 .. n), NEW out \in Seq(L),
         text[n + 1] \in L, Lists(out, text, S)
  PROVE  Lists(Append(out, text[n + 1]), text, S \cup {n + 1})
<1> DEFINE l == Len(out)  longer == Append(out, text[n + 1])  T == S \cup {n + 1}
<1>1. PICK at \in [1 .. l -> S] : /\ \A i, j \in 1 .. l : i < j => at[i] < at[j]
                                  /\ S = {at[i] : i \in 1 .. l}
                                  /\ \A i \in 1 .. l : out[i] = text[at[i]]
  BY DEF Lists
<1>2. /\ l \in Nat /\ Len(longer) = l + 1 /\ longer[l + 1] = text[n + 1]
      /\ \A i \in 1 .. l : longer[i] = out[i]
  BY AppendProperties, LenProperties
<1> HIDE DEF l, longer
<1> DEFINE new == [i \in 1 .. l + 1 |-> IF i = l + 1 THEN n + 1 ELSE at[i]]
<1>3. /\ new \in [1 .. l + 1 -> T] /\ new[l + 1] = n + 1
      /\ \A i \in 1 .. l : new[i] = at[i] /\ new[i] \in 1 .. n
  <2>1. \A i \in 1 .. l : i \in 1 .. l + 1 /\ i # l + 1 /\ at[i] \in S /\ at[i] \in 1 .. n
    <3>1. \A i \in 1 .. l : at[i] \in S
      BY <1>1
    <3>2. \A i \in 1 .. l : i \in 1 .. l + 1 /\ i # l + 1
      BY <1>2
    <3> QED BY <3>1, <3>2
  <2>2. \A i \in 1 .. l + 1 : i # l + 1 => i \in 1 .. l
    BY <1>2
  <2>3. l + 1 \in 1 .. l + 1
    BY <1>2
  <2> QED BY <2>1, <2>2, <2>3
<1>4. \A i \in 1 .. l + 1 : i \in 1 .. l \/ i = l + 1
  BY <1>2
<1>4b. 1 .. l + 1 = (1 .. l) \cup {l + 1}
  BY <1>2
<1> HIDE DEF new
<1>5. ASSUME NEW i \in 1 .. l + 1, NEW j \in 1 .. l + 1, i < j PROVE new[i] < new[j]
  <2>1. i \in 1 .. l
    BY <1>2, <1>5
  <2>2. CASE j = l + 1
    BY <1>3, <2>1, <2>2
  <2>3. CASE j \in 1 .. l
    BY <1>1, <1>3, <1>5, <2>1, <2>3
  <2> QED BY <1>4, <2>2, <2>3
<1>6. T = {new[i] : i \in 1 .. l + 1}
  <2>1. {new[i] : i \in 1 .. l} = S
    BY <1>1, <1>3
  <2> QED BY <1>3, <1>4b, <2>1
<1>7. \A i \in 1 .. l + 1 : longer[i] = text[new[i]]
  BY <1>1, <1>2, <1>3, <1>4
<1>8. Lists(longer, text, T)
  BY <1>2, <1>3, <1>5, <1>6, <1>7 DEF Lists
<1> QED BY <1>8 DEF longer

OneLine == "gate {}"       \* a definition closed on the line that opens it

(* The loop is inside a definition that began and did not end. *)
Inside(text, n) ==
  \E a \in 1 .. n : text[a] \in Opens /\ \A k \in a .. n : text[k] \notin Closes

(* One more line. *)
LEMMA InsideNext ==
  ASSUME NEW text, NEW n \in Nat, text[n + 1] # OneLine
  PROVE  Inside(text, n + 1) <=> \/ text[n + 1] \in Opens
                                 \/ Inside(text, n) /\ text[n + 1] \notin Closes
<1>1. ASSUME text[n + 1] \in Opens PROVE Inside(text, n + 1)
  <2>1. text[n + 1] \notin Closes
    BY <1>1, Zenon DEF Opens, Closes, OneLine
  <2>2. n + 1 \in 1 .. n + 1 /\ \A k \in n + 1 .. n + 1 : k = n + 1
    OBVIOUS
  <2> QED BY <1>1, <2>1, <2>2 DEF Inside
<1>2. ASSUME Inside(text, n), text[n + 1] \notin Closes PROVE Inside(text, n + 1)
  <2>1. PICK a \in 1 .. n : text[a] \in Opens /\ \A k \in a .. n : text[k] \notin Closes
    BY <1>2 DEF Inside
  <2>2. a \in 1 .. n + 1 /\ \A k \in a .. n + 1 : k \in a .. n \/ k = n + 1
    OBVIOUS
  <2> QED BY <1>2, <2>1, <2>2 DEF Inside
<1>3. ASSUME Inside(text, n + 1), text[n + 1] \notin Opens
      PROVE  Inside(text, n) /\ text[n + 1] \notin Closes
  <2>1. PICK a \in 1 .. n + 1 : /\ text[a] \in Opens
                                /\ \A k \in a .. n + 1 : text[k] \notin Closes
    BY <1>3 DEF Inside
  <2>2. a # n + 1
    BY <1>3, <2>1
  <2>3. a \in 1 .. n /\ n + 1 \in a .. n + 1 /\ \A k \in a .. n : k \in a .. n + 1
    BY <2>2
  <2> QED BY <2>1, <2>3 DEF Inside
<1> QED BY <1>1, <1>2, <1>3

LEMMA OutsideNext ==
  ASSUME NEW text, NEW n \in Nat, n + 1 \in DOMAIN text
  PROVE  n + 1 \in Outside(text) <=> text[n + 1] \notin Opens /\ ~Inside(text, n)
<1>1. n + 1 \in Outside(text) <=>
        ~\E a \in 1 .. n + 1 :
           text[a] \in Opens /\ (a = n + 1 \/ \A k \in a .. (n + 1) - 1 : text[k] \notin Closes)
  BY DEF Outside
<1>2. (n + 1) - 1 = n /\ n + 1 \in 1 .. n + 1 /\ 1 .. n + 1 = (1 .. n) \cup {n + 1}
      /\ n + 1 \notin 1 .. n
  OBVIOUS
<1> QED BY <1>1, <1>2 DEF Inside

(* What the loop has at line n. *)
Stripped(acc, L, text, n) ==
  /\ acc = [inside |-> acc.inside, out |-> acc.out]
  /\ acc.inside \in BOOLEAN /\ (acc.inside <=> Inside(text, n))
  /\ acc.out \in Seq(L) /\ Lists(acc.out, text, Outside(text) \cap 1 .. n)

LEMMA StrippedIs ==
  ASSUME NEW L, NEW text, NEW n, NEW i \in BOOLEAN, NEW out \in Seq(L),
         i <=> Inside(text, n), Lists(out, text, Outside(text) \cap 1 .. n)
  PROVE  Stripped([inside |-> i, out |-> out], L, text, n)
<1> DEFINE acc == [inside |-> i, out |-> out]
<1>1. acc.inside = i /\ acc.out = out /\ acc = [inside |-> acc.inside, out |-> acc.out]
  OBVIOUS
<1> HIDE DEF acc
<1>2. Stripped(acc, L, text, n)
  BY <1>1 DEF Stripped
<1> QED BY <1>2 DEF acc

LEMMA StrippedNext ==
  ASSUME NEW L, NEW text \in Seq(L), NEW n \in Nat, n + 1 \in 1 .. Len(text), NEW acc,
         Stripped(acc, L, text, n), text[n + 1] # OneLine
  PROVE  Stripped(stripLine(acc, text[n + 1]), L, text, n + 1)
<1> DEFINE line == text[n + 1]  next == stripLine(acc, line)
           S == Outside(text) \cap 1 .. n  T == Outside(text) \cap 1 .. n + 1
<1>1. /\ acc = [inside |-> acc.inside, out |-> acc.out] /\ acc.inside \in BOOLEAN
      /\ (acc.inside <=> Inside(text, n)) /\ acc.out \in Seq(L) /\ Lists(acc.out, text, S)
  BY DEF Stripped
<1>2. n + 1 \in DOMAIN text /\ line \in L
  BY LenProperties, ElementOfSeq
<1>3. 1 .. n + 1 = (1 .. n) \cup {n + 1}
  OBVIOUS
<1>4. T = IF n + 1 \in Outside(text) THEN S \cup {n + 1} ELSE S
  BY <1>3
<1>5. (Inside(text, n + 1) <=> line \in Opens \/ (Inside(text, n) /\ line \notin Closes))
  BY InsideNext
<1>6. (n + 1 \in Outside(text) <=> line \notin Opens /\ ~Inside(text, n))
  BY <1>2, OutsideNext
<1> HIDE DEF S, T, line
<1>7. CASE line \in Opens
  <2>1. next = [inside |-> TRUE, out |-> acc.out]
    BY <1>1, <1>7 DEF stripLine
  <2>2. Inside(text, n + 1) /\ T = S
    BY <1>4, <1>5, <1>6, <1>7
  <2>3. Lists(acc.out, text, Outside(text) \cap 1 .. n + 1) /\ TRUE \in BOOLEAN
    BY <1>1, <2>2 DEF T
  <2>4. Stripped([inside |-> TRUE, out |-> acc.out], L, text, n + 1)
    BY <1>1, <2>2, <2>3, StrippedIs
  <2> QED BY <2>1, <2>4 DEF line
<1>8. CASE line \notin Opens /\ acc.inside
  <2>1. next = [inside |-> line \notin Closes, out |-> acc.out]
    BY <1>1, <1>8 DEF stripLine
  <2>2. (Inside(text, n + 1) <=> line \notin Closes) /\ T = S
    BY <1>1, <1>4, <1>5, <1>6, <1>8
  <2>3. Lists(acc.out, text, Outside(text) \cap 1 .. n + 1)
    BY <1>1, <2>2 DEF T
  <2>4. PICK open \in BOOLEAN : open = (line \notin Closes)
    OBVIOUS
  <2>5. Stripped([inside |-> open, out |-> acc.out], L, text, n + 1)
    BY <1>1, <2>2, <2>3, <2>4, StrippedIs
  <2> QED BY <2>1, <2>4, <2>5 DEF line
<1>9. CASE line \notin Opens /\ ~acc.inside
  <2>1. next = [inside |-> FALSE, out |-> Append(acc.out, line)]
    BY <1>1, <1>9 DEF stripLine
  <2>2. ~Inside(text, n + 1) /\ T = S \cup {n + 1}
    BY <1>1, <1>4, <1>5, <1>6, <1>9
  <2>3. Append(acc.out, line) \in Seq(L)
    BY <1>1, <1>2, AppendProperties
  <2>4. S \in SUBSET (1 .. n)
    BY DEF S
  <2>5. Lists(Append(acc.out, line), text, S \cup {n + 1})
    BY <1>1, <1>2, <2>4, ListsAppend DEF line
  <2>6. Lists(Append(acc.out, line), text, Outside(text) \cap 1 .. n + 1)
    BY <2>2, <2>5 DEF T
  <2>7. Stripped([inside |-> FALSE, out |-> Append(acc.out, line)], L, text, n + 1)
    BY <2>2, <2>3, <2>6, StrippedIs
  <2> QED BY <2>1, <2>7 DEF line
<1> QED BY <1>1, <1>7, <1>8, <1>9

(* What stripSpuriousGateDefs() returns for any text in which no           *)
(* definition is closed on the line that opens it.                         *)
LEMMA StripsDefinitions ==
  ASSUME NEW L, NEW text \in Seq(L), \A i \in 1 .. Len(text) : text[i] # OneLine
  PROVE  Lists(stripSpuriousGateDefs(text), text, Outside(text) \cap 1 .. Len(text))
<1> DEFINE N == Len(text)
<1>0. N \in Nat
  BY LenProperties
<1>1. PICK f : /\ f[0] = Before /\ \A i \in 1 .. N : f[i] = stripLine(f[i - 1], text[i])
               /\ stripSpuriousGateDefs(text) = f[N].out
  BY <1>0, StripsLines
<1> DEFINE S == {n \in Nat : n <= N => Stripped(f[n], L, text, n)}
<1>2. 0 \in S
  <2>1. 1 .. 0 = {} /\ ~Inside(text, 0)
    BY DEF Inside
  <2>2. Lists(<<>>, text, {})
    <3> DEFINE at == [i \in 1 .. Len(<<>>) |-> i]
    <3>1. Len(<<>>) = 0 /\ 1 .. Len(<<>>) = {}
      OBVIOUS
    <3>2. at \in [1 .. Len(<<>>) -> {}] /\ {at[i] : i \in 1 .. Len(<<>>)} = {}
      BY <3>1
    <3> QED BY <3>1, <3>2 DEF Lists
  <2>3. <<>> \in Seq(L) /\ Outside(text) \cap 1 .. 0 = {}
    BY <2>1
  <2>4. Stripped([inside |-> FALSE, out |-> <<>>], L, text, 0)
    BY <2>1, <2>2, <2>3, StrippedIs
  <2> QED BY <1>1, <2>4 DEF Before
<1>3. ASSUME NEW n \in Nat, n \in S PROVE n + 1 \in S
  <2> SUFFICES ASSUME n + 1 <= N PROVE Stripped(f[n + 1], L, text, n + 1)
    OBVIOUS
  <2>1. n + 1 \in 1 .. Len(text) /\ n <= N /\ (n + 1) - 1 = n
    BY <1>0
  <2>2. Stripped(f[n], L, text, n)
    BY <1>3, <2>1
  <2>3. f[n + 1] = stripLine(f[n], text[n + 1])
    BY <1>1, <2>1
  <2> QED BY <2>1, <2>2, <2>3, StrippedNext
<1> HIDE DEF S
<1>4. Nat \subseteq S
  BY <1>2, <1>3, NatSet
<1>5. Stripped(f[N], L, text, N)
  BY <1>0, <1>4 DEF S
<1> QED BY <1>1, <1>5 DEF Stripped

(* As far as the pipeline came, its output is the text without its gate    *)
(* definitions.                                                            *)
LEMMA StripsBeginning ==
  ASSUME NEW L, NEW text \in Seq(L), \A i \in 1 .. Len(text) : text[i] # OneLine,
         NEW k \in 0 .. Len(text)
  PROVE  Lists(stripSpuriousGateDefs(SubSeq(text, 1, k)), text, Outside(text) \cap 1 .. k)
<1> DEFINE first == SubSeq(text, 1, k)  out == stripSpuriousGateDefs(first)
           S == Outside(text) \cap 1 .. k
<1>0. Len(text) \in Nat /\ DOMAIN text = 1 .. Len(text) /\ \A i \in 1 .. Len(text) : text[i] \in L
  BY LenProperties, ElementOfSeq
<1>1. k \in Nat /\ \A i \in 1 .. k : i \in DOMAIN text /\ text[i] \in L /\ text[i] # OneLine
  BY <1>0
<1>2. first \in Seq(L) /\ Len(first) = k /\ \A i \in 1 .. k : first[i] = text[i]
  <2>1. /\ first \in Seq(L) /\ Len(first) = IF 1 <= k THEN k - 1 + 1 ELSE 0
        /\ \A i \in 1 .. k - 1 + 1 : first[i] = text[1 + i - 1]
    <3>1. 1 \in Int /\ k \in Int
      BY <1>1
    <3> QED BY <1>1, <3>1, SubSeqProperties
  <2>2. k - 1 + 1 = k /\ \A i \in 1 .. k : 1 + i - 1 = i
    BY <1>1
  <2> QED BY <1>1, <2>1, <2>2
<1>3. DOMAIN first = 1 .. k
  BY <1>2, LenProperties
<1> HIDE DEF first
<1>4. Lists(out, first, Outside(first) \cap 1 .. k)
  <2>1. \A i \in 1 .. Len(first) : first[i] # OneLine
    BY <1>1, <1>2
  <2> QED BY <1>2, <2>1, StripsDefinitions
<1>5. Outside(first) \cap 1 .. k = S
  <2> SUFFICES ASSUME NEW i \in 1 .. k PROVE i \in Outside(first) <=> i \in Outside(text)
    OBVIOUS
  <2>1. \A a \in 1 .. i : a \in 1 .. k /\ \A b \in a .. i - 1 : b \in 1 .. k
    BY <1>1
  <2>2. \A a \in 1 .. i : first[a] = text[a] /\ \A b \in a .. i - 1 : first[b] = text[b]
    BY <1>2, <2>1
  <2>3. i \in DOMAIN first /\ i \in DOMAIN text
    BY <1>1, <1>3
  <2> QED BY <2>2, <2>3 DEF Outside
<1> HIDE DEF out
<1>6. PICK at \in [1 .. Len(out) -> S] :
        /\ \A i, j \in 1 .. Len(out) : i < j => at[i] < at[j]
        /\ S = {at[i] : i \in 1 .. Len(out)}
        /\ \A i \in 1 .. Len(out) : out[i] = first[at[i]]
  BY <1>4, <1>5 DEF Lists
<1>7. \A i \in 1 .. Len(out) : out[i] = text[at[i]]
  <2>1. \A i \in 1 .. Len(out) : at[i] \in S
    BY <1>6
  <2> QED BY <1>2, <1>6, <2>1
<1>8. Lists(out, text, S)
  BY <1>6, <1>7 DEF Lists
<1> QED BY <1>8 DEF out, first
-----------------------------------------------------------------------------
(* Where the circuits are compiled ones. *)
Outputs == {stripSpuriousGateDefs(SubSeq(scenario.qasm, 1, k)) : k \in 0 .. Len(scenario.qasm)}

Compiled ==
  DistinctQueues =>
    /\ \A i \in DOMAIN queue[Config["submitter"]] :
         queue[Config["submitter"]][i].circuit \in Outputs
    /\ hand["submitter"] # NoTask => hand["submitter"].circuit \in Outputs
    /\ main["compiler"] = "send" => hand["compiler"].circuit \in Outputs

LEMMA InitCompiled == Init => Compiled
<1> SUFFICES ASSUME Init PROVE Compiled
  OBVIOUS
<1>1. Types
  BY InitTypes
<1>2. Config["submitter"] \in QueueNames
  BY <1>1, ConfiguredQueues, Names DEF Types
<1>3. queue[Config["submitter"]] = <<>> /\ hand["submitter"] = NoTask
      /\ main["compiler"] = "start"
  BY <1>2, Names DEF Init, StartInit
<1> QED BY <1>3 DEF Compiled

(* Circuits that only move, or are written by the compiler. *)
LEMMA CompiledStays ==
  ASSUME Types, Compiled, [Next]_vars,
         DistinctQueues =>
           \A i \in DOMAIN queue'[Config["submitter"]] :
             \/ \E j \in DOMAIN queue[Config["submitter"]] :
                  queue'[Config["submitter"]][i] = queue[Config["submitter"]][j]
             \/ queue'[Config["submitter"]][i].circuit \in Outputs,
         DistinctQueues =>
           \/ hand'["submitter"] = NoTask \/ hand'["submitter"] = hand["submitter"]
           \/ hand'["submitter"].circuit \in Outputs,
         main'["compiler"] = "send" =>
           \/ main["compiler"] = "send" /\ hand'["compiler"] = hand["compiler"]
           \/ hand'["compiler"].circuit \in Outputs
  PROVE  Compiled'
<1>1. Config' = Config /\ (DistinctQueues' <=> DistinctQueues) /\ Outputs' = Outputs
  BY Fixed DEF Outputs
<1> SUFFICES ASSUME DistinctQueues PROVE Compiled'
  BY <1>1 DEF Compiled
<1>2. \A i \in DOMAIN queue'[Config["submitter"]] :
        queue'[Config["submitter"]][i].circuit \in Outputs
  BY DEF Compiled
<1>3. hand'["submitter"] # NoTask => hand'["submitter"].circuit \in Outputs
  BY DEF Compiled
<1>4. main'["compiler"] = "send" => hand'["compiler"].circuit \in Outputs
  BY DEF Compiled
<1> QED BY <1>1, <1>2, <1>3, <1>4 DEF Compiled

(* The label of the compiler changes in its own steps only. *)
LEMMA OtherLabel ==
  ASSUME Types, NEW p \in Programs, p # "compiler", NEW label, main' = [main EXCEPT ![p] = label]
  PROVE  main'["compiler"] = main["compiler"]
BY DEF Types, Labels

LEMMA CompiledStart == ASSUME Types, Compiled, [Next]_vars, Starting PROVE Compiled'
<1>1. queue' = queue /\ hand' = hand
  BY DEF Starting, flowVars
<1>2. main'["compiler"] = "send" => main["compiler"] = "send"
  <2>1. DOMAIN main = Programs /\ "qoffload" # "compiler" /\ "qoffload" \in Programs
        /\ "compiler" \in Programs /\ QrmPrograms \subseteq Programs
    BY Names DEF Types, Labels
  <2>2. CASE LoadConfig \/ MakeLogger \/ InitConfig
    <3>1. PICK label : main' = [main EXCEPT !["qoffload"] = label]
      <4>1. CASE LoadConfig
        BY <4>1 DEF LoadConfig, Goto
      <4>2. CASE MakeLogger
        BY <4>2 DEF MakeLogger, Goto
      <4>3. CASE InitConfig
        BY <4>3 DEF InitConfig, Goto
      <4> QED BY <2>2, <4>1, <4>2, <4>3
    <3> QED BY <2>1, <3>1, OtherLabel
  <2>3. ASSUME NEW p \in QrmPrograms, QrmStart(p)
        PROVE  main'["compiler"] = "send" => main["compiler"] = "send"
    <3>1. PICK label \in {"running", "down"} : main' = [main EXCEPT ![p] = label]
      BY <2>3 DEF QrmStart, Goto
    <3>2. CASE p = "compiler"
      BY <2>1, <3>1, <3>2
    <3>3. CASE p # "compiler"
      BY <2>1, <3>1, <3>3, OtherLabel
    <3> QED BY <3>2, <3>3
  <2> QED BY <2>2, <2>3 DEF Starting
<1> QED BY <1>1, <1>2, CompiledStays

LEMMA CompiledReceive ==
  ASSUME Types, Compiled, [Next]_vars, NEW w \in Workers, WorkerReceive(w) PROVE Compiled'
<1> DEFINE q == Config[w]  s == Config["submitter"]
           label == IF w = "scheduler" THEN "send" ELSE "process"
<1>1. /\ main[w] = "running" /\ q = stored[w][w] /\ q \in QueueNames /\ s \in QueueNames
  BY OwnQueue, Names, ConfiguredQueues DEF WorkerReceive, Receive, Types
<1>2. /\ queue[q] # <<>> /\ hand' = [hand EXCEPT ![w] = queue[q][1]]
      /\ main' = [main EXCEPT ![w] = label] /\ \E n \in 1 .. Len(queue[q]) : Taken(q, n, 1)
  BY <1>1 DEF WorkerReceive, Receive, Goto
<1>3. 1 \in DOMAIN queue[q] /\ Len(queue[q]) \in Nat
  BY <1>1, <1>2, FirstMessage
<1>4. \A i \in DOMAIN queue'[s] : \E j \in DOMAIN queue[s] : queue'[s][i] = queue[s][j]
  <2> HIDE DEF q, s
  <2>1. PICK n \in 1 .. Len(queue[q]) : Taken(q, n, 1)
    BY <1>2
  <2>2. n \in 0 .. Len(queue[q]) /\ 1 \in {0, 1}
    BY <1>3
  <2> QED BY <1>1, <2>1, <2>2, TakenFrom
<1>5. DOMAIN hand = Workers /\ DOMAIN main = Programs /\ w \in Programs /\ "submitter" \in Workers
  BY Names DEF Types, Labels, Contents
<1>6. DistinctQueues => \/ hand'["submitter"] = hand["submitter"]
                        \/ hand'["submitter"].circuit \in Outputs
  BY <1>2, <1>3, <1>5 DEF Compiled
<1>7. main'["compiler"] = "send" =>
        main["compiler"] = "send" /\ hand'["compiler"] = hand["compiler"]
  BY <1>2, <1>5, Names
<1> QED BY <1>4, <1>6, <1>7, CompiledStays

(* The queues only lose messages, and the hands stay. *)
LEMMA CompiledDiscard ==
  ASSUME Types, Compiled, [Next]_vars, NEW q \in QueueNames, NEW n \in 0 .. Len(queue[q]),
         NEW kept \in {0, 1}, Taken(q, n, kept), hand' = hand,
         main'["compiler"] = main["compiler"]
  PROVE  Compiled'
<1>1. Config["submitter"] \in QueueNames
  BY Names, ConfiguredQueues DEF Types
<1>2. \A i \in DOMAIN queue'[Config["submitter"]] :
        \E j \in DOMAIN queue[Config["submitter"]] :
          queue'[Config["submitter"]][i] = queue[Config["submitter"]][j]
  BY <1>1, TakenFrom
<1> QED BY <1>2, CompiledStays

LEMMA CompiledSend ==
  ASSUME Types, Compiled, [Next]_vars, NEW w \in Workers, WorkerSend(w) PROVE Compiled'
<1> DEFINE q == Destination(w)  msg == hand[w]  s == Config["submitter"]
<1>0. /\ main[w] = "send" /\ Send(w, q, msg, "running", "running")
      /\ hand' = [hand EXCEPT ![w] = NoTask]
  BY DEF WorkerSend
<1>1. main[w] \in InHand
  BY <1>0 DEF InHand
<1>2. q \in QueueNames /\ msg \in Messages /\ s \in QueueNames
  BY <1>1, HeldMessage, NextStage, Names, ConfiguredQueues DEF Types
<1>3. DistinctQueues /\ q = s => msg.circuit \in Outputs
  <2> SUFFICES ASSUME DistinctQueues, q = s PROVE msg.circuit \in Outputs
    OBVIOUS
  <2>1. Config["compiler"] # s /\ Config["results"] # s
    BY Distinct, Names
  <2>2. w = "compiler"
    BY <1>1, <2>1, NextStage, Names
  <2> QED BY <1>0, <2>2 DEF Compiled
<1> HIDE DEF q, msg
<1>4. /\ \/ queue' = [queue EXCEPT ![q] = Append(@, msg)] \/ queue' = queue
      /\ main' = [main EXCEPT ![w] = "running"]
  BY <1>0, <1>2, SendOutcome DEF Types, Contents
<1> HIDE DEF s
<1>5. DistinctQueues =>
        \A i \in DOMAIN queue'[s] : \/ \E j \in DOMAIN queue[s] : queue'[s][i] = queue[s][j]
                                    \/ queue'[s][i].circuit \in Outputs
  <2>1. CASE queue' = queue
    BY <2>1
  <2>2. CASE queue' = [queue EXCEPT ![q] = Append(@, msg)]
    <3>1. \A i \in DOMAIN queue'[s] : \/ \E j \in DOMAIN queue[s] : queue'[s][i] = queue[s][j]
                                      \/ s = q /\ queue'[s][i] = msg
      BY <1>2, <2>2, AddedFrom
    <3> QED BY <1>3, <3>1
  <2> QED BY <1>4, <2>1, <2>2
<1>6. DOMAIN hand = Workers /\ DOMAIN main = Programs /\ w \in Programs /\ "submitter" \in Workers
  BY Names DEF Types, Labels, Contents
<1>7. hand'["submitter"] = NoTask \/ hand'["submitter"] = hand["submitter"]
  BY <1>0, <1>6
<1>8. main'["compiler"] = "send" =>
        main["compiler"] = "send" /\ hand'["compiler"] = hand["compiler"]
  BY <1>0, <1>4, <1>6, Names
<1> QED BY <1>5, <1>7, <1>8, CompiledStays DEF s

LEMMA CompiledCompile == ASSUME Types, Compiled, [Next]_vars, Compile PROVE Compiled'
<1>1. queue' = queue /\ DOMAIN hand = Workers /\ DOMAIN main = Programs
      /\ "compiler" \in Workers /\ "submitter" \in Workers /\ "compiler" \in Programs
  BY Names DEF Compile, Types, Labels, Contents
<1>2. hand'["submitter"] = hand["submitter"]
  BY <1>1 DEF Compile, Die
<1>3. main'["compiler"] = "send" => hand'["compiler"].circuit \in Outputs
  <2>1. CASE \E out \in applyOptimizationPasses(hand["compiler"].circuit) :
               hand' = [hand EXCEPT !["compiler"].circuit = out]
    <3>1. PICK out \in applyOptimizationPasses(hand["compiler"].circuit) :
            hand' = [hand EXCEPT !["compiler"].circuit = out]
      BY <2>1
    <3>2. out \in Outputs
      BY CompiledCircuit DEF Outputs
    <3>3. main["compiler"] \in InHand
      BY DEF Compile, InHand
    <3>4. hand["compiler"] \in Messages
      BY <1>1, <3>3, HeldMessage
    <3>5. hand'["compiler"] = [hand["compiler"] EXCEPT !.circuit = out]
      BY <1>1, <3>1
    <3>6. hand'["compiler"].circuit = out
      BY <3>4, <3>5 DEF Messages, MessagesOf
    <3> QED BY <3>2, <3>6
  <2>2. CASE Goto("compiler", "running") \/ Die("compiler")
    BY <1>1, <2>2 DEF Goto, Die
  <2> QED BY <2>1, <2>2 DEF Compile
<1> QED BY <1>1, <1>2, <1>3, CompiledStays

LEMMA CompiledExecute == ASSUME Types, Compiled, [Next]_vars, Execute PROVE Compiled'
<1>1. queue' = queue /\ DOMAIN hand = Workers /\ DOMAIN main = Programs
      /\ "compiler" \in Workers /\ "submitter" \in Workers /\ "submitter" \in Programs
  BY Names DEF Execute, Types, Labels, Contents
<1>2. main'["compiler"] = main["compiler"] /\ hand'["compiler"] = hand["compiler"]
  <2>1. PICK label, msg : /\ main' = [main EXCEPT !["submitter"] = label]
                          /\ hand' = [hand EXCEPT !["submitter"] = msg]
    <3>1. CASE /\ hand' = [hand EXCEPT !["submitter"] = createAndSubmitQDMIJobToQDMIDevice(@)]
               /\ Goto("submitter", "send")
      BY <3>1 DEF Goto
    <3>2. CASE Die("submitter")
      BY <3>2 DEF Die, Goto
    <3> QED BY <3>1, <3>2 DEF Execute
  <2>2. "submitter" # "compiler"
    OBVIOUS
  <2> QED BY <1>1, <2>1, <2>2, OtherLabel
<1>3. DistinctQueues => \/ hand'["submitter"] = NoTask
                        \/ hand'["submitter"].circuit \in Outputs
  <2>1. main["submitter"] \in InHand
    BY DEF Execute, InHand
  <2>2. hand["submitter"] \in Messages /\ hand["submitter"] # NoTask
    BY <1>1, <2>1, HeldMessage
  <2>3. DistinctQueues => hand["submitter"].circuit \in Outputs
    BY <2>2 DEF Compiled
  <2>4. CASE hand' = [hand EXCEPT !["submitter"] = createAndSubmitQDMIJobToQDMIDevice(@)]
    <3>1. hand'["submitter"] = [hand["submitter"] EXCEPT !.kind = "result"]
      BY <1>1, <2>4 DEF createAndSubmitQDMIJobToQDMIDevice
    <3>2. hand'["submitter"].circuit = hand["submitter"].circuit
      BY <2>2, <3>1 DEF Messages, MessagesOf
    <3> QED BY <2>3, <3>2
  <2>5. CASE Die("submitter")
    BY <1>1, <2>5 DEF Die
  <2> QED BY <2>4, <2>5 DEF Execute
<1> QED BY <1>1, <1>2, <1>3, CompiledStays

LEMMA CompiledSendTask ==
  ASSUME Types, Compiled, [Next]_vars, NEW d \in Daemons, SendTask(d) PROVE Compiled'
<1> DEFINE q == Config["scheduler"]  s == Config["submitter"]
<1>1. hand' = hand /\ (Enter(d) \/ Miss(d))
  BY SendTaskEffect DEF SendTask
<1>2. q \in QueueNames /\ s \in QueueNames /\ NewTask(d) \in Messages /\ (DistinctQueues => q # s)
  BY Distinct, Names, ConfiguredQueues, NewTaskMessage DEF Types
<1>3. main'["compiler"] = main["compiler"]
  <2>1. d \in Programs /\ d # "compiler" /\ DOMAIN main = Programs
    BY Names DEF Types, Labels
  <2>2. PICK label : main' = [main EXCEPT ![d] = label]
    <3>1. ASSUME NEW q0, NEW msg, Send(d, q0, msg, "waiting", "failed")
          PROVE  \E label : main' = [main EXCEPT ![d] = label]
      BY <3>1 DEF Send, Goto
    <3> QED BY <3>1 DEF SendTask
  <2> QED BY <2>1, <2>2, OtherLabel
<1>4. DistinctQueues =>
        \A i \in DOMAIN queue'[s] : \E j \in DOMAIN queue[s] : queue'[s][i] = queue[s][j]
  <2>1. CASE Miss(d)
    BY <2>1 DEF Miss
  <2>2. CASE Enter(d)
    <3>1. queue' = [queue EXCEPT ![q] = Append(@, NewTask(d))]
      BY <2>2 DEF Enter
    <3> HIDE DEF q, s
    <3>2. \A i \in DOMAIN queue'[s] : \/ \E j \in DOMAIN queue[s] : queue'[s][i] = queue[s][j]
                                      \/ s = q /\ queue'[s][i] = NewTask(d)
      BY <1>2, <3>1, AddedFrom
    <3> QED BY <1>2, <3>2
  <2> QED BY <1>1, <2>1, <2>2
<1> QED BY <1>1, <1>3, <1>4, CompiledStays

LEMMA NextCompiled == ASSUME Types, Compiled, [Next]_vars PROVE Compiled'
<1>1. CASE UNCHANGED vars
  BY <1>1, CompiledStays DEF vars, startVars, flowVars
<1>2. ASSUME NEW w \in Workers, Work(w) \/ WorkerReceiveNothing(w) PROVE Compiled'
  <2>1. CASE WorkerReceiveNothing(w)
    <3>1. PICK n \in 1 .. Len(queue[Config[w]]) : Discard(Config[w], n)
      BY <2>1, NothingEffect
    <3>2. Config[w] \in QueueNames /\ queue[Config[w]] \in Seq(Messages)
      BY <2>1, NothingEffect DEF Types, Contents
    <3>3. n \in 0 .. Len(queue[Config[w]]) /\ 0 \in {0, 1}
      BY <3>2, LenProperties
    <3>4. Taken(Config[w], n, 0) /\ hand' = hand /\ main' = main
      BY <2>1, <3>1 DEF Discard, WorkerReceiveNothing, startVars
    <3> QED BY <3>2, <3>3, <3>4, CompiledDiscard
  <2> QED BY <1>2, <2>1, CompiledReceive, CompiledSend, CompiledCompile, CompiledExecute
          DEF Work
<1>3. ASSUME NEW d \in Daemons, SendTask(d) \/ Await(d) \/ GiveUp(d) PROVE Compiled'
  <2>1. ResultQueue \in QueueNames /\ queue[ResultQueue] \in Seq(Messages)
    BY ConfiguredQueues DEF Types, Contents
  <2>2. d \in Programs /\ d # "compiler"
    BY Names
  <2>3. CASE Await(d) \/ GiveUp(d)
    <3>1. main'["compiler"] = main["compiler"] /\ hand' = hand
      BY <2>2, <2>3, OtherLabel DEF Await, GiveUp, Goto
    <3>2. PICK n \in 0 .. Len(queue[ResultQueue]), kept \in {0, 1} : Taken(ResultQueue, n, kept)
      <4>1. \A n \in 1 .. Len(queue[ResultQueue]) : n \in 0 .. Len(queue[ResultQueue])
        BY <2>1, LenProperties
      <4> QED BY <2>3, <4>1, DaemonEffect DEF Show, Discard
    <3> QED BY <2>1, <3>1, <3>2, CompiledDiscard
  <2> QED BY <1>3, <2>3, CompiledSendTask
<1> QED BY <1>1, <1>2, <1>3, CompiledStart DEF Next

(* The device gets the compiler's output without the gate definitions that *)
(* stripSpuriousGateDefs() removes, line for line, for any output text, as *)
(* far as the pipeline wrote it; no queue shared by the programs, which    *)
(* may crash or lose messages, brings an uncompiled circuit there.         *)
THEOREM CircuitsStripped == Spec => []CircuitFaithful
<1>1. Types /\ Compiled => CircuitFaithful
  <2> DEFINE qasm == scenario.qasm
  <2> SUFFICES ASSUME Types, Compiled, DistinctQueues, hand["submitter"] # NoTask,
                      OneLine \notin ToSet(qasm)
               PROVE  \E k \in 0 .. Len(qasm) :
                        Lists(hand["submitter"].circuit, qasm, Outside(qasm) \cap 1 .. k)
    BY Zenon DEF CircuitFaithful, OneLine
  <2>1. qasm \in Seq(STRING)
    BY WorkflowAssumption DEF Types
  <2>2. PICK k \in 0 .. Len(qasm) :
          hand["submitter"].circuit = stripSpuriousGateDefs(SubSeq(qasm, 1, k))
    BY DEF Compiled, Outputs
  <2>3. \A i \in 1 .. Len(qasm) : qasm[i] # OneLine
    <3>1. DOMAIN qasm = 1 .. Len(qasm)
      BY <2>1, LenProperties
    <3> QED BY <3>1 DEF ToSet
  <2> HIDE DEF qasm
  <2> QED BY <2>1, <2>2, <2>3, StripsBeginning
<1>2. Types /\ Compiled /\ [Next]_vars => Compiled'
  BY NextCompiled
<1> QED BY <1>1, <1>2, InitCompiled, TypesHold, PTL DEF Spec
=============================================================================
