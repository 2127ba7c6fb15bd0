----------------------- MODULE ControlProtocol_proofs -----------------------
(***************************************************************************)
(* Proofs about the two adapters of the control interface, for any number  *)
(* of tasks, any set of REST requests and identifiers of any width.        *)
(***************************************************************************)
EXTENDS ControlProtocol, Forward_proofs, SequenceTheorems, WellFoundedInduction

Queries == {"task_status", "task_result", "cancel_reason"}

(* What a client knows of a task it created: the identifier went through   *)
(* the 32-bit field of the outbound message, and its uuid is the decimal   *)
(* form of that identifier or its int32 value.                             *)
ToldOf(h) ==
  /\ h.typed \in BOOLEAN
  /\ \E id \in DOMAIN jobAt : h.task = ToUint64(ToInt32(id))
  /\ h.uuid = Number(IF h.typed THEN ToInt32(h.task) ELSE h.task)

(* Every task created has an identifier of this process. *)
Numbered ==
  /\ incarnation \in Incarnations /\ nextTaskIndex \in Nat
  /\ \A id \in DOMAIN jobAt : \E i \in Indices : id = TaskId(incarnation, i)

(* A task is in the store until a query takes its result. *)
Stored == DOMAIN jobAt \ taken \subseteq DOMAIN pending \cup DOMAIN completed

Told == \A h \in told : ToldOf(h)

(* The request being processed is one a client can send. *)
Asked ==
  stage # "idle" =>
    \/ handle = NoHandle /\ request \in TypedRequests \cup RestRequests
    \/ handle \in told /\ \E query \in Queries : request = FollowUp(handle, query)

Understood == stage \in {"execute", "encode", "reply"} => command = Decoded(request)

(* The result is one of the alternatives of ControlResult; nothing happens *)
(* to the store between the answer to a status query and its encoding.     *)
IsReply(r) == r = Reply(r.kind, r.text, r.job, r.num) /\ r.kind \in ReplyKinds
Answered ==
  stage \in {"encode", "reply"} =>
    /\ IsReply(result)
    /\ result.kind = "created" => \E id \in DOMAIN jobAt : result.num = ToUint64(ToInt32(id))
    /\ command.cmd = "status" => result = Reply("status", Status(ToUint64(command.id)), NoJob, 0)

Worded == stage = "reply" => response = Encoded(request, result)

Stages == {"idle", "decode", "execute", "encode", "reply"}

CInv == stage \in Stages /\ Numbered /\ Stored /\ Told /\ Asked /\ Understood /\ Answered /\ Worded
-----------------------------------------------------------------------------
(* Paths *)

(* A nonempty set of numbers up to a bound has a least and a greatest one. *)
LEMMA LeastAndGreatest ==
  ASSUME NEW n \in Nat, NEW S \in SUBSET (1 .. n), S # {}
  PROVE /\ Min(S) \in S /\ \A y \in S : Min(S) <= y
        /\ Max(S) \in S /\ \A y \in S : Max(S) >= y
<1> DEFINE Below == {pair \in Nat \X Nat : pair[1] < pair[2]}
<1>1. \A x, y \in Nat : <<y, x>> \in Below <=> y < x
  OBVIOUS
<1>2. IsWellFoundedOn(Below, Nat)
  BY NatLessThanWellFounded DEF OpToRel
<1> HIDE DEF Below
<1>3. \E x \in S : \A y \in S : x <= y
  <2>1. S \subseteq Nat
    OBVIOUS
  <2>2. \E x \in S : \A y \in S : ~ (<<y, x>> \in Below)
    BY <1>2, <2>1, WFMin
  <2>3. PICK x \in S : \A y \in S : ~ (<<y, x>> \in Below)
    BY <2>2
  <2>4. \A y \in S : x <= y
    <3> TAKE y \in S
    <3>1. x \in Nat /\ y \in Nat /\ ~ (y < x)
      BY <1>1, <2>1, <2>3
    <3> QED BY <3>1
  <2> QED BY <2>4
<1>4. \E x \in S : \A y \in S : x >= y
  <2> DEFINE R == {n - x : x \in S}
  <2>1. R \subseteq Nat /\ R # {}
    <3>1. \A x \in S : n - x \in Nat /\ n - x \in R
      OBVIOUS
    <3> QED BY <3>1
  <2> HIDE DEF R
  <2>2. PICK r \in R : \A y \in R : ~ (<<y, r>> \in Below)
    BY <1>2, <2>1, WFMin
  <2>3. PICK x \in S : r = n - x
    BY <2>2 DEF R
  <2>4. \A y \in S : n - y >= n - x
    <3> TAKE y \in S
    <3>1. n - y \in R
      BY DEF R
    <3>2. n - y \in Nat /\ r \in Nat /\ ~ (n - y < r)
      BY <1>1, <2>1, <2>2, <3>1
    <3> QED BY <2>3, <3>2
  <2>5. \A y \in S : x >= y
    BY <2>4
  <2> QED BY <2>5
<1> QED BY <1>3, <1>4 DEF Min, Max

Slashes(n) == [k \in 1 .. n |-> EmptyText]

(* A sequence between two runs of empty texts, element by element. *)
LEMMA Padded ==
  ASSUME NEW T, EmptyText \in T, NEW core \in Seq(T), NEW i \in Nat, NEW k \in Nat
  PROVE LET s == Slashes(i) \o core \o Slashes(k) IN
        /\ s \in Seq(T) /\ Len(s) = i + Len(core) + k
        /\ \A n \in 1 .. Len(s) :
             s[n] = IF n <= i \/ n > i + Len(core) THEN EmptyText ELSE core[n - i]
<1> DEFINE a == Slashes(i)
           b == Slashes(k)
           ac == a \o core
<1>1. /\ a \in Seq(T) /\ Len(a) = i /\ \A n \in 1 .. i : a[n] = EmptyText
      /\ b \in Seq(T) /\ Len(b) = k /\ \A n \in 1 .. k : b[n] = EmptyText
      /\ Len(core) \in Nat
  BY DEF Slashes
<1> HIDE DEF a, b
<1>2. /\ ac \in Seq(T) /\ Len(ac) = i + Len(core)
      /\ \A n \in 1 .. i + Len(core) : ac[n] = IF n <= i THEN a[n] ELSE core[n - i]
  BY <1>1, ConcatProperties
<1> HIDE DEF ac
<1>3. /\ ac \o b \in Seq(T) /\ Len(ac \o b) = i + Len(core) + k
      /\ \A n \in 1 .. i + Len(core) + k :
           (ac \o b)[n] = IF n <= i + Len(core) THEN ac[n] ELSE b[n - (i + Len(core))]
  <2>1. /\ ac \o b \in Seq(T) /\ Len(ac \o b) = Len(ac) + Len(b)
        /\ \A n \in 1 .. Len(ac) + Len(b) :
             (ac \o b)[n] = IF n <= Len(ac) THEN ac[n] ELSE b[n - Len(ac)]
    BY <1>1, <1>2, ConcatProperties
  <2> QED BY <1>1, <1>2, <2>1
<1>4. ASSUME NEW n \in 1 .. i + Len(core) + k
      PROVE (ac \o b)[n] = IF n <= i \/ n > i + Len(core) THEN EmptyText ELSE core[n - i]
  BY <1>1, <1>2, <1>3
<1> QED BY <1>3, <1>4 DEF ac, a, b

(* split() cuts a path down to the part that a route of the interface      *)
(* names, whatever slashes surround it, and to no other.                   *)
LEMMA Trim ==
  ASSUME NEW T, EmptyText \in T, NEW path \in Seq(T), NEW core \in Seq(T), Len(core) > 0,
         core[1] # EmptyText, core[Len(core)] # EmptyText
  PROVE Surrounds(path, core) <=> SplitPath(path) = core
<1> DEFINE m == Len(path)
           c == Len(core)
           full == {i \in DOMAIN path : path[i] # EmptyText}
<1>1. m \in Nat /\ c \in Nat /\ c > 0 /\ DOMAIN path = 1 .. m /\ full \in SUBSET (1 .. m)
      /\ \A n \in 1 .. m : path[n] \in T
  BY ElementOfSeq
<1>2. \A i \in 1 .. m : i \in full <=> path[i] # EmptyText
  BY <1>1
<1>3. SplitPath(path) = IF full = {} THEN <<>> ELSE SubSeq(path, Min(full), Max(full))
  BY DEF SplitPath
<1> HIDE DEF full
<1>4. ASSUME Surrounds(path, core) PROVE SplitPath(path) = core
  <2>1. PICK i \in 0 .. m - c : path = Slashes(i) \o core \o Slashes(m - c - i)
    BY <1>4 DEF Surrounds, Slashes
  <2>2. i \in Nat /\ m - c - i \in Nat
    BY <1>1
  <2>3. \A n \in 1 .. m :
          path[n] = IF n <= i \/ n > i + c THEN EmptyText ELSE core[n - i]
    <3> DEFINE s == Slashes(i) \o core \o Slashes(m - c - i)
    <3>1. \A n \in 1 .. Len(s) :
            s[n] = IF n <= i \/ n > i + Len(core) THEN EmptyText ELSE core[n - i]
      BY <2>2, Padded
    <3>2. path = s
      BY <2>1
    <3> HIDE DEF s
    <3> QED BY <3>1, <3>2
  <2>4. /\ path[i + 1] = core[1] /\ path[i + c] = core[c]
        /\ i + 1 \in 1 .. m /\ i + c \in 1 .. m
    <3>1. i + 1 \in 1 .. m /\ i + c \in 1 .. m /\ (i + 1) - i = 1 /\ (i + c) - i = c
          /\ ~ (i + 1 <= i \/ i + 1 > i + c) /\ ~ (i + c <= i \/ i + c > i + c)
      BY <1>1, <2>2
    <3> QED BY <2>3, <3>1
  <2>5. i + 1 \in full /\ i + c \in full
    BY <1>2, <2>4
  <2>6. \A n \in full : n >= i + 1 /\ n <= i + c
    <3> TAKE n \in full
    <3>1. n \in 1 .. m /\ path[n] # EmptyText
      BY <1>1, <1>2
    <3>2. ~ (n <= i \/ n > i + c)
      BY <2>3, <3>1
    <3> QED BY <3>1, <3>2, <1>1, <2>2
  <2>7. Min(full) = i + 1 /\ Max(full) = i + c
    <3> DEFINE lo == Min(full)
               hi == Max(full)
    <3>1. lo \in full /\ (\A y \in full : lo <= y) /\ hi \in full /\ \A y \in full : hi >= y
      BY <1>1, <2>5, LeastAndGreatest
    <3> HIDE DEF lo, hi
    <3>2. lo \in 1 .. m /\ hi \in 1 .. m
      BY <1>1, <3>1
    <3>3. lo <= i + 1 /\ lo >= i + 1
      BY <2>5, <2>6, <3>1
    <3>4. hi >= i + c /\ hi <= i + c
      BY <2>5, <2>6, <3>1
    <3>5. lo = i + 1 /\ hi = i + c
      BY <1>1, <2>2, <3>2, <3>3, <3>4
    <3> QED BY <3>5 DEF lo, hi
  <2> DEFINE sub == SubSeq(path, i + 1, i + c)
  <2>8. \A n \in (i + 1) .. (i + c) : path[n] \in T
    BY <1>1, <2>2
  <2>9. /\ sub \in Seq(T) /\ Len(sub) = c
        /\ \A n \in 1 .. c : sub[n] = path[i + n]
    <3>1. i + 1 \in Int /\ i + c \in Int /\ i + 1 <= i + c /\ (i + c) - (i + 1) + 1 = c
          /\ \A n \in 1 .. c : (i + 1) + n - 1 = i + n
      BY <1>1, <2>2
    <3>2. /\ sub \in Seq(T)
          /\ Len(sub) = IF i + 1 <= i + c THEN (i + c) - (i + 1) + 1 ELSE 0
          /\ \A n \in 1 .. (i + c) - (i + 1) + 1 : sub[n] = path[(i + 1) + n - 1]
      BY <2>8, <3>1, SubSeqProperties
    <3> HIDE DEF sub
    <3> QED BY <3>1, <3>2
  <2>10. \A n \in 1 .. c : path[i + n] = core[n]
    <3> TAKE n \in 1 .. c
    <3>1. i + n \in 1 .. m /\ (i + n) - i = n /\ ~ (i + n <= i \/ i + n > i + c)
      BY <1>1, <2>2
    <3> QED BY <2>3, <3>1
  <2>11. sub = core
    <3> HIDE DEF sub
    <3> QED BY <2>9, <2>10, SeqEqual
  <2> QED BY <1>3, <2>5, <2>7, <2>11
<1>5. ASSUME SplitPath(path) = core PROVE Surrounds(path, core)
  <2>1. full # {}
    BY <1>1, <1>3, <1>5
  <2> DEFINE a == Min(full)
             b == Max(full)
  <2>2. a \in full /\ b \in full /\ \A y \in full : a <= y /\ b >= y
    BY <1>1, <2>1, LeastAndGreatest
  <2> HIDE DEF a, b
  <2>3. a \in 1 .. m /\ b \in 1 .. m /\ a <= b
    BY <1>1, <2>2
  <2>4. /\ core = SubSeq(path, a, b) /\ c = b - a + 1
        /\ \A n \in 1 .. c : core[n] = path[a + n - 1]
    <3>1. core = SubSeq(path, a, b)
      BY <1>3, <1>5, <2>1 DEF a, b
    <3>2. a \in Int /\ b \in Int /\ \A n \in a .. b : path[n] \in T
      BY <1>1, <2>3
    <3>3. /\ Len(SubSeq(path, a, b)) = IF a <= b THEN b - a + 1 ELSE 0
          /\ \A n \in 1 .. b - a + 1 : SubSeq(path, a, b)[n] = path[a + n - 1]
      BY <3>2, SubSeqProperties
    <3> QED BY <2>3, <3>1, <3>3
  <2> DEFINE i == a - 1
             s == Slashes(i) \o core \o Slashes(m - c - i)
  <2>5. i \in Nat /\ i \in 0 .. m - c /\ m - c - i \in Nat /\ i + c + (m - c - i) = m
        /\ i + c = b /\ i + 1 = a
    BY <1>1, <2>3, <2>4
  <2> HIDE DEF i
  <2>6. /\ s \in Seq(T) /\ Len(s) = m
        /\ \A n \in 1 .. m :
             s[n] = IF n <= i \/ n > i + c THEN EmptyText ELSE core[n - i]
    <3>1. /\ s \in Seq(T) /\ Len(s) = i + Len(core) + (m - c - i)
          /\ \A n \in 1 .. Len(s) :
               s[n] = IF n <= i \/ n > i + Len(core) THEN EmptyText ELSE core[n - i]
      BY <2>5, Padded
    <3> HIDE DEF s
    <3> QED BY <2>5, <3>1
  <2> HIDE DEF s
  <2>7. ASSUME NEW n \in 1 .. m PROVE s[n] = path[n]
    <3>1. CASE n < a \/ n > b
      <4>1. n \notin full
        BY <1>1, <2>2, <2>3, <3>1
      <4>2. path[n] = EmptyText
        BY <1>2, <4>1
      <4>3. n <= i \/ n > i + c
        BY <2>3, <2>5, <3>1
      <4> QED BY <2>6, <4>2, <4>3
    <3>2. CASE n >= a /\ n <= b
      <4>1. ~ (n <= i \/ n > i + c) /\ n - i \in 1 .. c /\ a + (n - i) - 1 = n
        BY <1>1, <2>3, <2>5, <3>2
      <4>2. s[n] = core[n - i]
        BY <2>6, <4>1
      <4>3. core[n - i] = path[a + (n - i) - 1]
        BY <2>4, <4>1
      <4> QED BY <4>1, <4>2, <4>3
    <3> QED BY <2>3, <3>1, <3>2
  <2>8. path = s
    BY <1>1, <2>6, <2>7, SeqEqual
  <2> QED BY <2>5, <2>8 DEF Surrounds, Slashes, s
<1> QED BY <1>4, <1>5

(* The leading slash of a path of three parts is removed. *)
LEMMA ThreeParts ==
  ASSUME NEW a, NEW b, NEW c, a # EmptyText, b # EmptyText, c # EmptyText
  PROVE SplitPath(<<EmptyText, a, b, c>>) = <<a, b, c>>
<1> DEFINE path == <<EmptyText, a, b, c>>
           full == {i \in DOMAIN path : path[i] # EmptyText}
           lo == Min(full)
           hi == Max(full)
<1>1. DOMAIN path = {1, 2, 3, 4}
  <2>1. path \in Seq({EmptyText, a, b, c}) /\ Len(path) = 4
    OBVIOUS
  <2> HIDE DEF path
  <2>2. DOMAIN path = 1 .. 4
    BY <2>1
  <2> QED BY <2>2
<1>2. path[1] = EmptyText /\ path[2] = a /\ path[3] = b /\ path[4] = c
  BY DEF EmptyText
<1>3. SplitPath(path) = IF full = {} THEN <<>> ELSE SubSeq(path, lo, hi)
  BY DEF SplitPath
<1> HIDE DEF path
<1>4. full = {2, 3, 4}
  BY <1>1, <1>2
<1> HIDE DEF full
<1>5. full \in SUBSET (1 .. 4) /\ full # {}
  BY <1>4
<1>6. lo \in full /\ (\A y \in full : lo <= y) /\ hi \in full /\ \A y \in full : hi >= y
  BY <1>5, LeastAndGreatest
<1> HIDE DEF lo, hi
<1>7. lo = 2 /\ hi = 4
  BY <1>4, <1>6
<1>8. SubSeq(path, 2, 4) = <<a, b, c>>
  <2> DEFINE T == {a, b, c}
             sub == SubSeq(path, 2, 4)
             core == <<a, b, c>>
  <2>1. \A i \in 2 .. 4 : path[i] \in T
    BY <1>2
  <2>2. core \in Seq(T) /\ Len(core) = 3 /\ core[1] = a /\ core[2] = b /\ core[3] = c
    OBVIOUS
  <2> HIDE DEF T, core
  <2>3. /\ sub \in Seq(T) /\ Len(sub) = IF 2 <= 4 THEN 4 - 2 + 1 ELSE 0
        /\ \A i \in 1 .. 4 - 2 + 1 : sub[i] = path[2 + i - 1]
    BY <2>1, SubSeqProperties
  <2> HIDE DEF sub
  <2>4. Len(sub) = 3 /\ sub[1] = path[2] /\ sub[2] = path[3] /\ sub[3] = path[4]
    BY <2>3
  <2>5. \A i \in 1 .. 3 : sub[i] = core[i]
    BY <1>2, <2>2, <2>4
  <2>6. sub = core
    BY <2>2, <2>3, <2>4, <2>5, SeqEqual
  <2> QED BY <2>6 DEF sub, core
<1> QED BY <1>3, <1>5, <1>7, <1>8 DEF path
-----------------------------------------------------------------------------
(* Requests and their commands *)

CommandOf(query) ==
  CASE query = "task_status" -> "status"
    [] query = "task_result" -> "result"
    [] query = "cancel_reason" -> "cancel"

(* Both adapters turn a follow-up into a query for the task it is about:   *)
(* the sign extension undoes the narrowing, the decimal form is exact.     *)
LEMMA FollowUpDecoded ==
  ASSUME NEW h, NEW query \in Queries, h.typed \in BOOLEAN, h.task \in Ids,
         ToUint64(ToInt32(h.task)) = h.task,
         h.uuid = Number(IF h.typed THEN ToInt32(h.task) ELSE h.task)
  PROVE Decoded(FollowUp(h, query)) = TaskCommand(CommandOf(query), h.task)
<1> DEFINE req == FollowUp(h, query)
<1>1. CASE h.typed
  <2>1. req = [case |-> query, uuid |-> ToInt32(h.task)]
    BY <1>1 DEF FollowUp, Number
  <2>2. req.case = query /\ req.uuid = ToInt32(h.task)
    BY <2>1
  <2> HIDE DEF req
  <2>3. IsTyped(req)
    BY <2>2 DEF IsTyped, Queries
  <2>4. TypedDecode(req) = TaskCommand(CommandOf(query), ToUint64(req.uuid))
    BY <2>2 DEF TypedDecode, CommandOf, Queries
  <2> QED BY <2>2, <2>3, <2>4 DEF Decoded, req
<1>2. CASE ~ h.typed
  <2> DEFINE last == CASE query = "task_status" -> "status"
                       [] query = "task_result" -> "result"
                       [] query = "cancel_reason" -> "cancel_reason"
             job == Word("job")
             num == Number(h.task)
             path == <<job, num, Word(last)>>
             whole == <<EmptyText, job, num, Word(last)>>
  <2>1. req = [case |-> "not_set", method |-> "GET", data |-> [key \in DataKeys |-> "absent"],
               path |-> whole]
    BY <1>2 DEF FollowUp
  <2>2. req.case = "not_set" /\ req.method = "GET"
        /\ req.path = whole
    <3> HIDE DEF whole, req
    <3> QED BY <2>1
  <2>3. /\ query = "task_status" => last = "status"
        /\ query = "task_result" => last = "result"
        /\ query = "cancel_reason" => last = "cancel_reason"
    OBVIOUS
  <2> HIDE DEF req, last, whole
  <2>4. job # EmptyText /\ num # EmptyText /\ Word(last) # EmptyText
    BY <2>3 DEF Word, Number, EmptyText, Queries
  <2> HIDE DEF job, num
  <2>5. SplitPath(req.path) = path
    BY <2>2, <2>4, ThreeParts DEF whole
  <2>6. Len(path) = 3 /\ path[1] = job /\ path[2] = num /\ path[3] = Word(last)
    OBVIOUS
  <2> HIDE DEF path
  <2>7. path # <<Word("job")>>
    <3>1. Len(<<Word("job")>>) = 1
      OBVIOUS
    <3> QED BY <2>6, <3>1
  <2>8. JobCommand(path) = TaskCommand(CommandOf(query), h.task)
    <3>1. num[1] = "number" /\ num[2] = h.task
      BY DEF num, Number
    <3>2. ParsesAsTaskId(path[2])
      BY <2>6, <3>1 DEF ParsesAsTaskId
    <3>3. /\ path[3] = Word("status") <=> query = "task_status"
          /\ path[3] = Word("result") <=> query = "task_result"
          /\ path[3] = Word("cancel_reason") <=> query = "cancel_reason"
      BY <2>3, <2>6 DEF Word, Queries
    <3>4. path[2][2] = h.task
      BY <2>6, <3>1
    <3> QED BY <3>2, <3>3, <3>4 DEF JobCommand, CommandOf, Queries
  <2>9. RestDecode(req) = JobCommand(path)
    <3>1. path[1] = Word("job") /\ Word("job") # Word("resources")
      BY <2>6 DEF Word, job
    <3>2. SplitPath(req.path) = path /\ req.method = "GET" /\ Len(path) = 3
      BY <2>2, <2>5, <2>6
    <3> QED BY <2>7, <3>1, <3>2 DEF RestDecode
  <2>10. ~ IsTyped(req)
    BY <2>2 DEF IsTyped
  <2> QED BY <2>8, <2>9, <2>10 DEF Decoded, req
<1> QED BY <1>1, <1>2
-----------------------------------------------------------------------------
(* The inductive invariant *)

LEMMA ReplyParts ==
  \A kind \in ReplyKinds : \A text, job, num :
    LET r == Reply(kind, text, job, num)
    IN IsReply(r) /\ r.kind = kind /\ r.text = text /\ r.job = job /\ r.num = num
BY DEF IsReply, Reply

(* The conversions no longer change an identifier that a client was told. *)
LEMMA ToldKept ==
  ASSUME Numbered, NEW h, ToldOf(h)
  PROVE h.task \in Ids /\ ToUint64(ToInt32(h.task)) = h.task
<1>1. PICK id \in DOMAIN jobAt : h.task = ToUint64(ToInt32(id))
  BY DEF ToldOf
<1>2. id \in Int
  <2>1. PICK i \in Indices : id = TaskId(incarnation, i)
    BY <1>1 DEF Numbered
  <2>2. i \in Nat
    BY <2>1, ForwardAssumption DEF Indices
  <2>3. id \in Nat
    BY <2>1, <2>2, IdTypes DEF Numbered
  <2> QED BY <2>3
<1>3. ToInt32(id) \in WireIds /\ ToInt32(id) \in Int
  BY <1>2, IdTypes
<1> QED BY <1>1, <1>3, IdTypes, ClientIdKept

(* The command executed is one the decoders produce; its identifier is a   *)
(* 64-bit one.                                                             *)
LEMMA ReplyOfExecute ==
  ASSUME CInv, Execute
  PROVE /\ IsReply(result')
        /\ command.cmd = "status" =>
             result' = Reply("status", Status(ToUint64(command.id)), NoJob, 0)
        /\ result'.kind = "created" =>
             \E id \in DOMAIN jobAt' : result'.num = ToUint64(ToInt32(id))
<1> DEFINE req == AsRequest(command)
<1>req. req.cmd = command.cmd /\ req.id = command.id /\ req.known \in BOOLEAN
  BY DEF AsRequest
<1> HIDE DEF req
<1>reply. ASSUME NEW kind \in ReplyKinds \ {"created"}, NEW text, NEW job, NEW num,
              result' = Reply(kind, text, job, num)
      PROVE IsReply(result') /\ result'.kind # "created"
  BY <1>reply, ReplyParts
<1>1. ASSUME NEW job, Create(job), command.cmd = "create"
      PROVE /\ IsReply(result') /\ command.cmd # "status"
            /\ \E id \in DOMAIN jobAt' : result'.num = ToUint64(ToInt32(id))
  <2>1. PICK id \in Ids : jobAt' = InsertOrAssign(jobAt, id, job) /\ result' = Created(id)
    BY <1>1 DEF Create
  <2>2. id \in DOMAIN jobAt'
    BY <2>1 DEF InsertOrAssign
  <2>3. result'.num = ToUint64(ToInt32(id)) /\ IsReply(result')
    BY <2>1, ReplyParts DEF Created, ReplyKinds
  <2> QED BY <1>1, <2>2, <2>3
<1>2. CASE result' = Error(command.message) /\ command.cmd # "status"
  <2>1. result' = Reply("error", command.message, NoJob, 0) /\ "error" \in ReplyKinds
    BY <1>2 DEF Error, ReplyKinds
  <2>2. IsReply(result') /\ result'.kind = "error"
    BY <2>1, ReplyParts
  <2> QED BY <1>2, <2>2
<1>3. CASE result' = Error("JOB IS WAITING") /\ command.cmd # "status"
  BY <1>3, ReplyParts DEF Error, ReplyKinds
<1>4. CASE result' = AnswerAtOnce(req) /\ command.cmd \in {"status", "list", "resource", "pending"}
  <2>1. CASE command.cmd = "status"
    <3>1. result' = Reply("status", Status(ToUint64(command.id)), NoJob, 0)
      BY <1>req, <1>4, <2>1 DEF AnswerAtOnce
    <3> QED BY <3>1, ReplyParts DEF ReplyKinds
  <2>2. CASE command.cmd # "status"
    <3>1. \/ result' = Reply("resources", "none", NoJob, 0)
          \/ result' = Reply("resource", "none", NoJob, 0)
          \/ result' = Reply("pendingTasks", "none", NoJob, PendingCount)
          \/ result' = Error("RESOURCE NOT FOUND")
      BY <1>req, <1>4, <2>2 DEF AnswerAtOnce
    <3> QED BY <2>2, <3>1, <1>reply DEF ReplyKinds, Error
  <2> QED BY <2>1, <2>2
<1>5. CASE result' = AnswerTaken(req) /\ command.cmd \in {"result", "cancel"}
  <2>1. \/ result' = Error("JOB NOT FOUND")
        \/ \E job : result' = Reply("result", "none", job, 0)
        \/ result' = Reply("cancelReason", "none", NoJob, 0)
    BY <1>5 DEF AnswerTaken
  <2> QED BY <1>5, <2>1, <1>reply DEF ReplyKinds, Error
<1>6. \/ \E job : Create(job) /\ command.cmd = "create"
      \/ result' = Error(command.message) /\ command.cmd # "status"
      \/ result' = Error("JOB IS WAITING") /\ command.cmd # "status"
      \/ result' = AnswerAtOnce(req) /\ command.cmd \in {"status", "list", "resource", "pending"}
      \/ result' = AnswerTaken(req) /\ command.cmd \in {"result", "cancel"}
  BY DEF Execute, req
<1>7. CASE \E job : Create(job) /\ command.cmd = "create"
  BY <1>1, <1>7
<1> QED BY <1>2, <1>3, <1>4, <1>5, <1>6, <1>7

(* What a step of one request leaves to show when it does not touch the    *)
(* store or the tasks.                                                     *)
LEMMA StoreUnchanged ==
  ASSUME CInv, UNCHANGED <<pending, completed, nextTaskIndex, incarnation, jobAt, taken>>
  PROVE /\ Numbered' /\ Stored' /\ (told' = told => Told')
        /\ \A h : ToldOf(h) => ToldOf(h)'
        /\ \A id : Status(id)' = Status(id)
<1>1. Numbered' /\ Stored' /\ \A id : Status(id)' = Status(id)
  BY DEF CInv, Numbered, Stored, Status
<1>2. ASSUME NEW h, ToldOf(h) PROVE ToldOf(h)'
  BY <1>2 DEF ToldOf
<1>3. told' = told => Told'
  BY <1>2 DEF CInv, Told
<1> QED BY <1>1, <1>2, <1>3

LEMMA ReceiveStep ==
  ASSUME CInv, NEW req, NEW h, Receive(req, h),
         \/ h = NoHandle /\ req \in TypedRequests \cup RestRequests
         \/ h \in told /\ \E query \in Queries : req = FollowUp(h, query)
  PROVE CInv'
<1>1. stage' = "decode" /\ request' = req /\ handle' = h /\ told' = told
  BY DEF Receive
<1>2. Numbered' /\ Stored' /\ Told'
  BY <1>1, StoreUnchanged DEF Receive
<1>3. Asked'
  BY <1>1 DEF Asked
<1>4. Understood' /\ Answered' /\ Worded' /\ stage' \in Stages
  BY <1>1 DEF Understood, Answered, Worded, Stages
<1> QED BY <1>2, <1>3, <1>4 DEF CInv

LEMMA DecodeStep ==
  ASSUME CInv, Decode PROVE CInv'
<1>1. /\ stage = "decode" /\ stage' = "execute" /\ command' = Decoded(request)
      /\ request' = request /\ handle' = handle /\ told' = told
  BY DEF Decode
<1>2. Numbered' /\ Stored' /\ Told'
  BY <1>1, StoreUnchanged DEF Decode
<1>3. Asked'
  BY <1>1 DEF CInv, Asked
<1>4. Understood'
  <2>1. Decoded(request)' = Decoded(request)
    BY <1>1
  <2> QED BY <1>1, <2>1 DEF Understood
<1>5. Answered' /\ Worded' /\ stage' \in Stages
  BY <1>1 DEF Answered, Worded, Stages
<1> QED BY <1>2, <1>3, <1>4, <1>5 DEF CInv

LEMMA EncodeStep ==
  ASSUME CInv, Encode PROVE CInv'
<1>1. /\ stage = "encode" /\ stage' = "reply" /\ response' = Encoded(request, result)
      /\ UNCHANGED <<request, command, result, handle, told, jobAt>>
  BY DEF Encode
<1>2. Numbered' /\ Stored' /\ Told' /\ \A id : Status(id)' = Status(id)
  BY <1>1, StoreUnchanged DEF Encode
<1>3. Asked'
  BY <1>1 DEF CInv, Asked
<1>4. Understood'
  BY <1>1 DEF CInv, Understood
<1>5. Answered'
  BY <1>1, <1>2 DEF CInv, Answered
<1>6. Worded' /\ stage' \in Stages
  BY <1>1 DEF Worded, Stages
<1> QED BY <1>2, <1>3, <1>4, <1>5, <1>6 DEF CInv

LEMMA SendStep ==
  ASSUME CInv, Send PROVE CInv'
<1>1. stage = "reply" /\ stage' = "idle"
  BY DEF Send
<1>2. /\ Numbered' /\ Stored' /\ \A h : ToldOf(h) => ToldOf(h)'
  BY StoreUnchanged DEF Send
<1>3. Told'
  <2>1. CASE result.kind # "created"
    <3>1. told' = told
      BY <2>1 DEF Send
    <3> QED BY <3>1, <1>2 DEF CInv, Told
  <2>2. CASE result.kind = "created"
    <3> DEFINE uuid == IF IsTyped(request) THEN Number(response.num) ELSE response.value
               new == [typed |-> IsTyped(request), task |-> result.num, uuid |-> uuid]
    <3>1. told' = told \cup {new}
      BY <2>2 DEF Send
    <3>2. uuid = Number(IF IsTyped(request) THEN ToInt32(result.num) ELSE result.num)
      <4>1. response = Encoded(request, result)
        BY <1>1 DEF CInv, Worded
      <4>2. ~ IsNotFound(result)
        BY <2>2 DEF IsNotFound
      <4>3. TypedEncode(result).num = ToInt32(result.num)
        BY <4>2 DEF TypedEncode
      <4>4. RestEncode(result).value = Number(result.num)
        BY <2>2, <4>2 DEF RestEncode, UuidText
      <4> QED BY <4>1, <4>3, <4>4 DEF Encoded
    <3>3. PICK id \in DOMAIN jobAt : result.num = ToUint64(ToInt32(id))
      BY <1>1, <2>2 DEF CInv, Answered
    <3>4. new.typed = IsTyped(request) /\ new.task = result.num /\ new.uuid = uuid
      OBVIOUS
    <3>5. IsTyped(request) \in BOOLEAN
      BY DEF IsTyped
    <3> HIDE DEF uuid, new
    <3>6. ToldOf(new)
      BY <3>2, <3>3, <3>4, <3>5 DEF ToldOf
    <3>7. ASSUME NEW h \in told' PROVE ToldOf(h)'
      BY <1>2, <3>1, <3>6 DEF CInv, Told
    <3> QED BY <3>7 DEF Told
  <2> QED BY <2>1, <2>2
<1>4. Asked' /\ Understood' /\ Answered' /\ Worded' /\ stage' \in Stages
  BY <1>1 DEF Asked, Understood, Answered, Worded, Stages
<1> QED BY <1>2, <1>3, <1>4 DEF CInv

LEMMA ExecuteStep ==
  ASSUME CInv, Execute PROVE CInv'
<1>1. /\ stage = "execute" /\ stage' = "encode"
      /\ UNCHANGED <<incarnation, request, command, handle, told>>
  BY DEF Execute
<1>2. Numbered' /\ Stored' /\ DOMAIN jobAt \subseteq DOMAIN jobAt'
      /\ (command.cmd = "status" => pending' = pending /\ completed' = completed)
  <2>1. ASSUME NEW job, Create(job), UNCHANGED taken, command.cmd = "create"
        PROVE Numbered' /\ Stored' /\ DOMAIN jobAt \subseteq DOMAIN jobAt'
    <3>1. PICK id \in Ids :
            /\ NextTaskId(id) /\ RegisterControl(id)
            /\ jobAt' = InsertOrAssign(jobAt, id, job)
      BY <2>1 DEF Create
    <3>2. DOMAIN jobAt' = DOMAIN jobAt \cup {id}
      BY <3>1 DEF InsertOrAssign
    <3>3. DOMAIN pending' = DOMAIN pending \cup {id} /\ completed' = completed
      BY <3>1 DEF RegisterControl, AddControlTask, AddDirectTask, InsertOrAssign
    <3>4. id = TaskId(incarnation, nextTaskIndex) /\ nextTaskIndex' = nextTaskIndex + 1
          /\ nextTaskIndex < MaxTasks
      BY <3>1 DEF NextTaskId
    <3>5. nextTaskIndex \in Indices /\ nextTaskIndex' \in Nat
      BY <3>4, ForwardAssumption DEF CInv, Numbered, Indices
    <3>6. ASSUME NEW k \in DOMAIN jobAt' PROVE \E i \in Indices : k = TaskId(incarnation, i)
      BY <3>2, <3>4, <3>5 DEF CInv, Numbered
    <3>7. Numbered'
      <4>1. ASSUME NEW k \in DOMAIN jobAt' PROVE \E i \in Indices : k = TaskId(incarnation, i)'
        <5>1. PICK i \in Indices : k = TaskId(incarnation, i)
          BY <3>6
        <5>2. k = TaskId(incarnation', i)
          BY <1>1, <5>1
        <5> QED BY <5>2
      <4>2. incarnation' \in Incarnations
        BY <1>1 DEF CInv, Numbered
      <4> QED BY <3>5, <4>1, <4>2 DEF Numbered
    <3>8. Stored'
      BY <2>1, <3>2, <3>3 DEF CInv, Stored
    <3> QED BY <3>2, <3>7, <3>8
  <2>2. CASE UNCHANGED <<pending, completed, nextTaskIndex, jobAt, taken>>
    BY <1>1, <2>2, StoreUnchanged
  <2>3. CASE /\ completed' = Erase(completed, command.id) /\ UNCHANGED pending
             /\ taken' = taken \cup {command.id} /\ command.cmd # "status"
             /\ UNCHANGED <<nextTaskIndex, jobAt>>
    <3>1. DOMAIN completed' = DOMAIN completed \ {command.id}
      BY <2>3 DEF Erase
    <3>2. Stored'
      BY <2>3, <3>1 DEF CInv, Stored
    <3>3. Numbered'
      BY <1>1, <2>3 DEF CInv, Numbered
    <3> QED BY <2>3, <3>2, <3>3
  <2>4. \/ \E job : Create(job) /\ UNCHANGED taken /\ command.cmd = "create"
        \/ UNCHANGED <<pending, completed, nextTaskIndex, jobAt, taken>>
        \/ /\ completed' = Erase(completed, command.id) /\ UNCHANGED pending
           /\ taken' = taken \cup {command.id} /\ command.cmd # "status"
           /\ UNCHANGED <<nextTaskIndex, jobAt>>
    BY DEF Execute, TakeCompletedControlTask, AsRequest
  <2>5. CASE \E job : Create(job) /\ UNCHANGED taken /\ command.cmd = "create"
    BY <2>1, <2>5
  <2> QED BY <2>2, <2>3, <2>4, <2>5
<1>3. Told'
  <2>1. ASSUME NEW h \in told PROVE ToldOf(h)'
    BY <1>2 DEF CInv, Told, ToldOf
  <2> QED BY <1>1, <2>1 DEF Told
<1>4. Asked'
  BY <1>1 DEF CInv, Asked
<1>5. Understood'
  BY <1>1 DEF CInv, Understood
<1>6. Answered'
  <2>1. command.cmd = "status" => \A id : Status(id)' = Status(id)
    BY <1>2 DEF Status
  <2>2. command.cmd = "status" =>
          result' = Reply("status", Status(ToUint64(command.id))', NoJob, 0)
    BY <1>1, <2>1, ReplyOfExecute
  <2> QED BY <1>1, <2>2, ReplyOfExecute DEF Answered
<1>7. Worded' /\ stage' \in Stages
  BY <1>1 DEF Worded, Stages
<1> QED BY <1>2, <1>3, <1>4, <1>5, <1>6, <1>7 DEF CInv

LEMMA FinishStep ==
  ASSUME CInv, NEW id \in DOMAIN pending, NEW ok \in BOOLEAN, Finish(id, ok) PROVE CInv'
<1>1. /\ stage = "idle" /\ stage' = "idle"
      /\ UNCHANGED <<nextTaskIndex, incarnation, told, jobAt, taken>>
  BY DEF Finish
<1>2. DOMAIN pending' = DOMAIN pending \ {id} /\ DOMAIN completed' = DOMAIN completed \cup {id}
  BY DEF Finish, Erase, InsertOrAssign
<1>3. Numbered' /\ Stored'
  BY <1>1, <1>2 DEF CInv, Numbered, Stored
<1>4. Told'
  <2>1. ASSUME NEW h \in told PROVE ToldOf(h)'
    BY <1>1 DEF CInv, Told, ToldOf
  <2> QED BY <1>1, <2>1 DEF Told
<1>5. Asked' /\ Understood' /\ Answered' /\ Worded' /\ stage' \in Stages
  BY <1>1 DEF Asked, Understood, Answered, Worded, Stages
<1> QED BY <1>3, <1>4, <1>5 DEF CInv

LEMMA CInvStep == CInv /\ [CNext]_cvars => CInv'
<1> SUFFICES ASSUME CInv, [CNext]_cvars PROVE CInv'
  OBVIOUS
<1>1. CASE \E req \in TypedRequests \cup RestRequests : Receive(req, NoHandle)
  BY <1>1, ReceiveStep
<1>2. CASE \E h \in told, query \in Queries : Receive(FollowUp(h, query), h)
  <2>1. PICK h \in told, query \in Queries : Receive(FollowUp(h, query), h)
    BY <1>2
  <2> QED BY <2>1, ReceiveStep
<1>3. CASE Decode
  BY <1>3, DecodeStep
<1>4. CASE Execute
  BY <1>4, ExecuteStep
<1>5. CASE Encode
  BY <1>5, EncodeStep
<1>6. CASE Send
  BY <1>6, SendStep
<1>7. CASE \E id \in DOMAIN pending, ok \in BOOLEAN : Finish(id, ok)
  BY <1>7, FinishStep
<1>8. CASE UNCHANGED cvars
  <2>1. Numbered' /\ Stored' /\ Told' /\ Asked' /\ Understood' /\ Worded' /\ stage' \in Stages
    BY <1>8, StoreUnchanged DEF cvars, CInv, Asked, Understood, Worded
  <2>2. Answered'
    BY <1>8, StoreUnchanged DEF cvars, CInv, Answered
  <2> QED BY <2>1, <2>2 DEF CInv
<1> QED BY <1>1, <1>2, <1>3, <1>4, <1>5, <1>6, <1>7, <1>8 DEF CNext, Queries

LEMMA CInvInit == CInit => CInv
<1> SUFFICES ASSUME CInit PROVE CInv
  OBVIOUS
<1>1. stage = "idle" /\ told = {} /\ DOMAIN jobAt = {} /\ nextTaskIndex = 0 /\ incarnation = 1
  BY DEF CInit, EmptyMap
<1>2. 1 \in Incarnations
  BY ForwardAssumption DEF Incarnations
<1> QED BY <1>1, <1>2 DEF CInv, Numbered, Stored, Told, Asked, Understood, Answered, Worded, Stages

(* Every request of a client, the tasks it is about and the answer under   *)
(* way stay related: what Control::process() may rely on at each stage.    *)
THEOREM CInvHolds == CSpec => []CInv
<1> QED BY CInvInit, CInvStep, PTL DEF CSpec
-----------------------------------------------------------------------------
(* What clients see *)

(* The query a client sends about a task it was told of is decoded as a    *)
(* query for that task.                                                    *)
LEMMA HandleDecoded ==
  ASSUME CInv, stage \in {"execute", "encode"}, handle # NoHandle
  PROVE /\ ToldOf(handle)
        /\ \E query \in Queries : command = TaskCommand(CommandOf(query), handle.task)
<1>1. PICK query \in Queries : handle \in told /\ request = FollowUp(handle, query)
  BY DEF CInv, Asked, Stages
<1>2. ToldOf(handle) /\ Numbered
  BY <1>1 DEF CInv, Told
<1>3. handle.task \in Ids /\ ToUint64(ToInt32(handle.task)) = handle.task
  BY <1>2, ToldKept
<1>4. command = Decoded(FollowUp(handle, query))
  BY <1>1 DEF CInv, Understood
<1>5. command = TaskCommand(CommandOf(query), handle.task)
  BY <1>2, <1>3, <1>4, FollowUpDecoded DEF ToldOf
<1> QED BY <1>2, <1>5

(* A uuid that an answer of either adapter carries leads the next query    *)
(* back to the task that was created: int32 narrowing with sign extension  *)
(* on the typed side, std::to_string with std::from_chars on the other.    *)
THEOREM UuidRoundTrip == CSpec => []HandleNamesTask
<1>1. CInv => HandleNamesTask
  <2> SUFFICES ASSUME CInv, stage = "execute", handle # NoHandle
               PROVE command.id = handle.task
    BY DEF HandleNamesTask
  <2>1. PICK query \in Queries : command = TaskCommand(CommandOf(query), handle.task)
    BY HandleDecoded
  <2> QED BY <2>1 DEF TaskCommand, Command
<1> QED BY <1>1, CInvHolds, PTL

(* The adapters use one response field for each alternative of the result. *)
LEMMA FieldsDistinct ==
  ASSUME NEW kind \in ReplyKinds
  PROVE /\ (CHOOSE k \in ReplyKinds : TypedCase[k] = TypedCase[kind]) = kind
        /\ (CHOOSE k \in ReplyKinds : RestKey[k] = RestKey[kind]) = kind
<1>1. \A k \in ReplyKinds : TypedCase[k] = TypedCase[kind] => k = kind
  BY DEF ReplyKinds, TypedCase
<1>2. \A k \in ReplyKinds : RestKey[k] = RestKey[kind] => k = kind
  BY DEF ReplyKinds, RestKey
<1> QED BY <1>1, <1>2

(* TypedControlProtocol::encode and RestControlProtocol::encode say the    *)
(* same about every ControlResult, unknown tasks included.                 *)
THEOREM AdaptersAgree == CSpec => []ProtocolsAgree
<1>1. CInv => ProtocolsAgree
  <2> SUFFICES ASSUME CInv, stage = "encode" PROVE ProtocolsAgree
    BY DEF ProtocolsAgree
  <2> DEFINE said == IF IsNotFound(result) THEN NotFoundError ELSE result
             typed == ReadTyped(TypedEncode(result))
             rest == ReadRest(RestEncode(result))
  <2>1. IsReply(result)
    BY DEF CInv, Answered
  <2>2. said.kind \in ReplyKinds /\ (said.kind = "error" <=> result.kind = "error" \/ IsNotFound(result))
    BY <2>1 DEF IsReply, NotFoundError, Error, Reply, ReplyKinds, IsNotFound
  <2>3. TypedEncode(result) = [case |-> TypedCase[said.kind], text |-> said.text,
                               job |-> said.job, num |-> ToInt32(said.num)]
    BY DEF TypedEncode
  <2>4. /\ RestEncode(result).key = RestKey[said.kind]
        /\ RestEncode(result).text = said.text /\ RestEncode(result).job = said.job
        /\ RestEncode(result).value[2] = said.num
    BY DEF RestEncode, UuidText, Number
  <2> HIDE DEF said
  <2>5. typed = [kind |-> said.kind, text |-> said.text, job |-> said.job,
                 num |-> ToInt32(said.num)]
    <3> DEFINE rsp == TypedEncode(result)
    <3>1. rsp.case = TypedCase[said.kind] /\ rsp.text = said.text /\ rsp.job = said.job
          /\ rsp.num = ToInt32(said.num)
      BY <2>3
    <3> HIDE DEF rsp
    <3>2. (CHOOSE k \in ReplyKinds : TypedCase[k] = rsp.case) = said.kind
      BY <2>2, <3>1, FieldsDistinct
    <3> QED BY <3>1, <3>2 DEF ReadTyped, rsp
  <2>6. rest = [kind |-> said.kind, text |-> said.text, job |-> said.job, num |-> said.num]
    <3> DEFINE rsp == RestEncode(result)
    <3> HIDE DEF rsp
    <3>1. (CHOOSE k \in ReplyKinds : RestKey[k] = rsp.key) = said.kind
      BY <2>2, <2>4, FieldsDistinct DEF rsp
    <3> QED BY <2>4, <3>1 DEF ReadRest, rsp
  <2> HIDE DEF typed, rest
  <2>7. [rest EXCEPT !.num = ToInt32(@)] = typed
    BY <2>5, <2>6
  <2>8. typed.kind = said.kind
    BY <2>5
  <2> QED BY <2>2, <2>7, <2>8 DEF ProtocolsAgree, typed, rest
<1> QED BY <1>1, CInvHolds, PTL

(* The process numbers so few tasks that their identifiers are less than   *)
(* the number of values of an int32.                                       *)
IdsBelowWire == \A n \in Incarnations, i \in Indices : TaskId(n, i) < WireMod

(* While identifiers stay below 2^32, a task whose identifier fits the     *)
(* int32 fields is found by the client it was told to, until its result is *)
(* fetched.                                                                *)
THEOREM StatusFound ==
  ASSUME IdsBelowWire
  PROVE CSpec => []FollowUpSucceeds
<1>1. CInv => FollowUpSucceeds
  <2> SUFFICES ASSUME CInv, stage = "encode", handle # NoHandle, command.cmd = "status",
                      handle.task < HalfWire, handle.task \notin taken
               PROVE ~ IsNotFound(result)
    BY DEF FollowUpSucceeds
  <2>1. PICK query \in Queries : command = TaskCommand(CommandOf(query), handle.task)
    BY HandleDecoded
  <2>2. command.id = handle.task
    BY <2>1 DEF TaskCommand, Command
  <2>3. PICK id \in DOMAIN jobAt : handle.task = ToUint64(ToInt32(id))
    BY HandleDecoded DEF ToldOf
  <2>4. id \in Nat /\ id < WireMod
    <3>1. PICK i \in Indices : id = TaskId(incarnation, i)
      BY <2>3 DEF CInv, Numbered
    <3>2. i \in Nat /\ incarnation \in Incarnations
      BY <3>1, ForwardAssumption DEF CInv, Numbered, Indices
    <3> QED BY <3>1, <3>2, IdTypes, IdsBelowWire DEF IdsBelowWire
  <2>5. handle.task = id
    BY <2>3, <2>4, SmallIdKept
  <2>6. id \in DOMAIN pending \cup DOMAIN completed
    BY <2>3, <2>5 DEF CInv, Stored
  <2>7. ToUint64(command.id) = id
    <3>1. handle.task \in Ids
      BY HandleDecoded, ToldKept DEF CInv
    <3>2. WordMod \in Nat /\ WordMod > 0 /\ id \in 0 .. WordMod - 1
      BY <2>5, <3>1, StoreAssumption DEF Ids
    <3>3. ((WordMod * 0) + id) % WordMod = id
      BY <3>2, ModUnique
    <3> QED BY <2>2, <2>5, <3>2, <3>3 DEF ToUint64
  <2>8. Status(ToUint64(command.id)) # "NotFound"
    BY <2>6, <2>7 DEF Status
  <2>9. result = Reply("status", Status(ToUint64(command.id)), NoJob, 0)
    BY DEF CInv, Answered
  <2> QED BY <2>8, <2>9 DEF IsNotFound, Reply
<1> QED BY <1>1, CInvHolds, PTL
-----------------------------------------------------------------------------
(* The routes of the REST interface *)

(* What split() leaves is made of the texts of the path. *)
LEMMA SplitParts ==
  ASSUME NEW T, NEW path \in Seq(T) PROVE SplitPath(path) \in Seq(T)
<1> DEFINE m == Len(path)
           full == {i \in DOMAIN path : path[i] # EmptyText}
           lo == Min(full)
           hi == Max(full)
<1>1. m \in Nat /\ full \in SUBSET (1 .. m) /\ \A n \in 1 .. m : path[n] \in T
  BY ElementOfSeq
<1>2. SplitPath(path) = IF full = {} THEN <<>> ELSE SubSeq(path, lo, hi)
  BY DEF SplitPath
<1> HIDE DEF full
<1>3. CASE full = {}
  BY <1>2, <1>3, EmptySeq
<1>4. CASE full # {}
  <2>1. lo \in full /\ hi \in full
    BY <1>1, <1>4, LeastAndGreatest
  <2> HIDE DEF lo, hi
  <2>2. lo \in Int /\ hi \in Int /\ \A n \in lo .. hi : path[n] \in T
    BY <1>1, <2>1
  <2>3. SubSeq(path, lo, hi) \in Seq(T)
    BY <2>2, SubSeqProperties
  <2> QED BY <1>2, <1>4, <2>3
<1> QED BY <1>3, <1>4

(* The command that a method and the parts of a path name. *)
RouteNames(method, p, cmd) ==
  \/ cmd = "create" /\ method = "POST" /\ p = <<Word("job")>>
  \/ cmd = "list" /\ method = "GET" /\ p = <<Word("resources")>>
  \/ cmd = "status" /\ method = "GET"
       /\ \E id \in Ids : p = <<Word("job"), Number(id), Word("status")>>
  \/ cmd = "result" /\ method = "GET"
       /\ \E id \in Ids : p = <<Word("job"), Number(id), Word("result")>>
  \/ cmd = "cancel" /\ method = "GET"
       /\ \E id \in Ids : p = <<Word("job"), Number(id), Word("cancel_reason")>>
  \/ cmd = "resource" /\ method = "GET"
       /\ \E name : name # EmptyText /\ p = <<Word("resources"), name>>
  \/ cmd = "pending" /\ method = "GET"
       /\ \E name : name # EmptyText
            /\ p = <<Word("resources"), name, Word("num_pending_jobs")>>

LEMMA WordsDiffer ==
  /\ Word("job") # EmptyText /\ Word("resources") # EmptyText /\ Word("status") # EmptyText
  /\ Word("result") # EmptyText /\ Word("cancel_reason") # EmptyText
  /\ Word("num_pending_jobs") # EmptyText /\ Word("job") # Word("resources")
  /\ \A n : Number(n) # EmptyText
BY DEF Word, Number, EmptyText

(* split() and the paths of the interface, which have up to three parts. *)
LEMMA ShortPaths ==
  ASSUME NEW texts, NEW path \in Seq(texts)
  PROVE /\ \A a : a # EmptyText => (Surrounds(path, <<a>>) <=> SplitPath(path) = <<a>>)
        /\ \A a, b : a # EmptyText /\ b # EmptyText =>
             (Surrounds(path, <<a, b>>) <=> SplitPath(path) = <<a, b>>)
        /\ \A a, b, c : a # EmptyText /\ c # EmptyText =>
             (Surrounds(path, <<a, b, c>>) <=> SplitPath(path) = <<a, b, c>>)
<1>1. ASSUME NEW a, a # EmptyText
      PROVE Surrounds(path, <<a>>) <=> SplitPath(path) = <<a>>
  <2> DEFINE core == <<a>>
             T == texts \cup {EmptyText, a}
  <2>1. core \in Seq(T) /\ Len(core) = 1 /\ core[1] = a
    OBVIOUS
  <2>2. path \in Seq(T) /\ EmptyText \in T
    OBVIOUS
  <2> HIDE DEF T, core
  <2>3. Len(core) > 0 /\ core[1] # EmptyText /\ core[Len(core)] # EmptyText
    BY <1>1, <2>1
  <2>4. Surrounds(path, core) <=> SplitPath(path) = core
    BY <2>1, <2>2, <2>3, Trim
  <2> QED BY <2>4 DEF core
<1>2. ASSUME NEW a, NEW b, a # EmptyText, b # EmptyText
      PROVE Surrounds(path, <<a, b>>) <=> SplitPath(path) = <<a, b>>
  <2> DEFINE core == <<a, b>>
             T == texts \cup {EmptyText, a, b}
  <2>1. core \in Seq(T) /\ Len(core) = 2 /\ core[1] = a /\ core[2] = b
    OBVIOUS
  <2>2. path \in Seq(T) /\ EmptyText \in T
    OBVIOUS
  <2> HIDE DEF T, core
  <2>3. Len(core) > 0 /\ core[1] # EmptyText /\ core[Len(core)] # EmptyText
    BY <1>2, <2>1
  <2>4. Surrounds(path, core) <=> SplitPath(path) = core
    BY <2>1, <2>2, <2>3, Trim
  <2> QED BY <2>4 DEF core
<1>3. ASSUME NEW a, NEW b, NEW c, a # EmptyText, c # EmptyText
      PROVE Surrounds(path, <<a, b, c>>) <=> SplitPath(path) = <<a, b, c>>
  <2> DEFINE core == <<a, b, c>>
             T == texts \cup {EmptyText, a, b, c}
  <2>1. core \in Seq(T) /\ Len(core) = 3 /\ core[1] = a /\ core[3] = c
    OBVIOUS
  <2>2. path \in Seq(T) /\ EmptyText \in T
    OBVIOUS
  <2> HIDE DEF T, core
  <2>3. Len(core) > 0 /\ core[1] # EmptyText /\ core[Len(core)] # EmptyText
    BY <1>3, <2>1
  <2>4. Surrounds(path, core) <=> SplitPath(path) = core
    BY <2>1, <2>2, <2>3, Trim
  <2> QED BY <2>4 DEF core
<1> QED BY <1>1, <1>2, <1>3

(* The routes whose path is found between slashes are the ones that the    *)
(* parts of the path name.                                                 *)
LEMMA RouteIsNamed ==
  ASSUME NEW texts, NEW path \in Seq(texts), NEW r \in Routes(texts), Surrounds(path, r[2])
  PROVE RouteNames(r[1], SplitPath(path), r[3])
<1> DEFINE p == SplitPath(path)
           ids == {id \in Ids : Number(id) \in texts}
           names == texts \ {EmptyText}
<1> HIDE DEF p
<1>1. CASE r = <<"POST", <<Word("job")>>, "create">>
  <2>1. r[1] = "POST" /\ r[2] = <<Word("job")>> /\ r[3] = "create"
    BY <1>1
  <2>2. p = <<Word("job")>>
    BY <2>1, ShortPaths, WordsDiffer DEF p
  <2> QED BY <2>1, <2>2 DEF RouteNames, p
<1>2. CASE r = <<"GET", <<Word("resources")>>, "list">>
  <2>1. r[1] = "GET" /\ r[2] = <<Word("resources")>> /\ r[3] = "list"
    BY <1>2
  <2>2. p = <<Word("resources")>>
    BY <2>1, ShortPaths, WordsDiffer DEF p
  <2> QED BY <2>1, <2>2 DEF RouteNames, p
<1>3. CASE \E id \in ids : r = <<"GET", <<Word("job"), Number(id), Word("status")>>, "status">>
  <2>1. PICK id \in ids : r = <<"GET", <<Word("job"), Number(id), Word("status")>>, "status">>
    BY <1>3
  <2>2. r[1] = "GET" /\ r[2] = <<Word("job"), Number(id), Word("status")>> /\ r[3] = "status"
    BY <2>1
  <2>3. p = <<Word("job"), Number(id), Word("status")>>
    BY <2>1, <2>2, ShortPaths, WordsDiffer DEF p
  <2> QED BY <2>1, <2>2, <2>3 DEF RouteNames, p
<1>4. CASE \E id \in ids : r = <<"GET", <<Word("job"), Number(id), Word("result")>>, "result">>
  <2>1. PICK id \in ids : r = <<"GET", <<Word("job"), Number(id), Word("result")>>, "result">>
    BY <1>4
  <2>2. r[1] = "GET" /\ r[2] = <<Word("job"), Number(id), Word("result")>> /\ r[3] = "result"
    BY <2>1
  <2>3. p = <<Word("job"), Number(id), Word("result")>>
    BY <2>1, <2>2, ShortPaths, WordsDiffer DEF p
  <2> QED BY <2>1, <2>2, <2>3 DEF RouteNames, p
<1>5. CASE \E id \in ids : r = <<"GET", <<Word("job"), Number(id), Word("cancel_reason")>>, "cancel">>
  <2>1. PICK id \in ids : r = <<"GET", <<Word("job"), Number(id), Word("cancel_reason")>>, "cancel">>
    BY <1>5
  <2>2. r[1] = "GET" /\ r[2] = <<Word("job"), Number(id), Word("cancel_reason")>> /\ r[3] = "cancel"
    BY <2>1
  <2>3. p = <<Word("job"), Number(id), Word("cancel_reason")>>
    BY <2>1, <2>2, ShortPaths, WordsDiffer DEF p
  <2> QED BY <2>1, <2>2, <2>3 DEF RouteNames, p
<1>6. CASE \E name \in names : r = <<"GET", <<Word("resources"), name>>, "resource">>
  <2>1. PICK name \in names : r = <<"GET", <<Word("resources"), name>>, "resource">>
    BY <1>6
  <2>2. r[1] = "GET" /\ r[2] = <<Word("resources"), name>> /\ r[3] = "resource"
    BY <2>1
  <2>3. p = <<Word("resources"), name>>
    BY <2>1, <2>2, ShortPaths, WordsDiffer DEF p
  <2> QED BY <2>1, <2>2, <2>3 DEF RouteNames, p
<1>7. CASE \E name \in names : r = <<"GET", <<Word("resources"), name, Word("num_pending_jobs")>>, "pending">>
  <2>1. PICK name \in names : r = <<"GET", <<Word("resources"), name, Word("num_pending_jobs")>>, "pending">>
    BY <1>7
  <2>2. r[1] = "GET" /\ r[2] = <<Word("resources"), name, Word("num_pending_jobs")>> /\ r[3] = "pending"
    BY <2>1
  <2>3. p = <<Word("resources"), name, Word("num_pending_jobs")>>
    BY <2>1, <2>2, ShortPaths, WordsDiffer DEF p
  <2> QED BY <2>1, <2>2, <2>3 DEF RouteNames, p
<1> QED BY <1>1, <1>2, <1>3, <1>4, <1>5, <1>6, <1>7 DEF Routes

LEMMA NamedIsRoute ==
  ASSUME NEW texts, NEW path \in Seq(texts), NEW method, NEW cmd,
         RouteNames(method, SplitPath(path), cmd)
  PROVE \E r \in Routes(texts) : r[1] = method /\ Surrounds(path, r[2]) /\ r[3] = cmd
<1> DEFINE p == SplitPath(path)
           ids == {id \in Ids : Number(id) \in texts}
           names == texts \ {EmptyText}
<1>p. \A i \in 1 .. Len(p) : p[i] \in texts
  BY SplitParts, ElementOfSeq
<1> HIDE DEF p
<1>1. CASE cmd = "create" /\ method = "POST" /\ p = <<Word("job")>>
  <2> DEFINE r == <<"POST", <<Word("job")>>, "create">>
  <2>1. r \in Routes(texts)
    BY DEF Routes
  <2>2. r[1] = "POST" /\ r[2] = <<Word("job")>> /\ r[3] = "create"
    OBVIOUS
  <2> HIDE DEF r
  <2>3. Surrounds(path, r[2])
    BY <1>1, <2>2, ShortPaths, WordsDiffer DEF p
  <2> QED BY <1>1, <2>1, <2>2, <2>3
<1>2. CASE cmd = "list" /\ method = "GET" /\ p = <<Word("resources")>>
  <2> DEFINE r == <<"GET", <<Word("resources")>>, "list">>
  <2>1. r \in Routes(texts)
    BY DEF Routes
  <2>2. r[1] = "GET" /\ r[2] = <<Word("resources")>> /\ r[3] = "list"
    OBVIOUS
  <2> HIDE DEF r
  <2>3. Surrounds(path, r[2])
    BY <1>2, <2>2, ShortPaths, WordsDiffer DEF p
  <2> QED BY <1>2, <2>1, <2>2, <2>3
<1>3. CASE cmd = "status" /\ method = "GET"
             /\ \E id \in Ids : p = <<Word("job"), Number(id), Word("status")>>
  <2>1. PICK id \in Ids : p = <<Word("job"), Number(id), Word("status")>>
    BY <1>3
  <2>2. id \in ids
    <3>1. Len(p) = 3 /\ p[2] = Number(id)
      BY <2>1
    <3>2. Number(id) \in texts
      BY <1>p, <3>1
    <3> QED BY <2>1, <3>2
  <2> DEFINE r == <<"GET", <<Word("job"), Number(id), Word("status")>>, "status">>
  <2>3. r \in Routes(texts)
    BY <2>2 DEF Routes
  <2>4. r[1] = "GET" /\ r[2] = <<Word("job"), Number(id), Word("status")>> /\ r[3] = "status"
    OBVIOUS
  <2> HIDE DEF r
  <2>5. Surrounds(path, r[2])
    BY <2>1, <2>4, ShortPaths, WordsDiffer DEF p
  <2> QED BY <1>3, <2>3, <2>4, <2>5
<1>4. CASE cmd = "result" /\ method = "GET"
             /\ \E id \in Ids : p = <<Word("job"), Number(id), Word("result")>>
  <2>1. PICK id \in Ids : p = <<Word("job"), Number(id), Word("result")>>
    BY <1>4
  <2>2. id \in ids
    <3>1. Len(p) = 3 /\ p[2] = Number(id)
      BY <2>1
    <3>2. Number(id) \in texts
      BY <1>p, <3>1
    <3> QED BY <2>1, <3>2
  <2> DEFINE r == <<"GET", <<Word("job"), Number(id), Word("result")>>, "result">>
  <2>3. r \in Routes(texts)
    BY <2>2 DEF Routes
  <2>4. r[1] = "GET" /\ r[2] = <<Word("job"), Number(id), Word("result")>> /\ r[3] = "result"
    OBVIOUS
  <2> HIDE DEF r
  <2>5. Surrounds(path, r[2])
    BY <2>1, <2>4, ShortPaths, WordsDiffer DEF p
  <2> QED BY <1>4, <2>3, <2>4, <2>5
<1>5. CASE cmd = "cancel" /\ method = "GET"
             /\ \E id \in Ids : p = <<Word("job"), Number(id), Word("cancel_reason")>>
  <2>1. PICK id \in Ids : p = <<Word("job"), Number(id), Word("cancel_reason")>>
    BY <1>5
  <2>2. id \in ids
    <3>1. Len(p) = 3 /\ p[2] = Number(id)
      BY <2>1
    <3>2. Number(id) \in texts
      BY <1>p, <3>1
    <3> QED BY <2>1, <3>2
  <2> DEFINE r == <<"GET", <<Word("job"), Number(id), Word("cancel_reason")>>, "cancel">>
  <2>3. r \in Routes(texts)
    BY <2>2 DEF Routes
  <2>4. r[1] = "GET" /\ r[2] = <<Word("job"), Number(id), Word("cancel_reason")>> /\ r[3] = "cancel"
    OBVIOUS
  <2> HIDE DEF r
  <2>5. Surrounds(path, r[2])
    BY <2>1, <2>4, ShortPaths, WordsDiffer DEF p
  <2> QED BY <1>5, <2>3, <2>4, <2>5
<1>6. CASE cmd = "resource" /\ method = "GET"
             /\ \E name : name # EmptyText /\ p = <<Word("resources"), name>>
  <2>1. PICK name : name # EmptyText /\ p = <<Word("resources"), name>>
    BY <1>6
  <2>2. name \in names
    <3>1. Len(p) = 2 /\ p[2] = name
      BY <2>1
    <3>2. name \in texts
      BY <1>p, <3>1
    <3> QED BY <2>1, <3>2
  <2> DEFINE r == <<"GET", <<Word("resources"), name>>, "resource">>
  <2>3. r \in Routes(texts)
    BY <2>2 DEF Routes
  <2>4. r[1] = "GET" /\ r[2] = <<Word("resources"), name>> /\ r[3] = "resource"
    OBVIOUS
  <2> HIDE DEF r
  <2>5. Surrounds(path, r[2])
    BY <2>1, <2>4, ShortPaths, WordsDiffer DEF p
  <2> QED BY <1>6, <2>3, <2>4, <2>5
<1>7. CASE cmd = "pending" /\ method = "GET"
             /\ \E name : name # EmptyText /\ p = <<Word("resources"), name, Word("num_pending_jobs")>>
  <2>1. PICK name : name # EmptyText /\ p = <<Word("resources"), name, Word("num_pending_jobs")>>
    BY <1>7
  <2>2. name \in names
    <3>1. Len(p) = 3 /\ p[2] = name
      BY <2>1
    <3>2. name \in texts
      BY <1>p, <3>1
    <3> QED BY <2>1, <3>2
  <2> DEFINE r == <<"GET", <<Word("resources"), name, Word("num_pending_jobs")>>, "pending">>
  <2>3. r \in Routes(texts)
    BY <2>2 DEF Routes
  <2>4. r[1] = "GET" /\ r[2] = <<Word("resources"), name, Word("num_pending_jobs")>> /\ r[3] = "pending"
    OBVIOUS
  <2> HIDE DEF r
  <2>5. Surrounds(path, r[2])
    BY <2>1, <2>4, ShortPaths, WordsDiffer DEF p
  <2> QED BY <1>7, <2>3, <2>4, <2>5
<1> QED BY <1>1, <1>2, <1>3, <1>4, <1>5, <1>6, <1>7 DEF RouteNames, p

LEMMA InvalidCmd == \A message : Invalid(message).cmd = "invalid"
BY DEF Invalid, Command

(* RestControlProtocol::decode, by the parts of the path. *)
LEMMA RestDecodeNamed ==
  ASSUME NEW req, NEW cmd, RouteNames(req.method, SplitPath(req.path), cmd)
  PROVE /\ RestDecode(req).cmd = IF cmd = "create" /\ ~ValidData(req.data) THEN "invalid" ELSE cmd
        /\ cmd # "invalid"
<1> DEFINE p == SplitPath(req.path)
<1> HIDE DEF p
<1>1. CASE cmd = "create" /\ req.method = "POST" /\ p = <<Word("job")>>
  <2>1. RestDecode(req) = CreateTaskCommand(req)
    BY <1>1 DEF RestDecode, p
  <2>2. CASE ValidData(req.data)
    <3>1. RestDecode(req) = TaskCommand("create", 0)
      BY <1>1, <2>1, <2>2 DEF CreateTaskCommand
    <3> QED BY <1>1, <2>2, <3>1 DEF TaskCommand, Command
  <2>3. CASE ~ ValidData(req.data)
    <3>1. RestDecode(req) = Invalid("INVALID JOB REQUEST")
      BY <1>1, <2>1, <2>3 DEF CreateTaskCommand
    <3>2. RestDecode(req).cmd = "invalid"
      BY <3>1, InvalidCmd
    <3>3. cmd = "create" /\ cmd # "invalid"
      BY <1>1
    <3> QED BY <2>3, <3>2, <3>3, Zenon
  <2> QED BY <2>2, <2>3
<1>2. CASE cmd = "list" /\ req.method = "GET" /\ p = <<Word("resources")>>
  <2>1. Len(p) = 1 /\ p[1] = Word("resources") /\ p # <<Word("job")>>
    <3>1. Len(p) = 1 /\ p[1] = Word("resources") /\ <<Word("job")>>[1] = Word("job")
      BY <1>2
    <3> QED BY <3>1, WordsDiffer
  <2>2. RestDecode(req) = ResourcesCommand(p)
    BY <1>2, <2>1, WordsDiffer DEF RestDecode, p
  <2>3. ResourcesCommand(p) = ResourceCommand("list", EmptyText)
    BY <2>1 DEF ResourcesCommand
  <2> QED BY <1>2, <2>2, <2>3 DEF ResourceCommand, Command
<1>3. ASSUME NEW id \in Ids, NEW last, p = <<Word("job"), Number(id), last>>, req.method = "GET"
      PROVE /\ RestDecode(req) = JobCommand(p) /\ ParsesAsTaskId(p[2]) /\ p[3] = last
  <2>1. Len(p) = 3 /\ p[1] = Word("job") /\ p[2] = Number(id) /\ p[3] = last
    BY <1>3
  <2>2. p # <<Word("job")>>
    <3>1. Len(<<Word("job")>>) = 1
      OBVIOUS
    <3> QED BY <2>1, <3>1
  <2>3. RestDecode(req) = JobCommand(p)
    BY <1>3, <2>1, <2>2, WordsDiffer DEF RestDecode, p
  <2>4. ParsesAsTaskId(p[2])
    BY <2>1 DEF ParsesAsTaskId, Number
  <2> QED BY <2>1, <2>3, <2>4
<1>4. Word("status") # Word("result") /\ Word("status") # Word("cancel_reason")
      /\ Word("result") # Word("cancel_reason")
  BY DEF Word
<1>5. CASE cmd = "status" /\ req.method = "GET"
             /\ \E id \in Ids : p = <<Word("job"), Number(id), Word("status")>>
  <2>1. RestDecode(req) = JobCommand(p) /\ ParsesAsTaskId(p[2]) /\ p[3] = Word("status")
    BY <1>3, <1>5
  <2> QED BY <1>4, <1>5, <2>1 DEF JobCommand, TaskCommand, Command
<1>6. CASE cmd = "result" /\ req.method = "GET"
             /\ \E id \in Ids : p = <<Word("job"), Number(id), Word("result")>>
  <2>1. RestDecode(req) = JobCommand(p) /\ ParsesAsTaskId(p[2]) /\ p[3] = Word("result")
    BY <1>3, <1>6
  <2> QED BY <1>4, <1>6, <2>1 DEF JobCommand, TaskCommand, Command
<1>7. CASE cmd = "cancel" /\ req.method = "GET"
             /\ \E id \in Ids : p = <<Word("job"), Number(id), Word("cancel_reason")>>
  <2>1. RestDecode(req) = JobCommand(p) /\ ParsesAsTaskId(p[2]) /\ p[3] = Word("cancel_reason")
    BY <1>3, <1>7
  <2> QED BY <1>4, <1>7, <2>1 DEF JobCommand, TaskCommand, Command
<1>8. CASE cmd = "resource" /\ req.method = "GET"
             /\ \E name : name # EmptyText /\ p = <<Word("resources"), name>>
  <2>1. Len(p) = 2 /\ p[1] = Word("resources") /\ p[2] # EmptyText
    BY <1>8
  <2>2. p # <<Word("job")>>
    <3>1. Len(<<Word("job")>>) = 1
      OBVIOUS
    <3> QED BY <2>1, <3>1
  <2>3. RestDecode(req) = ResourcesCommand(p)
    BY <1>8, <2>1, <2>2 DEF RestDecode, p
  <2>4. ResourcesCommand(p) = ResourceCommand("resource", p[2])
    BY <2>1 DEF ResourcesCommand
  <2> QED BY <1>8, <2>3, <2>4 DEF ResourceCommand, Command
<1>9. CASE cmd = "pending" /\ req.method = "GET"
             /\ \E name : name # EmptyText
                  /\ p = <<Word("resources"), name, Word("num_pending_jobs")>>
  <2>1. Len(p) = 3 /\ p[1] = Word("resources") /\ p[2] # EmptyText
        /\ p[3] = Word("num_pending_jobs")
    BY <1>9
  <2>2. p # <<Word("job")>>
    <3>1. Len(<<Word("job")>>) = 1
      OBVIOUS
    <3> QED BY <2>1, <3>1
  <2>3. RestDecode(req) = ResourcesCommand(p)
    BY <1>9, <2>1, <2>2, WordsDiffer DEF RestDecode, p
  <2>4. ResourcesCommand(p) = ResourceCommand("pending", p[2])
    BY <2>1 DEF ResourcesCommand
  <2> QED BY <1>9, <2>3, <2>4 DEF ResourceCommand, Command
<1> QED BY <1>1, <1>2, <1>5, <1>6, <1>7, <1>8, <1>9 DEF RouteNames, p

(* What is not a route is not a command. *)
LEMMA RestDecodeUnnamed ==
  ASSUME NEW req, NEW texts, req.path \in Seq(texts), \A text \in texts : IsText(text),
         \A cmd : ~ RouteNames(req.method, SplitPath(req.path), cmd)
  PROVE RestDecode(req).cmd = "invalid"
<1> DEFINE p == SplitPath(req.path)
<1>1. p \in Seq(texts) /\ \A i \in 1 .. Len(p) : p[i] \in texts
  BY SplitParts, ElementOfSeq
<1>2. /\ Len(p) = 1 => p = <<p[1]>>
      /\ Len(p) = 2 => p = <<p[1], p[2]>>
      /\ Len(p) = 3 => p = <<p[1], p[2], p[3]>>
  <2> HIDE DEF p
  <2> QED BY <1>1
<1> HIDE DEF p
<1>3. CASE p = <<Word("job")>>
  <2>1. req.method # "POST"
    BY <1>3 DEF RouteNames, p
  <2>2. RestDecode(req) = Invalid("INVALID METHOD")
    <3>1. RestDecode(req) = CreateTaskCommand(req)
      <4>1. Len(p) = 1 /\ p[1] = Word("job")
        BY <1>3
      <4>2. Len(p) # 3 /\ p[1] # Word("resources")
        BY <4>1, WordsDiffer
      <4> QED BY <1>3, <4>2 DEF RestDecode, p
    <3> QED BY <2>1, <3>1 DEF CreateTaskCommand
  <2> QED BY <2>2, InvalidCmd
<1>4. CASE p # <<Word("job")>> /\ req.method # "GET"
  <2>1. RestDecode(req) = Invalid("INVALID METHOD")
    BY <1>4 DEF RestDecode, p
  <2> QED BY <2>1, InvalidCmd
<1>5. CASE p # <<Word("job")>> /\ req.method = "GET" /\ Len(p) = 3 /\ p[1] = Word("job")
  <2>1. RestDecode(req) = JobCommand(p)
    BY <1>5, WordsDiffer DEF RestDecode, p
  <2>2. CASE ~ ParsesAsTaskId(p[2])
    BY <2>1, <2>2, InvalidCmd DEF JobCommand
  <2>3. CASE ParsesAsTaskId(p[2])
    <3> DEFINE id == p[2][2]
    <3>1. id \in Ids /\ p[2] = Number(id)
      <4>1. IsText(p[2])
        BY <1>1, <1>5
      <4> QED BY <2>3, <4>1 DEF ParsesAsTaskId, IsText, Number
    <3> HIDE DEF id
    <3>2. p = <<Word("job"), Number(id), p[3]>>
      BY <1>2, <1>5, <3>1
    <3>3. p[3] # Word("status")
      <4>1. ~ RouteNames(req.method, p, "status")
        BY DEF p
      <4> QED BY <1>5, <3>1, <3>2, <4>1 DEF RouteNames
    <3>4. p[3] # Word("result")
      <4>1. ~ RouteNames(req.method, p, "result")
        BY DEF p
      <4> QED BY <1>5, <3>1, <3>2, <4>1 DEF RouteNames
    <3>5. p[3] # Word("cancel_reason")
      <4>1. ~ RouteNames(req.method, p, "cancel")
        BY DEF p
      <4> QED BY <1>5, <3>1, <3>2, <4>1 DEF RouteNames
    <3> QED BY <2>1, <2>3, <3>3, <3>4, <3>5, InvalidCmd DEF JobCommand
  <2> QED BY <2>2, <2>3
<1>6. CASE p # <<Word("job")>> /\ req.method = "GET" /\ Len(p) > 0 /\ p[1] = Word("resources")
  <2>1. RestDecode(req) = ResourcesCommand(p)
    BY <1>6, WordsDiffer DEF RestDecode, p
  <2>2. Len(p) # 1
    <3>1. ~ RouteNames(req.method, p, "list")
      BY DEF p
    <3> QED BY <1>2, <1>6, <3>1 DEF RouteNames
  <2>3. ~ (Len(p) = 2 /\ p[2] # EmptyText)
    <3>1. ~ RouteNames(req.method, p, "resource")
      BY DEF p
    <3> QED BY <1>2, <1>6, <3>1 DEF RouteNames
  <2>4. ~ (Len(p) = 3 /\ p[2] # EmptyText /\ p[3] = Word("num_pending_jobs"))
    <3>1. ~ RouteNames(req.method, p, "pending")
      BY DEF p
    <3> QED BY <1>2, <1>6, <3>1 DEF RouteNames
  <2> QED BY <2>1, <2>2, <2>3, <2>4, InvalidCmd DEF ResourcesCommand
<1>7. CASE /\ p # <<Word("job")>> /\ req.method = "GET"
           /\ ~ (Len(p) = 3 /\ p[1] = Word("job")) /\ ~ (Len(p) > 0 /\ p[1] = Word("resources"))
  <2>1. RestDecode(req) = Invalid("UNKNOWN CONTROL REQUEST")
    BY <1>7 DEF RestDecode, p
  <2> QED BY <2>1, InvalidCmd
<1> QED BY <1>3, <1>4, <1>5, <1>6, <1>7

TextsOf(req) == {req.path[i] : i \in DOMAIN req.path}
NamedBy(req) ==
  {route[3] : route \in {r \in Routes(TextsOf(req)) :
                           r[1] = req.method /\ Surrounds(req.path, r[2])}}
WellFormed(req) == req.path \in Seq(TextsOf(req)) /\ \A text \in TextsOf(req) : IsText(text)

(* The nested conditions of RestControlProtocol::decode implement the      *)
(* table of routes.                                                        *)
LEMMA RestMatches ==
  ASSUME NEW req, WellFormed(req)
  PROVE {RestDecode(req).cmd} =
          IF NamedBy(req) = {} \/ (NamedBy(req) = {"create"} /\ ~ValidData(req.data))
          THEN {"invalid"} ELSE NamedBy(req)
<1> DEFINE texts == TextsOf(req)
           named == NamedBy(req)
           got == RestDecode(req).cmd
           p == SplitPath(req.path)
<1>1. req.path \in Seq(texts) /\ \A text \in texts : IsText(text)
  BY DEF WellFormed
<1>2. \A cmd : cmd \in named <=> \E r \in Routes(texts) :
                 r[1] = req.method /\ Surrounds(req.path, r[2]) /\ r[3] = cmd
  BY DEF NamedBy
<1> HIDE DEF texts, named, got, p
<1>3. ASSUME NEW cmd PROVE cmd \in named <=> RouteNames(req.method, p, cmd)
  <2>1. ASSUME cmd \in named PROVE RouteNames(req.method, p, cmd)
    <3>1. PICK r \in Routes(texts) : r[1] = req.method /\ Surrounds(req.path, r[2]) /\ r[3] = cmd
      BY <1>2, <2>1
    <3>2. RouteNames(r[1], p, r[3])
      BY <1>1, <3>1, RouteIsNamed DEF p
    <3> QED BY <3>1, <3>2
  <2>2. ASSUME RouteNames(req.method, p, cmd) PROVE cmd \in named
    <3>1. \E r \in Routes(texts) : r[1] = req.method /\ Surrounds(req.path, r[2]) /\ r[3] = cmd
      BY <1>1, <2>2, NamedIsRoute DEF p
    <3> QED BY <1>2, <3>1
  <2> QED BY <2>1, <2>2
<1>4. CASE named = {}
  <2>1. \A cmd : ~ RouteNames(req.method, p, cmd)
    BY <1>3, <1>4
  <2>2. got = "invalid"
    BY <1>1, <2>1, RestDecodeUnnamed DEF got, p
  <2> QED BY <1>4, <2>2 DEF named, got
<1>5. CASE named # {}
  <2>1. ASSUME NEW cmd \in named
        PROVE /\ got = IF cmd = "create" /\ ~ValidData(req.data) THEN "invalid" ELSE cmd
              /\ cmd # "invalid"
    BY <1>3, RestDecodeNamed DEF got, p
  <2>2. PICK cmd : cmd \in named
    BY <1>5
  <2>3. CASE ValidData(req.data)
    <3>1. \A x \in named : x = got
      BY <2>1, <2>3
    <3>2. named = {got}
      BY <2>2, <3>1
    <3> QED BY <1>5, <2>3, <3>2 DEF named, got
  <2>4. CASE ~ ValidData(req.data) /\ "create" \in named
    <3>1. got = "invalid"
      BY <2>1, <2>4
    <3>2. \A x \in named : x = "create"
      BY <2>1, <2>4, <3>1
    <3>3. named = {"create"}
      BY <2>4, <3>2
    <3> QED BY <2>4, <3>1, <3>3 DEF named, got
  <2>5. CASE ~ ValidData(req.data) /\ "create" \notin named
    <3>1. \A x \in named : x = got
      BY <2>1, <2>5
    <3>2. named = {got} /\ named # {"create"}
      BY <2>2, <2>5, <3>1
    <3> QED BY <1>5, <3>2 DEF named, got
  <2> QED BY <2>3, <2>4, <2>5
<1> QED BY <1>4, <1>5

(* A typed request is one of the operations. *)
LEMMA TypedMatches ==
  ASSUME NEW req \in TypedRequests PROVE IsTyped(req) /\ TypedDecode(req).cmd # "invalid"
<1>1. req.case \in {"create_task", "list_resources", "task_status", "task_result",
                    "cancel_reason", "resource_info", "pending_tasks"}
  BY DEF TypedRequests
<1>2. IsTyped(req)
  BY <1>1 DEF IsTyped
<1>3. \/ \E c \in {"create", "status", "result", "cancel"} : \E n : TypedDecode(req) = TaskCommand(c, n)
      \/ \E c \in {"list", "resource", "pending"} : \E t : TypedDecode(req) = ResourceCommand(c, t)
  <2>1. CASE req.case = "create_task"
    <3>1. TypedDecode(req) = TaskCommand("create", 0)
      BY <2>1 DEF TypedDecode
    <3> QED BY <3>1
  <2>2. CASE req.case = "task_status"
    <3>1. TypedDecode(req) = TaskCommand("status", ToUint64(req.uuid))
      BY <2>2 DEF TypedDecode
    <3> QED BY <3>1
  <2>3. CASE req.case = "task_result"
    <3>1. TypedDecode(req) = TaskCommand("result", ToUint64(req.uuid))
      BY <2>3 DEF TypedDecode
    <3> QED BY <3>1
  <2>4. CASE req.case = "cancel_reason"
    <3>1. TypedDecode(req) = TaskCommand("cancel", ToUint64(req.uuid))
      BY <2>4 DEF TypedDecode
    <3> QED BY <3>1
  <2>5. CASE req.case = "list_resources"
    <3>1. TypedDecode(req) = ResourceCommand("list", EmptyText)
      BY <2>5 DEF TypedDecode
    <3> QED BY <3>1
  <2>6. CASE req.case \in {"resource_info", "pending_tasks"}
    <3>1. \/ TypedDecode(req) = ResourceCommand("resource", req.resource)
          \/ TypedDecode(req) = ResourceCommand("pending", req.resource)
      BY <2>6 DEF TypedDecode
    <3> QED BY <3>1
  <2> QED BY <1>1, <2>1, <2>2, <2>3, <2>4, <2>5, <2>6
<1>4. \A c \in {"create", "status", "result", "cancel"} : \A n : TaskCommand(c, n).cmd = c
  BY DEF TaskCommand, Command
<1>5. \A c \in {"list", "resource", "pending"} : \A t : ResourceCommand(c, t).cmd = c
  BY DEF ResourceCommand, Command
<1>6. TypedDecode(req).cmd \in {"create", "status", "result", "cancel", "list", "resource", "pending"}
  BY <1>3, <1>4, <1>5
<1> QED BY <1>2, <1>6

(* The path of a follow-up is a sequence of texts. *)
LEMMA FollowUpWellFormed ==
  ASSUME NEW h, NEW query \in Queries, h.typed = FALSE, NEW n, h.uuid = Number(n)
  PROVE ~ IsTyped(FollowUp(h, query)) /\ WellFormed(FollowUp(h, query))
<1> DEFINE req == FollowUp(h, query)
           last == Word(CASE query = "task_status" -> "status"
                          [] query = "task_result" -> "result"
                          [] query = "cancel_reason" -> "cancel_reason")
           job == Word("job")
           path == <<EmptyText, job, h.uuid, last>>
<1>1. /\ req.case = "not_set" /\ req.path = path
  <2>1. req = [case |-> "not_set", method |-> "GET", data |-> [key \in DataKeys |-> "absent"],
               path |-> path]
    BY DEF FollowUp
  <2> HIDE DEF path, req
  <2> QED BY <2>1
<1>2. IsText(EmptyText) /\ IsText(job) /\ IsText(h.uuid) /\ IsText(last)
  <2>1. \A w : IsText(Word(w)) /\ IsText(Number(w))
    BY DEF IsText, Word, Number
  <2> QED BY <2>1 DEF EmptyText
<1> HIDE DEF last, job, req
<1>3. /\ path \in Seq({EmptyText, job, h.uuid, last}) /\ Len(path) = 4
      /\ path[1] = EmptyText /\ path[2] = job /\ path[3] = h.uuid /\ path[4] = last
  OBVIOUS
<1> HIDE DEF path
<1>4. DOMAIN path = 1 .. 4
  BY <1>3
<1>5. TextsOf(req) = {EmptyText, job, h.uuid, last}
  <2>1. DOMAIN path = {1, 2, 3, 4}
    BY <1>4
  <2>2. {path[i] : i \in {1, 2, 3, 4}} = {path[1], path[2], path[3], path[4]}
    OBVIOUS
  <2> QED BY <1>1, <1>3, <2>1, <2>2 DEF TextsOf
<1> QED BY <1>1, <1>2, <1>3, <1>5 DEF WellFormed, IsTyped, req

(* Both decoders accept exactly the operations of the control interface,   *)
(* for every sequence of texts as the path of a REST request.              *)
THEOREM DecodersComplete == CSpec => []DecodeMatchesRoutes
<1>1. CInv => DecodeMatchesRoutes
  <2> SUFFICES ASSUME CInv, stage = "execute" PROVE DecodeMatchesRoutes
    BY DEF DecodeMatchesRoutes
  <2>1. command = Decoded(request)
    BY DEF CInv, Understood
  <2>2. \/ IsTyped(request) /\ command.cmd # "invalid"
        \/ ~ IsTyped(request) /\ WellFormed(request)
    <3>1. CASE request \in TypedRequests
      BY <2>1, <3>1, TypedMatches DEF Decoded
    <3>2. CASE request \in RestRequests
      BY <3>2, ProtocolAssumption DEF IsTyped, WellFormed, TextsOf
    <3>3. CASE handle \in told /\ \E query \in Queries : request = FollowUp(handle, query)
      <4>1. PICK query \in Queries : request = FollowUp(handle, query)
        BY <3>3
      <4>2. ToldOf(handle) /\ Numbered
        BY <3>3 DEF CInv, Told
      <4>3. CASE handle.typed
        <5>1. request.case = query
          BY <4>1, <4>3 DEF FollowUp
        <5>2. IsTyped(request)
          BY <5>1 DEF IsTyped, Queries
        <5>3. command = TaskCommand(CommandOf(query), handle.task)
          BY <2>1, <4>1, <4>2, ToldKept, FollowUpDecoded DEF ToldOf
        <5>4. CommandOf(query) \in {"status", "result", "cancel"}
          BY DEF CommandOf, Queries
        <5>5. command.cmd = CommandOf(query)
          BY <5>3 DEF TaskCommand, Command
        <5> QED BY <5>2, <5>4, <5>5
      <4>4. CASE handle.typed = FALSE
        BY <4>1, <4>2, <4>4, FollowUpWellFormed DEF ToldOf
      <4> QED BY <4>2, <4>3, <4>4 DEF ToldOf
    <3> QED BY <3>1, <3>2, <3>3 DEF CInv, Asked
  <2>3. CASE IsTyped(request) /\ command.cmd # "invalid"
    BY <2>3 DEF DecodeMatchesRoutes
  <2>4. CASE ~ IsTyped(request) /\ WellFormed(request)
    <3>1. command = RestDecode(request)
      BY <2>1, <2>4 DEF Decoded
    <3>2. {RestDecode(request).cmd} =
            IF NamedBy(request) = {} \/ (NamedBy(request) = {"create"} /\ ~ValidData(request.data))
            THEN {"invalid"} ELSE NamedBy(request)
      BY <2>4, RestMatches
    <3> QED BY <2>4, <3>1, <3>2 DEF DecodeMatchesRoutes, NamedBy, TextsOf
  <2> QED BY <2>2, <2>3, <2>4
<1> QED BY <1>1, CInvHolds, PTL
=============================================================================
