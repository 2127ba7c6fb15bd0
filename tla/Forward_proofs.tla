--------------------------- MODULE Forward_proofs ---------------------------
(***************************************************************************)
(* Proofs about the task identifiers of Forward, for identifiers of any    *)
(* width: what the conversions between std::uint64_t and the int32 fields  *)
(* of the messages keep, and when the identifiers of all processes are     *)
(* distinct and survive these conversions (IdsCorrelate).                  *)
(***************************************************************************)
EXTENDS Forward, TLAPS

Indices == 0 .. MaxTasks - 1

(* No two tasks get the same identifier, and converting an identifier to   *)
(* the 32-bit field and back yields it again.                              *)
IdsDistinct ==
  \A m, n \in Incarnations, i, k \in Indices : TaskId(m, i) = TaskId(n, k) => m = n /\ i = k
IdsSurvive ==
  \A n \in Incarnations, i \in Indices : ToUint64(ToInt32(TaskId(n, i))) = TaskId(n, i)
IdsCorrelate == IdsDistinct /\ IdsSurvive
-----------------------------------------------------------------------------
(* Arithmetic of the identifiers. *)

(* Half of the wire's values are negative. *)
LEMMA Half == WireMod \in Nat /\ HalfWire \in Nat /\ HalfWire > 0 /\ WireMod = 2 * HalfWire
BY ForwardAssumption DEF HalfWire

(* A remainder lies between 0 and the divisor. *)
LEMMA ModRange == \A n \in Int, d \in Nat : d > 0 => n % d \in 0 .. d - 1
OBVIOUS

(* Every conversion yields a value of its width. *)
LEMMA IdTypes ==
  /\ \A n \in Int : ToInt32(n) \in WireIds
  /\ \A n \in Int : ToUint64(n) \in Ids
  /\ \A n \in Incarnations, i \in Nat : TaskId(n, i) \in Ids
  /\ WireIds \subseteq Int /\ Ids \subseteq Nat /\ 0 \in Ids
<1>1. \A n \in Int : ToInt32(n) \in WireIds
  <2> TAKE n \in Int
  <2> DEFINE m == n % WireMod
  <2>1. m \in 0 .. WireMod - 1
    BY ModRange, Half
  <2>2. ToInt32(n) = IF m < HalfWire THEN m ELSE m - WireMod
    BY DEF ToInt32
  <2> HIDE DEF m
  <2> QED BY <2>1, <2>2, Half DEF WireIds
<1>2. \A n \in Int : n % WordMod \in Ids
  BY ModRange, StoreAssumption DEF Ids
<1>3. \A n \in Incarnations, i \in Nat : i * Stride + InstanceUid[n] \in Int
  BY ForwardAssumption
<1>4. WireIds \subseteq Int /\ Ids \subseteq Nat /\ 0 \in Ids
  BY Half, StoreAssumption DEF WireIds, Ids
<1> QED BY <1>1, <1>2, <1>3, <1>4 DEF ToUint64, TaskId
-----------------------------------------------------------------------------
(* Conversions there and back. *)

(* Division with remainder. *)
LEMMA DivMod ==
  \A n \in Int, d \in Nat : d > 0 => n \div d \in Int /\ n = (d * (n \div d)) + (n % d)
OBVIOUS

(* The remainder is the only number below the divisor that fits. *)
LEMMA ModUnique ==
  ASSUME NEW d \in Nat, d > 0, NEW a \in Int, NEW r \in 0 .. d - 1
  PROVE ((d * a) + r) % d = r
<1> DEFINE n == (d * a) + r
           q == n \div d
           s == n % d
<1>1. n \in Int /\ q \in Int /\ s \in 0 .. d - 1 /\ n = (d * q) + s
  BY DivMod, ModRange
<1>2. (d * a) - (d * q) = d * (a - q) /\ d * a \in Int /\ d * q \in Int
  BY <1>1
<1>3. d * (a - q) = s - r
  <2> HIDE DEF q, s
  <2> QED BY <1>1, <1>2
<1>4. a - q = 0
  <2> HIDE DEF q, s, n
  <2>1. a - q \in Int /\ d * (a - q) < d /\ d * (a - q) > -d
    BY <1>1, <1>3
  <2>2. \A k \in Int : k # 0 => d * k >= d \/ d * k <= -d
    OBVIOUS
  <2> QED BY <2>1, <2>2
<1> HIDE DEF q, s, n
<1>5. d * (a - q) = 0
  BY <1>1, <1>4
<1>6. s = r
  BY <1>1, <1>3, <1>5
<1> QED BY <1>6 DEF n, s

(* The wider type has at least as many values. *)
LEMMA WordHoldsWire == WordMod \in Nat /\ WordMod >= WireMod
<1>1. /\ WordMod \in Nat /\ WordMod > 0 /\ WordMod % WireMod = 0
      /\ WordMod \div WireMod \in Int /\ WordMod = WireMod * (WordMod \div WireMod)
  BY StoreAssumption, ForwardAssumption, DivMod
<1> DEFINE q == WordMod \div WireMod
<1> HIDE DEF q
<1>2. q \in Int /\ WordMod = WireMod * q
  BY <1>1 DEF q
<1>3. \A k \in Int : k <= 0 => WireMod * k <= 0
  BY Half
<1>4. \A k \in Int : k >= 1 => WireMod * k >= WireMod
  BY Half
<1> QED BY <1>1, <1>2, <1>3, <1>4

(* An identifier below the number of values of an int32 that comes back    *)
(* from it without its sign bit comes back unchanged.                      *)
LEMMA SmallIdKept ==
  ASSUME NEW id \in Nat, id < WireMod, ToUint64(ToInt32(id)) < HalfWire
  PROVE ToUint64(ToInt32(id)) = id
<1>1. /\ WireMod \in Nat /\ HalfWire \in Nat /\ HalfWire > 0 /\ WireMod = 2 * HalfWire
      /\ WordMod \in Nat /\ WordMod >= WireMod
  BY Half, WordHoldsWire
<1>2. id % WireMod = id
  <2>1. id \in 0 .. WireMod - 1 /\ WireMod > 0
    BY <1>1
  <2>2. ((WireMod * 0) + id) % WireMod = id
    BY <1>1, <2>1, ModUnique
  <2> QED BY <1>1, <2>2
<1>3. CASE id < HalfWire
  <2>1. ToInt32(id) = id
    BY <1>2, <1>3 DEF ToInt32
  <2>2. ((WordMod * 0) + id) % WordMod = id
    <3>1. id \in 0 .. WordMod - 1 /\ WordMod > 0
      BY <1>1, <1>3
    <3> QED BY <1>1, <3>1, ModUnique
  <2>3. id % WordMod = id
    BY <1>1, <2>2
  <2> QED BY <2>1, <2>3 DEF ToUint64
<1>4. CASE id >= HalfWire
  <2> DEFINE w == id - WireMod
             r == w + WordMod
  <2>1. ToInt32(id) = w
    BY <1>1, <1>2, <1>4 DEF ToInt32
  <2>2. w \in Int /\ r \in 0 .. WordMod - 1 /\ WordMod > 0 /\ r >= HalfWire
        /\ (WordMod * (-1)) + r = w
    BY <1>1, <1>4
  <2> HIDE DEF w, r
  <2>3. ((WordMod * (-1)) + r) % WordMod = r
    BY <1>1, <2>2, ModUnique
  <2>4. ToUint64(ToInt32(id)) = r
    BY <2>1, <2>2, <2>3 DEF ToUint64
  <2>5. ~ (r < HalfWire)
    BY <1>1, <2>2
  <2> QED BY <2>4, <2>5
<1> QED BY <1>1, <1>3, <1>4

(* A client's 32-bit id survives the way into the store and back. *)
LEMMA ClientIdKept == \A w \in WireIds : ToInt32(ToUint64(w)) = w
<1> SUFFICES ASSUME NEW w \in WireIds PROVE ToInt32(ToUint64(w)) = w
  OBVIOUS
<1> DEFINE q == WordMod \div WireMod
           e == (-1) * (w \div WordMod)
           u == w % WordMod
           m == IF w < 0 THEN w + WireMod ELSE w
<1>1. /\ w \in Int /\ -HalfWire <= w /\ w < HalfWire
      /\ WordMod \in Nat /\ WordMod > 0 /\ WordMod % WireMod = 0
  BY Half, StoreAssumption, ForwardAssumption DEF WireIds
<1>2. q \in Int /\ WordMod = WireMod * q
  BY <1>1, Half, DivMod
<1>3. e \in Int /\ u \in Int /\ u = w + (WordMod * e)
  <2>1. w \div WordMod \in Int /\ w = (WordMod * (w \div WordMod)) + (w % WordMod)
        /\ w % WordMod \in Int
    BY <1>1, DivMod
  <2>2. \A x \in Int : WordMod * ((-1) * x) = (-1) * (WordMod * x)
    BY <1>1
  <2>3. WordMod * (w \div WordMod) \in Int /\ WordMod * e = (-1) * (WordMod * (w \div WordMod))
    BY <1>1, <2>1, <2>2
  <2>4. \A x, y, z \in Int : x = y + z => z = x + ((-1) * y)
    OBVIOUS
  <2> QED BY <2>1, <2>3, <2>4
<1> HIDE DEF q, e, u
<1>4. PICK k \in Int : u = (WireMod * k) + m
  <2>1. WordMod * e = WireMod * (q * e) /\ q * e \in Int
    BY <1>2, <1>3, Half
  <2>2. CASE w >= 0
    BY <2>1, <2>2, <1>1, <1>3
  <2>3. CASE w < 0
    <3>1. WireMod * ((q * e) - 1) = (WireMod * (q * e)) - WireMod
      BY <2>1, Half
    <3> QED BY <2>1, <2>3, <3>1, <1>1, <1>3, Half
  <2> QED BY <2>2, <2>3, <1>1
<1>5. m \in 0 .. WireMod - 1
  BY <1>1, Half
<1>6. u % WireMod = m
  <2> HIDE DEF m
  <2> QED BY <1>4, <1>5, Half, ModUnique
<1>7. IF m < HalfWire THEN w = m ELSE w = m - WireMod
  BY <1>1, Half
<1>8. ToUint64(w) = u /\ ToInt32(u) = (IF m < HalfWire THEN m ELSE m - WireMod)
  BY <1>6 DEF ToUint64, ToInt32, u
<1> HIDE DEF m
<1> QED BY <1>1, <1>5, <1>7, <1>8, Half
-----------------------------------------------------------------------------
(* nextTaskId(): every process has its own instance uid, below the stride, *)
(* and numbers so few tasks that the identifiers fit into an int32.        *)
UidsInRange ==
  /\ \A n \in Incarnations : InstanceUid[n] < Stride
  /\ \A m, n \in Incarnations : InstanceUid[m] = InstanceUid[n] => m = n
  /\ MaxTasks * Stride <= HalfWire

(* Under these bounds no identifier is used twice and none is changed by   *)
(* the 32-bit fields of the messages: the condition of the other theorems. *)
THEOREM IdsFromRange == UidsInRange => IdsCorrelate
<1> SUFFICES ASSUME UidsInRange PROVE IdsDistinct /\ IdsSurvive
  BY DEF IdsCorrelate
<1>1. Stride \in Nat /\ Stride > 0 /\ MaxTasks \in Nat
  BY ForwardAssumption
<1>2. HalfWire \in Nat /\ HalfWire < WordMod /\ HalfWire < WireMod /\ WordMod \in Nat
      /\ WireMod \in Nat
  BY WordHoldsWire, Half
<1>3. ASSUME NEW n \in Incarnations, NEW i \in Indices
      PROVE /\ InstanceUid[n] \in 0 .. Stride - 1 /\ i \in Nat
            /\ TaskId(n, i) = (Stride * i) + InstanceUid[n]
            /\ TaskId(n, i) \in 0 .. HalfWire - 1
  <2>1. InstanceUid[n] \in 0 .. Stride - 1 /\ InstanceUid[n] \in Nat
    BY <1>1, ForwardAssumption DEF UidsInRange
  <2>2. i \in Nat /\ i + 1 <= MaxTasks
    BY <1>1 DEF Indices
  <2> DEFINE t == (Stride * i) + InstanceUid[n]
  <2>3. (Stride * i) + Stride <= Stride * MaxTasks /\ Stride * i \in Nat
        /\ Stride * MaxTasks = MaxTasks * Stride /\ i * Stride = Stride * i
    <3>1. \A x, y \in Nat : x + 1 <= y => (Stride * x) + Stride <= Stride * y
      BY <1>1
    <3> QED BY <1>1, <2>2, <3>1
  <2>4. MaxTasks * Stride <= HalfWire /\ MaxTasks * Stride \in Nat
    BY <1>1 DEF UidsInRange
  <2>5. t \in 0 .. HalfWire - 1
    BY <1>1, <1>2, <2>1, <2>3, <2>4
  <2>6. t \in 0 .. WordMod - 1
    <3> HIDE DEF t
    <3> QED BY <1>2, <2>5
  <2>7. t % WordMod = t
    <3> HIDE DEF t
    <3>1. ((WordMod * 0) + t) % WordMod = t
      BY <2>6, <1>2, ModUnique
    <3> QED BY <3>1, <2>6, <1>2
  <2>8. TaskId(n, i) = t % WordMod
    BY <2>3 DEF TaskId
  <2> QED BY <2>1, <2>2, <2>5, <2>7, <2>8
<1>4. IdsDistinct
  <2> SUFFICES ASSUME NEW m \in Incarnations, NEW n \in Incarnations,
                      NEW i \in Indices, NEW k \in Indices, TaskId(m, i) = TaskId(n, k)
               PROVE m = n /\ i = k
    BY DEF IdsDistinct
  <2>1. /\ InstanceUid[m] \in 0 .. Stride - 1 /\ InstanceUid[n] \in 0 .. Stride - 1
        /\ i \in Int /\ k \in Int
        /\ (Stride * i) + InstanceUid[m] = (Stride * k) + InstanceUid[n]
    BY <1>3
  <2>2. InstanceUid[m] = InstanceUid[n]
    <3>1. ((Stride * i) + InstanceUid[m]) % Stride = InstanceUid[m]
      BY <1>1, <2>1, ModUnique
    <3>2. ((Stride * k) + InstanceUid[n]) % Stride = InstanceUid[n]
      BY <1>1, <2>1, ModUnique
    <3> QED BY <2>1, <3>1, <3>2
  <2>3. Stride * i = Stride * k
    <3>1. Stride * i \in Int /\ Stride * k \in Int /\ InstanceUid[n] \in Int
      BY <1>1, <2>1
    <3> QED BY <2>1, <2>2, <3>1
  <2>4. \A x, y \in Int : Stride * x = Stride * y => x = y
    <3>1. \A x, y \in Int : (Stride * x) - (Stride * y) = Stride * (x - y)
      BY <1>1
    <3>2. \A z \in Int : Stride * z = 0 => z = 0
      BY <1>1
    <3> QED BY <1>1, <3>1, <3>2
  <2> QED BY <2>1, <2>2, <2>3, <2>4 DEF UidsInRange
<1>5. IdsSurvive
  <2> SUFFICES ASSUME NEW n \in Incarnations, NEW i \in Indices
               PROVE ToUint64(ToInt32(TaskId(n, i))) = TaskId(n, i)
    BY DEF IdsSurvive
  <2> DEFINE t == TaskId(n, i)
  <2>1. t \in 0 .. HalfWire - 1
    BY <1>3
  <2> HIDE DEF t
  <2>2. t % WireMod = t
    <3>1. t \in 0 .. WireMod - 1 /\ WireMod > 0
      BY <1>2, <2>1
    <3>2. ((WireMod * 0) + t) % WireMod = t
      BY <3>1, <1>2, ModUnique
    <3> QED BY <3>1, <3>2, <1>2
  <2>3. ToInt32(t) = t
    BY <1>2, <2>1, <2>2 DEF ToInt32
  <2>4. t % WordMod = t
    <3>1. t \in 0 .. WordMod - 1 /\ WordMod > 0
      BY <1>2, <2>1
    <3>2. ((WordMod * 0) + t) % WordMod = t
      BY <3>1, <1>2, ModUnique
    <3> QED BY <3>1, <3>2, <1>2
  <2> QED BY <2>3, <2>4 DEF ToUint64, t
<1> QED BY <1>4, <1>5
=============================================================================
