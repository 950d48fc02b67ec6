----------------------------- MODULE KVStoreProofs -----------------------------
(***************************************************************************)
(* The key space keeps its promises for any keys, any values and an array of     *)
(* any length.  IInv adds to the invariants the runs check nothing but the way    *)
(* they depend on each other: one object for a key needs the objects to be in     *)
(* the slots already given, and a value that holds needs one object for a key.    *)
(***************************************************************************)
EXTENDS MCKVStore, SequenceTheorems, WellFoundedInduction, TLAPS

IInv == TypeOK /\ OneObjectPerKey /\ HoldsWhatMadeIt

(* The two action properties, of one step.                                     *)
RefusalStep == reply'.status # "RES_OK" => UNCHANGED <<data, data_idx, linked, created>>

ForGoodStep ==
  /\ \A i \in linked \cap linked' : data'[i] = data[i]
  /\ \A i \in linked' \ linked : i >= data_idx

-----------------------------------------------------------------------------
(* A command that changes no object keeps the invariant.                          *)
LEMMA UntouchedInv ==
  ASSUME IInv, UNCHANGED <<data, data_idx, linked, created>>,
         process' \in {"up", "dead"},
         NEW status \in Status, NEW val \in Value \cup {NoValue}, Answer(status, val)
  PROVE  IInv' /\ RefusalStep /\ ForGoodStep
<1>1. reply' \in [status : Status, val : Value \cup {NoValue}]
  BY DEF Answer
<1>2. TypeOK'
  BY <1>1 DEF IInv, TypeOK
<1>3. OneObjectPerKey' /\ HoldsWhatMadeIt'
  BY DEF IInv, OneObjectPerKey, HoldsWhatMadeIt, HasType, Found
<1>4. RefusalStep /\ ForGoodStep
  BY DEF IInv, TypeOK, RefusalStep, ForGoodStep
<1> QED
  BY <1>2, <1>3, <1>4 DEF IInv

(* The object of an emplace_kvobj: a string with its value, or a set with none.       *)
Makes(type, v) ==
  \/ type = "STRING" /\ v \in Value
  \/ type = "TSET" /\ v = NoValue

(* A command that makes an object for a key that had none keeps the invariant, whether      *)
(* there is a slot left or not.                                                  *)
LEMMA EmplaceInv ==
  ASSUME IInv, NEW k \in Key, NEW type, NEW v, Makes(type, v),
         NEW val \in Value \cup {NoValue},
         Found(k) = {}, emplace_kvobj(k, type, v), Answer("RES_OK", val)
  PROVE  IInv' /\ RefusalStep /\ ForGoodStep
<1> DEFINE obj == [key |-> k, type |-> type, val |-> v]
<1>1. CASE ~ data_idx < PoolSize
  BY <1>1, UntouchedInv DEF emplace_kvobj, Status
<1>2. CASE data_idx < PoolSize
  <2>1. /\ data' = [data EXCEPT ![data_idx] = obj]
        /\ data_idx' = data_idx + 1
        /\ linked' = linked \cup {data_idx}
        /\ created' = [created EXCEPT ![k] = v]
        /\ process' \in {"up", "dead"}
    BY <1>2 DEF emplace_kvobj
  <2>2. /\ data_idx \in Slot /\ data_idx \in Nat
        /\ data \in [Slot -> KVObj \cup {NoValue}]
        /\ linked \subseteq Slot /\ data_idx \notin linked
        /\ created \in [Key -> Value \cup {NoValue}]
    BY <1>2, PoolAssumption DEF IInv, TypeOK, Slot
  <2>3. obj \in KVObj /\ obj # NoValue
    BY PoolAssumption DEF KVObj, Makes
  <2>4. TypeOK'
    <3>1. reply' \in [status : Status, val : Value \cup {NoValue}]
      BY DEF Answer, Status
    <3>2. data_idx' \in 0 .. PoolSize /\ linked' \subseteq 0 .. (data_idx' - 1)
      BY <2>1, <2>2, <1>2, PoolAssumption DEF IInv, TypeOK
    <3>3. data' \in [Slot -> KVObj \cup {NoValue}]
      BY <2>1, <2>2, <2>3
    <3>4. \A i \in Slot : i < data_idx' <=> data'[i] # NoValue
      BY <2>1, <2>2, <2>3, PoolAssumption DEF IInv, TypeOK, Slot
    <3>5. created' \in [Key -> Value \cup {NoValue}]
      BY <2>1, <2>2 DEF Makes
    <3> QED
      BY <2>1, <3>1, <3>2, <3>3, <3>4, <3>5 DEF TypeOK
  <2>5. /\ data'[data_idx] = obj
        /\ \A i \in linked : data'[i] = data[i]
    BY <2>1, <2>2
  <2>6. \A i \in linked : data[i].key # k
    BY DEF Found
  <2>7. OneObjectPerKey'
    BY <2>1, <2>5, <2>6 DEF IInv, OneObjectPerKey
  <2>8. HoldsWhatMadeIt'
    <3> SUFFICES ASSUME NEW j \in Key
                 PROVE  (IF HasType(j, "STRING")
                         THEN \A i \in Found(j) : data[i].val = created[j] /\ created[j] # NoValue
                         ELSE created[j] = NoValue)'
      BY DEF HoldsWhatMadeIt
    <3>1. CASE j = k
      <4>1. Found(j)' = {data_idx}
        BY <3>1, <2>1, <2>5, <2>6 DEF Found
      <4>2. created'[j] = v /\ data'[data_idx].val = v /\ data'[data_idx].type = type
        BY <3>1, <2>1, <2>2, <2>5
      <4> QED
        BY <4>1, <4>2, PoolAssumption DEF HasType, Makes
    <3>2. CASE j # k
      <4>1. Found(j)' = Found(j) /\ \A i \in Found(j) : data'[i] = data[i]
        BY <3>2, <2>1, <2>5 DEF Found
      <4>2. created'[j] = created[j]
        BY <3>2, <2>1, <2>2
      <4> QED
        BY <4>1, <4>2 DEF IInv, HoldsWhatMadeIt, HasType
    <3> QED
      BY <3>1, <3>2
  <2>9. RefusalStep /\ ForGoodStep
    BY <2>1, <2>2, <2>5 DEF Answer, RefusalStep, ForGoodStep
  <2> QED
    BY <2>4, <2>7, <2>8, <2>9 DEF IInv
<1> QED
  BY <1>1, <1>2

(* del_val unlinks the one object of the key, and what is left holds.                     *)
LEMMA DelInv ==
  ASSUME IInv, process = "up", NEW k \in Key, NEW i \in Found(k),
         linked' = linked \ {i},
         Answer("RES_OK", data[i].val),
         created' = [created EXCEPT ![k] = NoValue],
         UNCHANGED <<data, data_idx, process>>
  PROVE  IInv' /\ RefusalStep /\ ForGoodStep
<1>1. i \in linked /\ data[i].key = k
  BY DEF Found
<1>2. data[i] \in KVObj
  BY <1>1, PoolAssumption DEF IInv, TypeOK, Slot
<1>3. TypeOK'
  <2>1. reply' \in [status : Status, val : Value \cup {NoValue}]
    BY <1>2 DEF Answer, KVObj, Status
  <2>2. created' \in [Key -> Value \cup {NoValue}]
    BY DEF IInv, TypeOK
  <2> QED
    BY <2>1, <2>2 DEF IInv, TypeOK
<1>4. OneObjectPerKey'
  BY DEF IInv, OneObjectPerKey
<1>5. HoldsWhatMadeIt'
  <2> SUFFICES ASSUME NEW j \in Key
               PROVE  (IF HasType(j, "STRING")
                       THEN \A n \in Found(j) : data[n].val = created[j] /\ created[j] # NoValue
                       ELSE created[j] = NoValue)'
    BY DEF HoldsWhatMadeIt
  <2>1. created'[j] = IF j = k THEN NoValue ELSE created[j]
    BY DEF IInv, TypeOK
  <2>2. CASE j = k
    <3>1. Found(j)' = {}
      BY <2>2, <1>1 DEF IInv, OneObjectPerKey, Found
    <3> QED
      BY <3>1, <2>1, <2>2 DEF HasType
  <2>3. CASE j # k
    <3>1. Found(j)' = Found(j)
      BY <2>3, <1>1 DEF Found
    <3> QED
      BY <3>1, <2>1, <2>3 DEF IInv, HoldsWhatMadeIt, HasType
  <2> QED
    BY <2>2, <2>3
<1>6. RefusalStep /\ ForGoodStep
  BY DEF Answer, RefusalStep, ForGoodStep
<1> QED
  BY <1>3, <1>4, <1>5, <1>6 DEF IInv

-----------------------------------------------------------------------------
LEMMA InitInv == Init => IInv
  BY PoolAssumption
     DEF Init, IInv, TypeOK, Slot, Status, OneObjectPerKey, HoldsWhatMadeIt, HasType, Found

(* Every command keeps the invariant and is a step of both action properties.              *)
LEMMA StepInv ==
  ASSUME IInv, Next
  PROVE  IInv' /\ RefusalStep /\ ForGoodStep
<1>0. process = "up" /\ do_request
  BY DEF Next
<1>1. "up" \in {"up", "dead"} /\ NoValue \in Value \cup {NoValue}
  OBVIOUS
<1>2. ASSUME NEW k \in Key, Missing(k)
      PROVE  IInv' /\ RefusalStep /\ ForGoodStep
  BY <1>0, <1>2, UntouchedInv DEF Missing, Untouched, Status
<1>3. ASSUME NEW k \in Key, get_val(k)
      PROVE  IInv' /\ RefusalStep /\ ForGoodStep
  <2>1. CASE Missing(k)
    BY <2>1, <1>2
  <2>2. ASSUME NEW i \in Found(k),
               Answer("RES_OK", IF data[i].type = "STRING" THEN data[i].val ELSE NoValue),
               Untouched
        PROVE  IInv' /\ RefusalStep /\ ForGoodStep
    <3>1. data[i] \in KVObj
      BY PoolAssumption DEF IInv, TypeOK, Slot, Found
    <3>2. (IF data[i].type = "STRING" THEN data[i].val ELSE NoValue) \in Value \cup {NoValue}
      BY <3>1 DEF KVObj
    <3> QED
      BY <1>0, <2>2, <3>2, UntouchedInv DEF Untouched, Status
  <2> QED
    BY <1>3, <2>1, <2>2 DEF get_val
<1>4. ASSUME NEW k \in Key, NEW v \in Value, set_val(k, v)
      PROVE  IInv' /\ RefusalStep /\ ForGoodStep
  <2>1. CASE Found(k) = {} /\ emplace_kvobj(k, "STRING", v) /\ Answer("RES_OK", v)
    BY <2>1, EmplaceInv DEF Makes
  <2>2. CASE HasType(k, "TSET") /\ Answer("RES_ERR", NoValue) /\ Untouched
    BY <1>0, <2>2, UntouchedInv DEF Untouched, Status
  <2>3. CASE /\ \E any \in Value \cup {NoValue} : Answer("RES_OK", any)
             /\ process' \in {"up", "dead"}
             /\ UNCHANGED <<data, data_idx, linked, created>>
    BY <2>3, UntouchedInv DEF Status
  <2> QED
    BY <1>4, <2>1, <2>2, <2>3 DEF set_val
<1>5. ASSUME NEW k \in Key, del_val(k)
      PROVE  IInv' /\ RefusalStep /\ ForGoodStep
  BY <1>0, <1>2, <1>5, DelInv DEF del_val
<1>6. ASSUME NEW k \in Key, do_add_tset(k)
      PROVE  IInv' /\ RefusalStep /\ ForGoodStep
  <2>1. CASE Found(k) = {} /\ emplace_kvobj(k, "TSET", NoValue) /\ Answer("RES_OK", NoValue)
    BY <2>1, EmplaceInv DEF Makes
  <2>2. CASE HasType(k, "STRING") /\ Answer("RES_ERR", NoValue) /\ Untouched
    BY <1>0, <2>2, UntouchedInv DEF Untouched, Status
  <2>3. CASE /\ Answer("RES_OK", NoValue)
             /\ process' \in {"up", "dead"}
             /\ UNCHANGED <<data, data_idx, linked, created>>
    BY <2>3, UntouchedInv DEF Status
  <2> QED
    BY <1>6, <2>1, <2>2, <2>3 DEF do_add_tset
<1>7. ASSUME NEW k \in Key, do_range_tset(k)
      PROVE  IInv' /\ RefusalStep /\ ForGoodStep
  <2>1. CASE HasType(k, "STRING") /\ Answer("RES_ERR", NoValue) /\ Untouched
    BY <1>0, <2>1, UntouchedInv DEF Untouched, Status
  <2>2. ASSUME NEW status \in {"RES_OK", "RES_ERR"}, Answer(status, NoValue),
               process' \in {"up", "dead"},
               UNCHANGED <<data, data_idx, linked, created>>
        PROVE  IInv' /\ RefusalStep /\ ForGoodStep
    BY <2>2, UntouchedInv DEF Status
  <2> QED
    BY <1>2, <1>7, <2>1, <2>2 DEF do_range_tset
<1>8. CASE Unknown
  BY <1>0, <1>8, UntouchedInv DEF Unknown, Untouched, Status
<1>9. CASE LookupDies
  BY <1>9 DEF LookupDies, IInv, TypeOK, OneObjectPerKey, HoldsWhatMadeIt, HasType, Found,
              RefusalStep, ForGoodStep
<1> QED
  BY <1>0, <1>3, <1>4, <1>5, <1>6, <1>7, <1>8, <1>9 DEF do_request

(* A step that changes nothing.                                                    *)
LEMMA StutterInv ==
  ASSUME IInv, UNCHANGED vars
  PROVE  IInv'
  BY DEF vars, IInv, TypeOK, OneObjectPerKey, HoldsWhatMadeIt, HasType, Found

THEOREM Invariance == Spec => []IInv
<1>1. IInv /\ [Next]_vars => IInv'
  BY StepInv, StutterInv
<1> QED
  BY InitInv, <1>1, PTL DEF Spec

(* db.data is filled from its start, and the key space holds only what was made.       *)
THEOREM TypeCorrect == Spec => []TypeOK
<1>1. IInv => TypeOK
  BY DEF IInv
<1> QED
  BY Invariance, <1>1, PTL

(* A key leads to one object at most, so that a del of it is final.                    *)
THEOREM OneObjectPerKeyHolds == Spec => []OneObjectPerKey
<1>1. IInv => OneObjectPerKey
  BY DEF IInv
<1> QED
  BY Invariance, <1>1, PTL

(* A string key holds the value it was made with.                                  *)
THEOREM HoldsWhatMadeItHolds == Spec => []HoldsWhatMadeIt
<1>1. IInv => HoldsWhatMadeIt
  BY DEF IInv
<1> QED
  BY Invariance, <1>1, PTL

(* A refused command changes no object.                                            *)
THEOREM RefusalsChangeNothingHolds == Spec => RefusalsChangeNothing
<1>1. IInv /\ [Next]_vars
        => [reply'.status # "RES_OK" => UNCHANGED <<data, data_idx, linked, created>>]_vars
  BY StepInv DEF RefusalStep
<1> QED
  BY Invariance, <1>1, PTL DEF Spec, RefusalsChangeNothing

(* Objects do not come back and do not change.                                       *)
THEOREM ObjectsAreForGoodHolds == Spec => ObjectsAreForGood
<1>1. IInv /\ [Next]_vars
        => [/\ \A i \in linked \cap linked' : data'[i] = data[i]
            /\ \A i \in linked' \ linked : i >= data_idx]_vars
  BY StepInv DEF ForGoodStep
<1> QED
  BY Invariance, <1>1, PTL DEF Spec, ObjectsAreForGood

-----------------------------------------------------------------------------
(* What parse_req and try_request make of bytes, for any base, width of a length and    *)
(* limits: parse_req inverts send_req, and a stream of requests is served in order      *)
(* wherever it is cut.                                                           *)

(* The bytes s are in buf from `at' on.                                                 *)
Holds(buf, at, s) ==
  /\ at + Len(s) <= Len(buf)
  /\ \A i \in 1 .. Len(s) : buf[at + i] = s[i]

(* f is what a loop of n turns computes from a: turn i makes g[i][x] of x.                *)
Loop(f, n, T, a, g) ==
  f \in [0 .. n -> T] /\ f[0] = a /\ \A i \in 1 .. n : f[i] = g[i][f[i - 1]]

-----------------------------------------------------------------------------
(* Numbers.                                                                  *)

(* A set of numbers that is not empty has a least one.                                   *)
LEMMA LeastOf ==
  ASSUME NEW S, S \subseteq Nat, S # {}
  PROVE  \E m \in S : \A i \in S : m <= i
<1> DEFINE R == OpToRel(<, Nat)
<1>1. IsWellFoundedOn(R, Nat)
  BY NatLessThanWellFounded
<1>2. PICK m \in S : \A i \in S : ~ (<<i, m>> \in R)
  BY <1>1, WFMin
<1>3. \A i \in S : i \in Nat /\ m \in Nat /\ ~ (i < m)
  BY <1>2 DEF OpToRel
<1> QED
  BY <1>3

(* A loop of n turns has its states: every turn's is made of the one before.              *)
LEMMA LoopExists ==
  ASSUME NEW n \in Nat, NEW T, NEW a \in T, NEW g,
         \A i \in 1 .. n : \A x \in T : g[i][x] \in T
  PROVE  \E f : Loop(f, n, T, a, g)
<1> USE DEF Loop
<1> DEFINE Has(m, f) == Loop(f, m, T, a, g)
           Bad == {m \in 0 .. n : ~ \E f : Has(m, f)}
<1>1. SUFFICES ASSUME Bad # {}
               PROVE  FALSE
  <2>1. n \in 0 .. n
    OBVIOUS
  <2>2. ASSUME Bad = {}
        PROVE  \E f : Has(n, f)
    BY <2>1, <2>2
  <2> QED
    BY <2>2
<1>2. PICK m \in Bad : \A i \in Bad : m <= i
  <2>1. Bad \subseteq Nat
    OBVIOUS
  <2> HIDE DEF Bad
  <2> QED
    BY <1>1, <2>1, LeastOf
<1>3. m \in 0 .. n /\ ~ \E f : Has(m, f)
  BY <1>2
<1>4. m # 0
  <2> DEFINE h == [i \in 0 .. 0 |-> a]
  <2>1. Has(0, h)
    OBVIOUS
  <2> HIDE DEF h, Has
  <2> QED
    BY <1>3, <2>1
<1>5. m \in 1 .. n /\ m - 1 \in 0 .. n
  BY <1>3, <1>4
<1>6. PICK f : Has(m - 1, f)
  <2>1. m - 1 \notin Bad
    <3> HIDE DEF Bad
    <3> QED
      BY <1>2, <1>5
  <2> HIDE DEF Has
  <2> QED
    BY <1>5, <2>1
<1> DEFINE h == [i \in 0 .. m |-> IF i = m THEN g[m][f[m - 1]] ELSE f[i]]
<1>7. f[m - 1] \in T /\ g[m][f[m - 1]] \in T
  BY <1>5, <1>6
<1>8. h \in [0 .. m -> T]
  <2>1. ASSUME NEW i \in 0 .. m
        PROVE  (IF i = m THEN g[m][f[m - 1]] ELSE f[i]) \in T
    <3>1. CASE i = m
      BY <1>7, <3>1
    <3>2. CASE i # m
      <4>1. i \in 0 .. (m - 1)
        BY <1>5, <3>2
      <4> QED
        BY <1>6, <3>2, <4>1
    <3> QED
      BY <3>1, <3>2
  <2> QED
    BY <2>1
<1>9. h[0] = a
  BY <1>5, <1>6
<1>10. ASSUME NEW i \in 1 .. m
       PROVE  h[i] = g[i][h[i - 1]]
  <2>1. h[i - 1] = f[i - 1]
    BY <1>5
  <2>2. CASE i = m
    BY <1>5, <2>1, <2>2
  <2>3. CASE i # m
    <3>1. i \in 1 .. (m - 1) /\ h[i] = f[i]
      BY <1>5, <2>3
    <3> QED
      BY <1>6, <2>1, <3>1
  <2> QED
    BY <2>2, <2>3
<1>11. Has(m, h)
  BY <1>8, <1>9, <1>10
<1> HIDE DEF h, Has
<1> QED
  BY <1>3, <1>11

(* Division by P, undone.                                                          *)
LEMMA Division ==
  ASSUME NEW n \in Nat, NEW P \in Nat \ {0}
  PROVE  /\ n \div P \in Nat /\ n % P \in Nat /\ n % P < P
         /\ n = (n \div P) * P + (n % P)
OBVIOUS

(* Quotient and remainder are the only ones.                                            *)
LEMMA OneQuotient ==
  ASSUME NEW P \in Nat \ {0}, NEW q1 \in Nat, NEW r1 \in Nat, NEW q2 \in Nat, NEW r2 \in Nat,
         r1 < P, r2 < P, q1 * P + r1 = q2 * P + r2
  PROVE  q1 = q2 /\ r1 = r2
<1>1. ASSUME NEW a \in Nat, NEW b \in Nat, NEW r \in Nat, NEW s \in Nat,
             r < P, s < P, a * P + r = b * P + s, a < b
      PROVE  FALSE
  <2>1. PICK d \in Nat : b = a + 1 + d
    <3>1. b - a - 1 \in Nat /\ b = a + 1 + (b - a - 1)
      BY <1>1
    <3> QED
      BY <3>1
  <2>2. b * P = a * P + P + d * P
    BY <2>1
  <2>3. d * P \in Nat /\ a * P \in Nat
    OBVIOUS
  <2> QED
    BY <1>1, <2>2, <2>3
<1>2. q1 = q2
  BY <1>1
<1> QED
  BY <1>2

(* A product of a sum and a product.                                                   *)
LEMMA Distributes ==
  ASSUME NEW B \in Nat, NEW P \in Nat, NEW c \in Nat, NEW d \in Nat
  PROVE  (c * B + d) * P = c * (B * P) + d * P
OBVIOUS

(* One more digit.                                                                 *)
LEMMA NextDigit ==
  ASSUME NEW n \in Nat, NEW P \in Nat \ {0}, NEW B \in Nat \ {0}
  PROVE  /\ B * P \in Nat \ {0}
         /\ (n % P) + ((n \div P) % B) * P = n % (B * P)
<1>1. PICK q \in Nat, r \in Nat : q = n \div P /\ r = n % P /\ r < P /\ n = q * P + r
  BY Division
<1>2. PICK c \in Nat, d \in Nat : c = q \div B /\ d = q % B /\ d < B /\ q = c * B + d
  BY Division
<1>3. PICK R \in Nat \ {0} : R = B * P
  <2>1. B * P \in Nat /\ B * P # 0
    OBVIOUS
  <2> QED
    BY <2>1
<1>4. PICK x \in Nat : x = d * P + r
  <2>1. d * P \in Nat
    OBVIOUS
  <2> QED
    BY <2>1
<1>5. x < R
  <2>1. PICK e \in Nat : B = d + 1 + e
    <3>1. B - d - 1 \in Nat /\ B = d + 1 + (B - d - 1)
      BY <1>2
    <3> QED
      BY <3>1
  <2>2. R = d * P + P + e * P
    BY <1>3, <2>1
  <2>3. e * P \in Nat /\ d * P \in Nat
    OBVIOUS
  <2> QED
    BY <1>1, <1>4, <2>2, <2>3
<1>6. n = c * R + x
  <2>1. (c * B + d) * P = c * (B * P) + d * P
    BY ONLY Distributes, B \in Nat, P \in Nat, c \in Nat, d \in Nat
  <2>2. q * P = c * R + d * P
    BY ONLY <1>2, <1>3, <2>1
  <2>3. c * R \in Nat /\ d * P \in Nat
    OBVIOUS
  <2> QED
    BY ONLY <1>1, <1>4, <2>2, <2>3, r \in Nat, q * P \in Nat
<1>7. PICK q2 \in Nat, r2 \in Nat : q2 = n \div R /\ r2 = n % R /\ r2 < R /\ n = q2 * R + r2
  BY Division
<1>8. x = r2
  <2>1. c * R + x = q2 * R + r2 /\ x < R /\ r2 < R
    BY ONLY <1>5, <1>6, <1>7
  <2> QED
    BY ONLY <2>1, OneQuotient, R \in Nat \ {0}, x \in Nat, c \in Nat, q2 \in Nat, r2 \in Nat
<1>9. (n % P) + ((n \div P) % B) * P = r + d * P
  BY ONLY <1>1, <1>2
<1>10. r + d * P = x
  BY ONLY <1>4, r \in Nat, x \in Nat, d * P \in Nat
<1> QED
  BY ONLY <1>3, <1>7, <1>8, <1>9, <1>10

(* The weights of the bytes.                                                          *)
LEMMA WeightFacts ==
  /\ Weight[0] = 1
  /\ \A i \in 0 .. FieldLen : Weight[i] \in Nat \ {0}
  /\ \A i \in 1 .. FieldLen : Weight[i] = Base * Weight[i - 1]
<1> DEFINE Step(f) == [i \in 0 .. FieldLen |-> IF i = 0 THEN 1 ELSE Base * f[i - 1]]
           T == Nat \ {0}
<1>1. Weight = CHOOSE f : f = Step(f)
  BY DEF Weight
<1>2. FieldLen \in Nat /\ Base \in T
  BY FormatAssumption
<1>3. \A x \in T : Base * x \in T
  BY <1>2
<1> DEFINE g == [i \in 1 .. FieldLen |-> [x \in T |-> Base * x]]
<1>4. PICK f : Loop(f, FieldLen, T, 1, g)
  <2>1. \A i \in 1 .. FieldLen : \A x \in T : g[i][x] \in T
    BY <1>3
  <2>2. 1 \in T
    OBVIOUS
  <2> HIDE DEF g, T
  <2> QED
    BY <1>2, <2>1, <2>2, LoopExists
<1>5. f \in [0 .. FieldLen -> T] /\ f[0] = 1
  BY <1>4 DEF Loop
<1>6. ASSUME NEW i \in 1 .. FieldLen
      PROVE  f[i - 1] \in T /\ f[i] = Base * f[i - 1]
  <2>1. f[i - 1] \in T
    BY <1>2, <1>5
  <2>2. f[i] = g[i][f[i - 1]]
    BY <1>4 DEF Loop
  <2> QED
    BY <2>1, <2>2
<1>7. f = Step(f)
  <2>1. \A i \in 0 .. FieldLen : f[i] = Step(f)[i]
    BY <1>2, <1>5, <1>6
  <2> QED
    BY <1>5, <2>1
<1>8. PICK c : c = Weight
  OBVIOUS
<1> HIDE DEF Step
<1>9. c = Step(c)
  BY ONLY <1>1, <1>7, <1>8, Zenon
<1> USE DEF Step
<1> HIDE <1>1
<1>10. c[0] = 1 /\ \A i \in 1 .. FieldLen : c[i] = Base * c[i - 1]
  BY <1>2, <1>9
<1> HIDE DEF Step
<1> DEFINE Bad == {i \in 0 .. FieldLen : c[i] \notin T}
<1>11. ASSUME Bad # {}
       PROVE  FALSE
  <2>1. PICK m \in Bad : \A i \in Bad : m <= i
    <3>1. Bad \subseteq Nat
      OBVIOUS
    <3> HIDE DEF Bad
    <3> QED
      BY <1>11, <3>1, LeastOf
  <2>2. m \in 0 .. FieldLen /\ c[m] \notin T
    BY <2>1
  <2>3. m \in 1 .. FieldLen
    BY <1>10, <2>2
  <2>4. m - 1 \in 0 .. FieldLen /\ m - 1 \notin Bad
    BY <2>1, <2>3, <1>2
  <2> HIDE DEF T
  <2>5. c[m - 1] \in T
    BY <2>4
  <2> QED
    BY <1>3, <1>10, <2>2, <2>3, <2>5
<1> QED
  BY <1>8, <1>10, <1>11

(* A field is a string of bytes.                                                        *)
LEMMA FieldFacts ==
  ASSUME NEW n \in Nat
  PROVE  /\ Field(n) \in Seq(Byte) /\ Len(Field(n)) = FieldLen
         /\ \A i \in 1 .. FieldLen : Field(n)[i] = (n \div Weight[i - 1]) % Base
<1>1. FieldLen \in Nat /\ Base \in Nat \ {0}
  BY FormatAssumption
<1>2. ASSUME NEW i \in 1 .. FieldLen
      PROVE  (n \div Weight[i - 1]) % Base \in Byte
  <2>1. i - 1 \in 0 .. FieldLen
    BY <1>1
  <2>2. PICK P \in Nat \ {0} : P = Weight[i - 1]
    BY <2>1, WeightFacts
  <2>3. PICK q \in Nat : q = n \div P
    BY <2>2, Division
  <2>4. q % Base \in Nat /\ q % Base < Base
    BY ONLY <1>1, q \in Nat, Division
  <2> QED
    BY <1>1, <2>2, <2>3, <2>4 DEF Byte
<1>3. Field(n) \in [1 .. FieldLen -> Byte]
  BY <1>2 DEF Field
<1> QED
  BY <1>1, <1>3 DEF Field

(* The sum that Number counts up.                                                    *)
Low(buf, at) ==
  CHOOSE low : low = [i \in 0 .. FieldLen |->
    IF i = 0 THEN 0 ELSE low[i - 1] + ByteAt(buf, at + i - 1) * Weight[i - 1]]

(* Number is the last of the sums.                                                       *)
LEMMA NumberIsLow == \A buf, at : Number(buf, at) = Low(buf, at)[FieldLen]
  BY DEF Number, Low

(* Every byte of a string of bytes is one, and so is what is behind it.                    *)
LEMMA ByteAtFacts ==
  ASSUME NEW buf \in Seq(Byte), NEW at
  PROVE  ByteAt(buf, at) \in Nat /\ ByteAt(buf, at) < Base /\ ByteAt(buf, at) \in Byte
<1>1. Base \in Nat \ {0}
  BY FormatAssumption
<1>2. CASE at + 1 \in DOMAIN buf
  <2>1. buf[at + 1] \in Byte
    BY <1>2
  <2> QED
    BY <1>1, <1>2, <2>1 DEF ByteAt, Byte
<1>3. CASE at + 1 \notin DOMAIN buf
  BY <1>1, <1>3 DEF ByteAt, Byte
<1> QED
  BY <1>2, <1>3

(* The sums, as Number counts them up: each adds a byte, by its weight, to the one before.    *)
LEMMA LowFacts ==
  ASSUME NEW buf \in Seq(Byte), NEW at \in Nat
  PROVE  /\ Low(buf, at)[0] = 0
         /\ \A i \in 0 .. FieldLen : Low(buf, at)[i] \in Nat
         /\ \A i \in 1 .. FieldLen :
              Low(buf, at)[i] = Low(buf, at)[i - 1] + ByteAt(buf, at + i - 1) * Weight[i - 1]
<1> DEFINE Step(f) == [i \in 0 .. FieldLen |->
             IF i = 0 THEN 0 ELSE f[i - 1] + ByteAt(buf, at + i - 1) * Weight[i - 1]]
           g == [i \in 1 .. FieldLen |-> [x \in Nat |-> x + ByteAt(buf, at + i - 1) * Weight[i - 1]]]
<1>1. Low(buf, at) = CHOOSE f : f = Step(f)
  BY DEF Low
<1>2. FieldLen \in Nat
  BY FormatAssumption
<1>3. ASSUME NEW i \in 1 .. FieldLen, NEW x \in Nat
      PROVE  x + ByteAt(buf, at + i - 1) * Weight[i - 1] \in Nat
  <2>1. PICK b \in Nat, w \in Nat : b = ByteAt(buf, at + i - 1) /\ w = Weight[i - 1]
    <3>1. i - 1 \in 0 .. FieldLen
      BY <1>2
    <3> QED
      BY <3>1, ByteAtFacts, WeightFacts
  <2>2. b * w \in Nat
    OBVIOUS
  <2> QED
    BY <2>1, <2>2
<1>4. PICK f : Loop(f, FieldLen, Nat, 0, g)
  <2>1. \A i \in 1 .. FieldLen : \A x \in Nat : g[i][x] \in Nat
    BY <1>3
  <2> HIDE DEF g
  <2> QED
    BY <1>2, <2>1, LoopExists
<1>5. f \in [0 .. FieldLen -> Nat] /\ f[0] = 0
  BY <1>4 DEF Loop
<1>6. ASSUME NEW i \in 1 .. FieldLen
      PROVE  f[i] = f[i - 1] + ByteAt(buf, at + i - 1) * Weight[i - 1]
  <2>1. f[i - 1] \in Nat
    BY <1>2, <1>5
  <2>2. f[i] = g[i][f[i - 1]]
    BY <1>4 DEF Loop
  <2> QED
    BY <2>1, <2>2
<1>7. f = Step(f)
  <2>1. ASSUME NEW i \in 0 .. FieldLen
        PROVE  f[i] = Step(f)[i]
    <3>1. CASE i = 0
      BY <1>5, <3>1
    <3>2. CASE i # 0
      <4>1. i \in 1 .. FieldLen
        BY <3>2
      <4> QED
        BY <1>6, <3>2, <4>1
    <3> QED
      BY <3>1, <3>2
  <2> QED
    BY <1>5, <2>1
<1>8. PICK c : c = Low(buf, at)
  OBVIOUS
<1> HIDE DEF Step
<1>9. c = Step(c)
  BY ONLY <1>1, <1>7, <1>8, Zenon
<1> USE DEF Step
<1> HIDE <1>1
<1>10. c[0] = 0
  BY <1>2, <1>9
<1>11. ASSUME NEW i \in 1 .. FieldLen
       PROVE  c[i] = c[i - 1] + ByteAt(buf, at + i - 1) * Weight[i - 1]
  BY <1>2, <1>9
<1> HIDE DEF Step, g
<1> DEFINE Bad == {i \in 0 .. FieldLen : c[i] \notin Nat}
<1>12. ASSUME Bad # {}
       PROVE  FALSE
  <2>1. PICK m \in Bad : \A i \in Bad : m <= i
    <3>1. Bad \subseteq Nat
      OBVIOUS
    <3> HIDE DEF Bad
    <3> QED
      BY <1>12, <3>1, LeastOf
  <2>2. m \in 1 .. FieldLen /\ c[m] \notin Nat
    BY <1>10, <2>1
  <2>3. m - 1 \in 0 .. FieldLen /\ m - 1 \notin Bad
    BY <2>1, <2>2, <1>2
  <2>4. c[m - 1] \in Nat
    BY <2>3
  <2> QED
    BY <1>3, <1>11, <2>2, <2>4
<1> QED
  BY <1>8, <1>10, <1>11, <1>12

(* The number in the field that send_req writes.                                        *)
LEMMA NumberOfField ==
  ASSUME NEW buf \in Seq(Byte), NEW at \in Nat, NEW n \in Nat, n < Weight[FieldLen],
         Holds(buf, at, Field(n))
  PROVE  Number(buf, at) = n
<1> DEFINE c == Low(buf, at)
           Bad == {i \in 0 .. FieldLen : c[i] # n % Weight[i]}
<1>1. FieldLen \in Nat /\ Base \in Nat \ {0}
  BY FormatAssumption
<1>2. ASSUME NEW i \in 1 .. FieldLen
      PROVE  ByteAt(buf, at + i - 1) = (n \div Weight[i - 1]) % Base
  <2>1. at + i <= Len(buf) /\ buf[at + i] = Field(n)[i]
    BY FieldFacts, <1>1 DEF Holds
  <2>2. at + i - 1 + 1 = at + i /\ at + i \in DOMAIN buf
    BY <1>1, <2>1
  <2> QED
    BY <2>1, <2>2, FieldFacts DEF ByteAt
<1>3. ASSUME Bad # {}
      PROVE  FALSE
  <2>1. PICK m \in Bad : \A i \in Bad : m <= i
    <3>1. Bad \subseteq Nat
      OBVIOUS
    <3> HIDE DEF Bad
    <3> QED
      BY <1>3, <3>1, LeastOf
  <2>2. m \in 0 .. FieldLen /\ c[m] # n % Weight[m]
    BY <2>1
  <2>3. m # 0
    <3>1. n % 1 = 0
      OBVIOUS
    <3> QED
      BY <2>2, <3>1, LowFacts, WeightFacts
  <2>4. m \in 1 .. FieldLen /\ m - 1 \in 0 .. FieldLen /\ m - 1 \notin Bad
    BY <2>1, <2>2, <2>3, <1>1
  <2>5. PICK P \in Nat \ {0} : P = Weight[m - 1] /\ Base * P = Weight[m]
    BY <2>4, WeightFacts
  <2>6. c[m - 1] = n % P
    BY <2>4, <2>5
  <2> HIDE DEF c, Bad
  <2>7. c[m] = c[m - 1] + ((n \div P) % Base) * P
    BY <1>2, <2>4, <2>5, LowFacts DEF c
  <2>8. (n % P) + ((n \div P) % Base) * P = n % (Base * P)
    BY ONLY NextDigit, <1>1, n \in Nat, P \in Nat \ {0}
  <2> QED
    BY ONLY <2>2, <2>5, <2>6, <2>7, <2>8
<1>4. c[FieldLen] = n % Weight[FieldLen]
  BY <1>1, <1>3
<1>5. PICK W \in Nat \ {0} : W = Weight[FieldLen]
  BY <1>1, WeightFacts
<1>6. n % W = n
  <2>1. n < W
    BY <1>5
  <2>2. 0 \in Nat /\ n = 0 * W + n
    OBVIOUS
  <2>3. PICK q \in Nat, r \in Nat : r = n % W /\ r < W /\ n = q * W + r
    BY Division
  <2>4. 0 * W + n = q * W + r
    BY ONLY <2>2, <2>3
  <2>5. n = r
    BY ONLY <2>1, <2>2, <2>3, <2>4, OneQuotient, W \in Nat \ {0}, n \in Nat, q \in Nat, r \in Nat
  <2> QED
    BY <2>3, <2>5
<1> QED
  BY <1>4, <1>5, <1>6, NumberIsLow

(* i bytes count less than the next one may.                                             *)
LEMMA LowBound ==
  ASSUME NEW buf \in Seq(Byte), NEW at \in Nat
  PROVE  \A i \in 0 .. FieldLen : Low(buf, at)[i] < Weight[i]
<1> DEFINE c == Low(buf, at)
           Bad == {i \in 0 .. FieldLen : ~ (c[i] < Weight[i])}
<1>1. FieldLen \in Nat /\ Base \in Nat \ {0}
  BY FormatAssumption
<1>2. ASSUME Bad # {}
      PROVE  FALSE
  <2>1. PICK m \in Bad : \A i \in Bad : m <= i
    <3>1. Bad \subseteq Nat
      OBVIOUS
    <3> HIDE DEF Bad
    <3> QED
      BY <1>2, <3>1, LeastOf
  <2>2. m \in 0 .. FieldLen /\ ~ (c[m] < Weight[m])
    BY <2>1
  <2>3. m # 0
    BY <2>2, LowFacts, WeightFacts
  <2>4. m \in 1 .. FieldLen /\ m - 1 \in 0 .. FieldLen /\ m - 1 \notin Bad
    BY <2>1, <2>2, <2>3, <1>1
  <2>5. PICK P \in Nat \ {0} : P = Weight[m - 1] /\ Base * P = Weight[m]
    BY <2>4, WeightFacts
  <2>6. PICK x \in Nat : x = c[m - 1] /\ x < P
    BY <2>4, <2>5, LowFacts
  <2>7. PICK b \in Nat : b = ByteAt(buf, at + m - 1) /\ b < Base
    BY <2>4, ByteAtFacts
  <2>8. c[m] = x + b * P
    BY <2>4, <2>5, <2>6, <2>7, LowFacts
  <2>9. PICK e \in Nat : Base = b + 1 + e
    <3>1. Base - b - 1 \in Nat /\ Base = b + 1 + (Base - b - 1)
      BY <1>1, <2>7
    <3> QED
      BY <3>1
  <2>10. Base * P = b * P + P + e * P
    BY ONLY <2>9, b \in Nat, e \in Nat, P \in Nat
  <2>11. b * P \in Nat /\ e * P \in Nat
    OBVIOUS
  <2>12. x + b * P < Base * P
    BY ONLY <2>6, <2>10, <2>11, x \in Nat, P \in Nat
  <2> QED
    BY ONLY <2>2, <2>5, <2>8, <2>12
<1> QED
  BY <1>2

(* Bytes that count the same are the same.                                               *)
LEMMA BytesOfNumber ==
  ASSUME NEW one \in Seq(Byte), NEW p \in Nat, NEW two \in Seq(Byte), NEW q \in Nat,
         Number(one, p) = Number(two, q)
  PROVE  \A i \in 1 .. FieldLen : ByteAt(one, p + i - 1) = ByteAt(two, q + i - 1)
<1> DEFINE c == Low(one, p)
           d == Low(two, q)
           Bad == {i \in Nat : i <= FieldLen /\ c[FieldLen - i] # d[FieldLen - i]}
<1>1. FieldLen \in Nat /\ Base \in Nat \ {0}
  BY FormatAssumption
<1>2. ASSUME NEW i \in 1 .. FieldLen, c[i] = d[i]
      PROVE  ByteAt(one, p + i - 1) = ByteAt(two, q + i - 1) /\ c[i - 1] = d[i - 1]
  <2>1. i - 1 \in 0 .. FieldLen
    BY <1>1
  <2>2. PICK P \in Nat \ {0} : P = Weight[i - 1]
    BY <2>1, WeightFacts
  <2>3. PICK x \in Nat, y \in Nat : x = c[i - 1] /\ x < P /\ y = d[i - 1] /\ y < P
    BY <2>1, <2>2, LowFacts, LowBound
  <2>4. PICK a \in Nat, b \in Nat :
          a = ByteAt(one, p + i - 1) /\ b = ByteAt(two, q + i - 1)
    BY ByteAtFacts
  <2>5. c[i] = x + a * P /\ d[i] = y + b * P
    BY <2>2, <2>3, <2>4, LowFacts
  <2>6. a * P \in Nat /\ b * P \in Nat
    OBVIOUS
  <2>7. a * P + x = b * P + y
    <3>1. x + a * P = y + b * P
      BY ONLY <1>2, <2>5
    <3> QED
      BY ONLY <2>6, <3>1, x \in Nat, y \in Nat
  <2>8. x < P /\ y < P
    BY ONLY <2>3
  <2>9. a = b /\ x = y
    BY ONLY <2>7, <2>8, OneQuotient, P \in Nat \ {0}, a \in Nat, b \in Nat, x \in Nat, y \in Nat
  <2> QED
    BY <2>3, <2>4, <2>9
<1>3. ASSUME Bad # {}
      PROVE  FALSE
  <2>1. PICK m \in Bad : \A i \in Bad : m <= i
    <3>1. Bad \subseteq Nat
      OBVIOUS
    <3> HIDE DEF Bad
    <3> QED
      BY <1>3, <3>1, LeastOf
  <2>2. m \in Nat /\ m <= FieldLen /\ c[FieldLen - m] # d[FieldLen - m]
    BY <2>1
  <2>3. m # 0
    <3>1. FieldLen - 0 = FieldLen
      BY <1>1
    <3>2. c[FieldLen] = d[FieldLen]
      BY NumberIsLow
    <3> QED
      BY <2>2, <3>1, <3>2
  <2>4. m - 1 \in Nat /\ m - 1 <= FieldLen /\ m - 1 \notin Bad
    <3> HIDE DEF Bad
    <3> QED
      BY <1>1, <2>1, <2>2, <2>3
  <2>5. PICK k \in 1 .. FieldLen : k = FieldLen - (m - 1) /\ k - 1 = FieldLen - m
    BY <1>1, <2>2, <2>3
  <2>6. c[k] = d[k]
    BY <2>4, <2>5
  <2> QED
    BY <1>2, <2>2, <2>5, <2>6
<1>4. ASSUME NEW i \in 1 .. FieldLen
      PROVE  c[i] = d[i]
  <2>1. FieldLen - i \in Nat /\ FieldLen - i <= FieldLen /\ FieldLen - (FieldLen - i) = i
    BY <1>1
  <2>2. FieldLen - i \notin Bad
    BY <1>3
  <2> QED
    BY <2>1, <2>2
<1> QED
  BY <1>2, <1>4

(* The bytes of a length are the field send_req writes for it.                             *)
LEMMA FieldOfNumber ==
  ASSUME NEW buf \in Seq(Byte), NEW at \in Nat, at + FieldLen <= Len(buf)
  PROVE  /\ Number(buf, at) \in Nat /\ Number(buf, at) < Weight[FieldLen]
         /\ Holds(buf, at, Field(Number(buf, at)))
<1>1. FieldLen \in Nat /\ Base \in Nat \ {0}
  BY FormatAssumption
<1>2. PICK n \in Nat : n = Number(buf, at) /\ n < Weight[FieldLen]
  <2>1. FieldLen \in 0 .. FieldLen
    BY <1>1
  <2> QED
    BY <2>1, LowFacts, LowBound, NumberIsLow
<1>3. PICK f \in Seq(Byte) : f = Field(n) /\ Len(f) = FieldLen
  BY FieldFacts
<1>4. Holds(f, 0, Field(n))
  <2>1. \A i \in 1 .. Len(f) : 0 + i = i
    BY <1>1, <1>3
  <2> QED
    BY <1>1, <1>3, <2>1 DEF Holds
<1>5. Number(f, 0) = n
  BY <1>2, <1>4, NumberOfField
<1>6. ASSUME NEW i \in 1 .. FieldLen
      PROVE  buf[at + i] = f[i]
  <2>1. ByteAt(buf, at + i - 1) = ByteAt(f, 0 + i - 1)
    BY <1>2, <1>5, BytesOfNumber
  <2>2. at + i - 1 + 1 = at + i /\ 0 + i - 1 + 1 = i
    BY <1>1
  <2>3. at + i \in DOMAIN buf /\ i \in DOMAIN f
    BY <1>1, <1>3
  <2> QED
    BY <2>1, <2>2, <2>3 DEF ByteAt
<1>7. Holds(buf, at, f)
  BY <1>3, <1>6 DEF Holds
<1> QED
  BY <1>2, <1>3, <1>7

-----------------------------------------------------------------------------
(* Strings of bytes.                                                             *)

(* Two strings behind each other.                                                       *)
LEMMA HoldsBoth ==
  ASSUME NEW S, NEW buf \in Seq(S), NEW at \in Nat, NEW a \in Seq(S), NEW b \in Seq(S)
  PROVE  Holds(buf, at, a \o b) <=> Holds(buf, at, a) /\ Holds(buf, at + Len(a), b)
<1>1. PICK r \in Seq(S) : r = a \o b
  BY ConcatProperties
<1>2. PICK m \in Nat, n \in Nat : m = Len(a) /\ n = Len(b) /\ Len(r) = m + n
  BY <1>1, ConcatProperties
<1>3. \A i \in 1 .. (m + n) : r[i] = IF i <= m THEN a[i] ELSE b[i - m]
  BY <1>1, <1>2, ConcatProperties
<1>4. Len(buf) \in Nat
  OBVIOUS
<1>5. ASSUME Holds(buf, at, r)
      PROVE  Holds(buf, at, a) /\ Holds(buf, at + m, b)
  <2>1. at + (m + n) <= Len(buf) /\ \A i \in 1 .. (m + n) : buf[at + i] = r[i]
    BY <1>2, <1>5 DEF Holds
  <2>2. ASSUME NEW i \in 1 .. m
        PROVE  buf[at + i] = a[i]
    BY <1>3, <2>1
  <2>3. ASSUME NEW i \in 1 .. n
        PROVE  buf[at + m + i] = b[i]
    <3>1. PICK j \in 1 .. (m + n) : j = m + i /\ ~ (j <= m) /\ j - m = i /\ at + j = at + m + i
      OBVIOUS
    <3> QED
      BY <1>3, <2>1, <3>1
  <2> QED
    BY <1>2, <1>4, <2>1, <2>2, <2>3 DEF Holds
<1>6. ASSUME Holds(buf, at, a), Holds(buf, at + m, b)
      PROVE  Holds(buf, at, r)
  <2>1. /\ at + m + n <= Len(buf) /\ \A i \in 1 .. m : buf[at + i] = a[i]
        /\ \A i \in 1 .. n : buf[at + m + i] = b[i]
    BY <1>2, <1>6 DEF Holds
  <2>2. ASSUME NEW i \in 1 .. (m + n)
        PROVE  buf[at + i] = r[i]
    <3>1. CASE i <= m
      BY <1>3, <2>1, <3>1
    <3>2. CASE ~ (i <= m)
      <4>1. PICK j \in 1 .. n : j = i - m /\ at + m + j = at + i
        BY <3>2
      <4> QED
        BY <1>3, <2>1, <3>2, <4>1
    <3> QED
      BY <3>1, <3>2
  <2> QED
    BY <1>2, <1>4, <2>1, <2>2 DEF Holds
<1> QED
  BY <1>1, <1>2, <1>5, <1>6

(* The first n of a sequence.                                                       *)
LEMMA PrefixOf ==
  ASSUME NEW S, NEW s \in Seq(S), NEW n \in 0 .. Len(s)
  PROVE  /\ SubSeq(s, 1, n) \in Seq(S) /\ Len(SubSeq(s, 1, n)) = n
         /\ \A i \in 1 .. n : SubSeq(s, 1, n)[i] = s[i]
<1>1. n \in Nat /\ n \in Int /\ 1 \in Int /\ \A i \in 1 .. n : s[i] \in S
  OBVIOUS
<1>2. PICK q : q = SubSeq(s, 1, n)
  OBVIOUS
<1>3. /\ q \in Seq(S) /\ Len(q) = IF 1 <= n THEN n - 1 + 1 ELSE 0
      /\ \A i \in 1 .. n - 1 + 1 : q[i] = s[1 + i - 1]
  BY ONLY <1>1, <1>2, SubSeqProperties
<1>4. Len(q) = n
  BY ONLY <1>1, <1>3
<1>5. ASSUME NEW i \in 1 .. n
      PROVE  q[i] = s[i]
  <2>1. i \in 1 .. n - 1 + 1 /\ 1 + i - 1 = i
    BY <1>1
  <2> QED
    BY ONLY <1>3, <2>1
<1> QED
  BY ONLY <1>2, <1>3, <1>4, <1>5

(* The first n of a sequence are the first n - 1 and one more.                                *)
LEMMA OneMore ==
  ASSUME NEW S, NEW s \in Seq(S), NEW n \in 1 .. Len(s)
  PROVE  Append(SubSeq(s, 1, n - 1), s[n]) = SubSeq(s, 1, n)
<1>1. n \in 0 .. Len(s) /\ n - 1 \in 0 .. Len(s) /\ n \in Nat /\ s[n] \in S
  OBVIOUS
<1>2. PICK x \in S : x = s[n]
  BY <1>1
<1>3. PICK a \in Seq(S) : a = SubSeq(s, 1, n) /\ Len(a) = n /\ \A i \in 1 .. n : a[i] = s[i]
  BY <1>1, PrefixOf
<1>4. PICK b \in Seq(S) : b = SubSeq(s, 1, n - 1) /\ Len(b) = n - 1 /\ \A i \in 1 .. (n - 1) : b[i] = s[i]
  BY <1>1, PrefixOf
<1>5. PICK c : c = Append(b, x)
  OBVIOUS
<1>6. c \in Seq(S) /\ Len(c) = Len(b) + 1 /\ c[Len(b) + 1] = x /\ \A i \in 1 .. Len(b) : c[i] = b[i]
  BY ONLY <1>5, AppendProperties, b \in Seq(S), x \in S
<1>7. Len(b) + 1 = n
  BY <1>1, <1>4
<1>8. ASSUME NEW i \in 1 .. n
      PROVE  c[i] = a[i]
  <2>1. CASE i = n
    BY ONLY <1>2, <1>3, <1>6, <1>7, <2>1, i \in 1 .. n
  <2>2. CASE i # n
    <3>1. i \in 1 .. (n - 1)
      BY <1>1, <2>2
    <3> QED
      BY ONLY <1>3, <1>4, <1>6, <3>1, i \in 1 .. n
  <2> QED
    BY <2>1, <2>2
<1>9. c = a
  BY ONLY <1>3, <1>6, <1>7, <1>8, SeqEqual, a \in Seq(S)
<1> QED
  BY ONLY <1>2, <1>3, <1>4, <1>5, <1>9

(* f joins the strings of p one after the other.                                        *)
Joins(f, p, S) ==
  /\ f \in [0 .. Len(p) -> Seq(S)] /\ f[0] = <<>>
  /\ \A i \in 1 .. Len(p) : f[i] = f[i - 1] \o p[i]

(* Any strings can be joined.                                                           *)
LEMMA JoinsExist ==
  ASSUME NEW S, NEW p \in Seq(Seq(S))
  PROVE  \E f : Joins(f, p, S)
<1> DEFINE g == [i \in 1 .. Len(p) |-> [x \in Seq(S) |-> x \o p[i]]]
<1>1. Len(p) \in Nat /\ \A i \in 1 .. Len(p) : p[i] \in Seq(S)
  OBVIOUS
<1>2. PICK f : Loop(f, Len(p), Seq(S), <<>>, g)
  <2>1. \A i \in 1 .. Len(p) : \A x \in Seq(S) : g[i][x] \in Seq(S)
    BY <1>1, ConcatProperties
  <2>2. <<>> \in Seq(S)
    OBVIOUS
  <2> HIDE DEF g
  <2> QED
    BY <1>1, <2>1, <2>2, LoopExists
<1>3. f \in [0 .. Len(p) -> Seq(S)] /\ f[0] = <<>>
  BY <1>2 DEF Loop
<1>4. ASSUME NEW i \in 1 .. Len(p)
      PROVE  f[i] = f[i - 1] \o p[i]
  <2>1. f[i - 1] \in Seq(S)
    <3>1. i - 1 \in 0 .. Len(p)
      BY <1>1
    <3> QED
      BY ONLY <1>3, <3>1
  <2>2. f[i] = g[i][f[i - 1]]
    BY <1>2 DEF Loop
  <2> QED
    BY <2>1, <2>2
<1> QED
  BY <1>3, <1>4 DEF Joins

(* What FlattenSeq counts up.                                                         *)
Flat(p) ==
  CHOOSE flatten : flatten = [i \in 1 .. Len(p) |->
    IF i = 1 THEN p[i] ELSE flatten[i - 1] \o p[i]]

(* FlattenSeq is what joins them all.                                                     *)
LEMMA FlattenJoins ==
  ASSUME NEW S, NEW p \in Seq(Seq(S)), NEW f, Joins(f, p, S)
  PROVE  FlattenSeq(p) = f[Len(p)]
<1>1. Len(p) \in Nat /\ \A i \in 1 .. Len(p) : p[i] \in Seq(S)
  OBVIOUS
<1>2. CASE Len(p) = 0
  <2>1. p = <<>>
    BY <1>2
  <2> QED
    BY <1>2, <2>1 DEF Joins, FlattenSeq
<1>3. CASE Len(p) # 0
  <2> DEFINE N == Len(p)
             Step(h) == [i \in 1 .. N |-> IF i = 1 THEN p[i] ELSE h[i - 1] \o p[i]]
             k == [i \in 1 .. N |-> f[i]]
  <2>1. Flat(p) = CHOOSE h : h = Step(h)
    BY DEF Flat
  <2>2. FlattenSeq(p) = Flat(p)[N]
    BY <1>3 DEF FlattenSeq, Flat
  <2>3. N \in Nat \ {0}
    BY <1>1, <1>3
  <2>4. /\ f \in [0 .. N -> Seq(S)] /\ f[0] = <<>>
        /\ \A i \in 1 .. N : f[i] = f[i - 1] \o p[i]
    BY DEF Joins
  <2> HIDE DEF N
  <2>5. f[1] = p[1]
    <3>1. p[1] \in Seq(S)
      BY <1>1, <2>3 DEF N
    <3>2. f[1] = <<>> \o p[1]
      <4>1. 1 \in 1 .. N /\ 1 - 1 = 0
        BY <2>3
      <4>2. f[1] = f[1 - 1] \o p[1]
        BY <2>4, <4>1
      <4> QED
        BY ONLY <2>4, <4>1, <4>2
    <3>3. <<>> \o p[1] = p[1]
      BY <3>1, ConcatEmptySeq
    <3> QED
      BY <3>2, <3>3
  <2>6. k = Step(k)
    <3>1. ASSUME NEW i \in 1 .. N
          PROVE  k[i] = IF i = 1 THEN p[i] ELSE k[i - 1] \o p[i]
      <4>1. CASE i = 1
        BY <2>5, <4>1
      <4>2. CASE i # 1
        <5>1. i - 1 \in 1 .. N
          BY <2>3, <4>2
        <5> QED
          BY <2>4, <4>2, <5>1
      <4> QED
        BY <4>1, <4>2
    <3> QED
      BY <3>1
  <2>7. PICK c : c = Flat(p)
    OBVIOUS
  <2> HIDE DEF Step
  <2>8. c = Step(c)
    BY ONLY <2>1, <2>6, <2>7, Zenon
  <2> USE DEF Step
  <2> HIDE <2>1
  <2>9. c[1] = p[1]
    BY <2>3, <2>8
  <2>10. ASSUME NEW i \in 2 .. N
         PROVE  c[i] = c[i - 1] \o p[i]
    <3>1. i \in 1 .. N /\ i # 1
      BY <2>3
    <3> QED
      BY ONLY <2>8, <3>1
  <2> HIDE DEF Step, k
  <2> DEFINE Bad == {i \in 1 .. N : c[i] # f[i]}
  <2>11. ASSUME Bad # {}
         PROVE  FALSE
    <3>1. PICK m \in Bad : \A i \in Bad : m <= i
      <4>1. Bad \subseteq Nat
        OBVIOUS
      <4> HIDE DEF Bad
      <4> QED
        BY <2>11, <4>1, LeastOf
    <3>2. m \in 1 .. N /\ c[m] # f[m]
      BY <3>1
    <3>3. m \in 2 .. N
      BY <2>5, <2>9, <3>2
    <3>4. m - 1 \in 1 .. N /\ m - 1 \notin Bad
      BY <2>3, <3>1, <3>3
    <3>5. c[m - 1] = f[m - 1]
      BY <3>4
    <3> QED
      BY <2>4, <2>10, <3>2, <3>3, <3>5
  <2>12. c[N] = f[N]
    <3>1. N \in 1 .. N
      BY <2>3
    <3> QED
      BY <2>11, <3>1
  <2> QED
    BY <2>2, <2>7, <2>12 DEF N
<1> QED
  BY <1>2, <1>3

(* FlattenSeq, as one string more comes to the end.                                        *)
LEMMA FlattenFacts ==
  ASSUME NEW S
  PROVE  /\ FlattenSeq(<<>>) = <<>>
         /\ \A p \in Seq(Seq(S)) : FlattenSeq(p) \in Seq(S)
         /\ \A p \in Seq(Seq(S)) : \A x \in Seq(S) : FlattenSeq(Append(p, x)) = FlattenSeq(p) \o x
<1>1. FlattenSeq(<<>>) = <<>>
  BY DEF FlattenSeq
<1>2. ASSUME NEW p \in Seq(Seq(S))
      PROVE  FlattenSeq(p) \in Seq(S)
  <2>1. PICK f : Joins(f, p, S)
    BY JoinsExist
  <2>2. FlattenSeq(p) = f[Len(p)]
    BY <2>1, FlattenJoins
  <2> QED
    BY <2>1, <2>2 DEF Joins
<1>3. ASSUME NEW p \in Seq(Seq(S)), NEW x \in Seq(S)
      PROVE  FlattenSeq(Append(p, x)) = FlattenSeq(p) \o x
  <2>1. PICK f : Joins(f, p, S)
    BY JoinsExist
  <2>2. PICK r \in Seq(Seq(S)) : r = Append(p, x)
    BY AppendProperties
  <2>3. PICK n \in Nat : n = Len(p) /\ Len(r) = n + 1
    BY <2>2
  <2>4. r[n + 1] = x /\ \A i \in 1 .. n : r[i] = p[i]
    BY <2>2, <2>3
  <2>5. /\ f \in [0 .. n -> Seq(S)] /\ f[0] = <<>>
        /\ \A i \in 1 .. n : f[i] = f[i - 1] \o p[i]
    BY <2>1, <2>3 DEF Joins
  <2>6. PICK y \in Seq(S) : y = f[n] \o x
    <3>1. f[n] \in Seq(S)
      BY <2>5
    <3> QED
      BY <3>1, ConcatProperties
  <2> DEFINE h == [i \in 0 .. (n + 1) |-> IF i = n + 1 THEN y ELSE f[i]]
  <2>7. Joins(h, r, S)
    <3>1. h \in [0 .. (n + 1) -> Seq(S)]
      BY <2>5
    <3>2. h[0] = <<>>
      BY <2>5
    <3>3. ASSUME NEW i \in 1 .. (n + 1)
          PROVE  h[i] = h[i - 1] \o r[i]
      <4>1. CASE i = n + 1
        <5>1. h[n + 1] = y /\ h[n] = f[n] /\ i - 1 = n
          BY <4>1
        <5> HIDE DEF h
        <5> QED
          BY ONLY <2>4, <2>6, <4>1, <5>1
      <4>2. CASE i # n + 1
        <5>1. i \in 1 .. n /\ h[i] = f[i] /\ h[i - 1] = f[i - 1] /\ r[i] = p[i]
          BY <2>4, <4>2
        <5> QED
          BY <2>5, <5>1
      <4> QED
        BY <4>1, <4>2
    <3> HIDE DEF h
    <3> QED
      BY <2>3, <3>1, <3>2, <3>3 DEF Joins
  <2>8. h[n + 1] = y
    OBVIOUS
  <2> HIDE DEF h
  <2>9. FlattenSeq(r) = h[n + 1]
    BY <2>3, <2>7, FlattenJoins
  <2>10. FlattenSeq(p) = f[n]
    BY <2>1, <2>3, FlattenJoins
  <2> QED
    BY <2>2, <2>6, <2>8, <2>9, <2>10
<1> QED
  BY <1>1, <1>2, <1>3

(* The parts of what is joined lie behind each other.                                      *)
LEMMA JoinedParts ==
  ASSUME NEW S, NEW p \in Seq(Seq(S)), NEW f, Joins(f, p, S),
         NEW buf \in Seq(S), NEW at \in Nat
  PROVE  /\ \A i \in 0 .. Len(p) : f[i] \in Seq(S) /\ Len(f[i]) <= Len(f[Len(p)])
         /\ \A i \in 1 .. Len(p) : Len(f[i]) = Len(f[i - 1]) + Len(p[i])
         /\ Holds(buf, at, f[Len(p)]) =>
              \A i \in 1 .. Len(p) : Holds(buf, at + Len(f[i - 1]), p[i])
<1>1. PICK n \in Nat : n = Len(p)
  OBVIOUS
<1>2. /\ \A i \in 0 .. n : f[i] \in Seq(S)
      /\ \A i \in 1 .. n : p[i] \in Seq(S) /\ f[i] = f[i - 1] \o p[i]
  <2>1. \A i \in 0 .. n : f[i] \in Seq(S)
    BY <1>1 DEF Joins
  <2>2. \A i \in 1 .. n : p[i] \in Seq(S)
    BY <1>1
  <2>3. \A i \in 1 .. n : f[i] = f[i - 1] \o p[i]
    BY <1>1 DEF Joins
  <2> QED
    BY <2>1, <2>2, <2>3
<1>3. ASSUME NEW i \in 1 .. n
      PROVE  /\ Len(f[i - 1]) \in Nat /\ Len(p[i]) \in Nat
             /\ Len(f[i]) = Len(f[i - 1]) + Len(p[i])
             /\ Holds(buf, at, f[i]) => /\ Holds(buf, at, f[i - 1])
                                        /\ Holds(buf, at + Len(f[i - 1]), p[i])
  <2>1. PICK a \in Seq(S), b \in Seq(S) : a = f[i - 1] /\ b = p[i] /\ f[i] = a \o b
    <3>1. i - 1 \in 0 .. n
      OBVIOUS
    <3> QED
      BY <1>2, <3>1
  <2>2. Holds(buf, at, a \o b) => Holds(buf, at, a) /\ Holds(buf, at + Len(a), b)
    BY HoldsBoth
  <2>3. Len(a \o b) = Len(a) + Len(b)
    BY ConcatProperties
  <2> QED
    BY <2>1, <2>2, <2>3
<1> DEFINE Good(i) == Len(f[i]) <= Len(f[n]) /\ (Holds(buf, at, f[n]) => Holds(buf, at, f[i]))
           Bad == {k \in Nat : k <= n /\ ~ Good(n - k)}
<1>4. ASSUME Bad # {}
      PROVE  FALSE
  <2>1. PICK k \in Bad : \A j \in Bad : k <= j
    <3>1. Bad \subseteq Nat
      OBVIOUS
    <3> HIDE DEF Bad
    <3> QED
      BY <1>4, <3>1, LeastOf
  <2>2. k \in Nat /\ k <= n /\ ~ Good(n - k)
    BY <2>1
  <2>3. k # 0
    <3>1. n - 0 = n /\ Len(f[n]) \in Nat
      BY <1>2
    <3>2. Good(n)
      BY <3>1
    <3> HIDE DEF Good
    <3> QED
      BY <2>2, <3>1, <3>2
  <2>4. k - 1 \in Nat /\ k - 1 <= n /\ k - 1 \notin Bad
    <3> HIDE DEF Bad
    <3> QED
      BY <2>1, <2>2, <2>3
  <2>5. PICK i \in 1 .. n : i = n - (k - 1) /\ i - 1 = n - k
    BY <2>2, <2>3
  <2>6. Good(i)
    <3> HIDE DEF Good
    <3> QED
      BY <2>4, <2>5
  <2>7. Good(i - 1)
    <3>1. Len(f[n]) \in Nat /\ Len(f[i]) \in Nat
      BY <1>2
    <3>2. Len(f[i - 1]) <= Len(f[n])
      <4>1. Len(f[i - 1]) <= Len(f[i])
        <5>1. PICK u \in Nat, v \in Nat : u = Len(f[i - 1]) /\ v = Len(p[i]) /\ Len(f[i]) = u + v
          BY <1>3
        <5>2. u <= u + v
          OBVIOUS
        <5> QED
          BY ONLY <5>1, <5>2
      <4> QED
        BY <1>3, <2>6, <3>1, <4>1
    <3>3. Holds(buf, at, f[n]) => Holds(buf, at, f[i - 1])
      BY <1>3, <2>6
    <3> QED
      BY <3>2, <3>3
  <2> HIDE DEF Good
  <2> QED
    BY <2>2, <2>5, <2>7
<1>5. ASSUME NEW i \in 0 .. n
      PROVE  Good(i)
  <2>1. n - i \in Nat /\ n - i <= n /\ n - (n - i) = i
    OBVIOUS
  <2>2. n - i \notin Bad
    BY <1>4
  <2> HIDE DEF Good
  <2> QED
    BY <2>1, <2>2
<1>6. ASSUME NEW i \in 1 .. n, Holds(buf, at, f[n])
      PROVE  Holds(buf, at + Len(f[i - 1]), p[i])
  <2>1. i \in 0 .. n
    OBVIOUS
  <2> QED
    BY <1>3, <1>5, <1>6, <2>1
<1>7. \A i \in 0 .. n : f[i] \in Seq(S) /\ Len(f[i]) <= Len(f[n])
  BY <1>2, <1>5
<1>8. \A i \in 1 .. n : Len(f[i]) = Len(f[i - 1]) + Len(p[i])
  BY <1>3
<1> QED
  BY <1>1, <1>6, <1>7, <1>8

-----------------------------------------------------------------------------
(* What send_req makes.                                                          *)

Word == Seq(Byte)

(* A string of bytes has a length.                                                        *)
LEMMA WordLen == \A w \in Word : Len(w) \in Nat
  BY DEF Word

(* Where no part is empty, i of them take i bytes at least.                                  *)
LEMMA JoinedLong ==
  ASSUME NEW p \in Seq(Word), NEW f, Joins(f, p, Byte),
         \A i \in 1 .. Len(p) : 1 <= Len(p[i])
  PROVE  \A i \in 0 .. Len(p) : i <= Len(f[i])
<1>1. PICK n \in Nat : n = Len(p)
  OBVIOUS
<1>2. /\ \A i \in 0 .. n : f[i] \in Word
      /\ \A i \in 1 .. n : Len(f[i]) = Len(f[i - 1]) + Len(p[i])
  BY <1>1, JoinedParts, <<>> \in Seq(Byte) DEF Word
<1> DEFINE Bad == {i \in 0 .. n : ~ (i <= Len(f[i]))}
<1>3. ASSUME Bad # {}
      PROVE  FALSE
  <2>1. PICK m \in Bad : \A i \in Bad : m <= i
    <3>1. Bad \subseteq Nat
      OBVIOUS
    <3> HIDE DEF Bad
    <3> QED
      BY <1>3, <3>1, LeastOf
  <2>2. m \in 0 .. n /\ ~ (m <= Len(f[m]))
    BY <2>1
  <2>3. m \in 1 .. n
    <3>1. Len(f[m]) \in Nat
      BY <1>2, <2>2, WordLen
    <3> QED
      BY <2>2, <3>1
  <2>4. m - 1 \in 0 .. n /\ m - 1 \notin Bad
    <3> HIDE DEF Bad
    <3> QED
      BY <2>1, <2>3
  <2>5. PICK x \in Nat, e \in Nat : x = Len(f[m - 1]) /\ e = Len(p[m]) /\ 1 <= e
    <3>1. f[m - 1] \in Word /\ p[m] \in Word
      BY <1>1, <1>2, <2>3, <2>4
    <3> QED
      BY <1>1, <2>3, <3>1, WordLen
  <2>6. m - 1 <= x
    BY <2>4, <2>5
  <2>7. Len(f[m]) = x + e
    BY <1>2, <2>3, <2>5
  <2>8. m \in Nat /\ x \in Nat /\ e \in Nat /\ 1 <= e
    BY <2>3, <2>5
  <2>9. m <= x + e
    BY ONLY <2>6, <2>8
  <2> QED
    BY ONLY <2>2, <2>7, <2>9
<1> QED
  BY <1>1, <1>3

(* A string, encoded, is a string of bytes: its length and itself.                            *)
LEMMA EncodedFacts ==
  ASSUME NEW s \in Word
  PROVE  /\ Field(Len(s)) \in Word /\ Len(Field(Len(s))) = FieldLen
         /\ EncodedStr(s) \in Word /\ Len(EncodedStr(s)) = FieldLen + Len(s)
<1>1. PICK f \in Word : f = Field(Len(s)) /\ Len(f) = FieldLen
  BY FieldFacts DEF Word
<1>2. PICK r \in Word : r = f \o s /\ Len(r) = Len(f) + Len(s)
  BY ConcatProperties DEF Word
<1> QED
  BY <1>1, <1>2 DEF EncodedStr

(* The parts Strings joins.                                                          *)
Parts(cmd) == [i \in 1 .. Len(cmd) |-> EncodedStr(cmd[i])]

(* One part for each string of the command, and Strings joins them.                            *)
LEMMA PartsFacts ==
  ASSUME NEW cmd \in Seq(Word)
  PROVE  /\ Parts(cmd) \in Seq(Word) /\ Len(Parts(cmd)) = Len(cmd)
         /\ \A i \in 1 .. Len(cmd) : cmd[i] \in Word /\ Parts(cmd)[i] = EncodedStr(cmd[i])
         /\ Strings(cmd) = FlattenSeq(Parts(cmd))
         /\ Strings(cmd) \in Word
<1>1. PICK n \in Nat : n = Len(cmd)
  OBVIOUS
<1>2. \A i \in 1 .. n : cmd[i] \in Word /\ EncodedStr(cmd[i]) \in Word
  BY <1>1, EncodedFacts
<1>3. PICK p : p = Parts(cmd)
  OBVIOUS
<1>4. p = [i \in 1 .. n |-> EncodedStr(cmd[i])]
  BY <1>1, <1>3 DEF Parts
<1>5. p \in Seq(Word) /\ Len(p) = n
  BY <1>2, <1>4
<1>6. FlattenSeq(p) \in Word
  BY <1>5, FlattenFacts DEF Word
<1>7. Strings(cmd) = FlattenSeq(p)
  BY <1>3 DEF Strings, Parts
<1> QED
  BY <1>1, <1>2, <1>3, <1>4, <1>5, <1>6, <1>7

(* The strings, as one more is sent.                                                    *)
LEMMA StringsGrow ==
  ASSUME NEW cmd \in Seq(Word), NEW s \in Word
  PROVE  Strings(Append(cmd, s)) = Strings(cmd) \o EncodedStr(s)
<1>1. PICK r \in Seq(Word) : r = Append(cmd, s)
  BY AppendProperties
<1>2. PICK n \in Nat : n = Len(cmd) /\ Len(r) = n + 1
  BY <1>1, AppendProperties
<1>3. r[n + 1] = s /\ \A i \in 1 .. n : r[i] = cmd[i]
  BY <1>1, <1>2, AppendProperties
<1>4. PICK p \in Seq(Word), q \in Seq(Word), e \in Word :
        p = Parts(cmd) /\ q = Parts(r) /\ e = EncodedStr(s)
  BY PartsFacts, EncodedFacts
<1>5. /\ Len(p) = n /\ \A i \in 1 .. n : p[i] = EncodedStr(cmd[i])
      /\ Len(q) = n + 1 /\ \A i \in 1 .. (n + 1) : q[i] = EncodedStr(r[i])
  BY <1>2, <1>4, PartsFacts
<1>6. PICK a \in Seq(Word) :
        /\ a = Append(p, e) /\ Len(a) = n + 1 /\ a[n + 1] = e
        /\ \A i \in 1 .. n : a[i] = p[i]
  <2>1. PICK a : a = Append(p, e)
    OBVIOUS
  <2>2. /\ a \in Seq(Word) /\ Len(a) = Len(p) + 1 /\ a[Len(p) + 1] = e
        /\ \A i \in 1 .. Len(p) : a[i] = p[i]
    BY ONLY <2>1, AppendProperties, p \in Seq(Word), e \in Word
  <2> QED
    BY <1>5, <2>1, <2>2
<1>7. q = a
  <2>1. ASSUME NEW i \in 1 .. (n + 1)
        PROVE  q[i] = a[i]
    <3>1. CASE i = n + 1
      BY <1>3, <1>4, <1>5, <1>6, <3>1
    <3>2. CASE i # n + 1
      <4>1. i \in 1 .. n
        BY <3>2
      <4> QED
        BY <1>3, <1>5, <1>6, <4>1
    <3> QED
      BY <3>1, <3>2
  <2> QED
    BY <1>5, <1>6, <2>1, SeqEqual
<1>8. FlattenSeq(a) = FlattenSeq(p) \o e
  BY <1>6, FlattenFacts DEF Word
<1> QED
  BY <1>1, <1>4, <1>7, <1>8, PartsFacts

(* The lengths of what is sent: the number of strings before them, and the length before that.  *)
LEMMA BodyFacts ==
  ASSUME NEW cmd \in Seq(Word)
  PROVE  /\ Body(cmd) \in Word /\ Len(Body(cmd)) = FieldLen + Len(Strings(cmd))
         /\ Frame(cmd) \in Word /\ Len(Frame(cmd)) = FieldLen + Len(Body(cmd))
<1>1. PICK f \in Word, s \in Word : f = Field(Len(cmd)) /\ Len(f) = FieldLen /\ s = Strings(cmd)
  BY FieldFacts, PartsFacts DEF Word
<1>2. PICK b \in Word : b = f \o s /\ Len(b) = Len(f) + Len(s)
  BY ConcatProperties DEF Word
<1>3. b = Body(cmd)
  BY <1>1, <1>2 DEF Body
<1>4. EncodedStr(b) \in Word /\ Len(EncodedStr(b)) = FieldLen + Len(b)
  BY EncodedFacts
<1>5. EncodedStr(b) = Frame(cmd)
  BY <1>3 DEF EncodedStr, Frame
<1> QED
  BY <1>1, <1>2, <1>3, <1>4, <1>5

-----------------------------------------------------------------------------
(* What parse_req makes of it.                                                     *)

(* The loop has come to `at' and found the strings out.                                    *)
Reached(at, out) == [at |-> at, out |-> out]

(* A turn of the loop that meets a string which is there takes it.                          *)
LEMMA NextStrTakes ==
  ASSUME NEW buf \in Word, NEW end \in Nat, NEW at \in Nat, NEW out \in Seq(Word), NEW w \in Word,
         Len(w) < Weight[FieldLen], Holds(buf, at, EncodedStr(w)),
         at + Len(EncodedStr(w)) <= end
  PROVE  NextStr(buf, Reached(at, out), end) = Reached(at + Len(EncodedStr(w)), Append(out, w))
<1>1. FieldLen \in Nat
  BY FormatAssumption
<1>2. PICK n \in Nat, f \in Word : n = Len(w) /\ f = Field(n) /\ Len(f) = FieldLen
  BY EncodedFacts
<1>3. Len(EncodedStr(w)) = FieldLen + n
  BY <1>2, EncodedFacts
<1>4. Holds(buf, at, f) /\ Holds(buf, at + FieldLen, w)
  <2>1. EncodedStr(w) = f \o w
    BY <1>2 DEF EncodedStr
  <2>2. Holds(buf, at, f \o w)
    BY <2>1
  <2> QED
    BY ONLY <1>2, <2>2, HoldsBoth, buf \in Word, f \in Word, w \in Word, at \in Nat DEF Word
<1>5. Number(buf, at) = n
  BY <1>2, <1>4, NumberOfField DEF Word
<1> DEFINE read == [i \in 1 .. n |-> ByteAt(buf, at + FieldLen + i - 1)]
<1>6. read = w
  <2>1. ASSUME NEW i \in 1 .. n
        PROVE  ByteAt(buf, at + FieldLen + i - 1) = w[i]
    <3>1. at + FieldLen + i - 1 + 1 = at + FieldLen + i
      BY <1>1
    <3>2. buf[at + FieldLen + i] = w[i] /\ at + FieldLen + i \in DOMAIN buf
      BY <1>1, <1>2, <1>4 DEF Holds, Word
    <3> QED
      BY ONLY <3>1, <3>2 DEF ByteAt
  <2>2. w = [i \in 1 .. n |-> w[i]]
    BY <1>2 DEF Word
  <2> QED
    BY <2>1, <2>2
<1> DEFINE s == [at |-> at, out |-> out]
<1>7. s.at = at /\ s.out = out
  OBVIOUS
<1>8. ~ (end < at + FieldLen) /\ ~ (end < at + FieldLen + n) /\ at + FieldLen + n = at + Len(EncodedStr(w))
  BY <1>1, <1>3
<1> HIDE DEF s, read
<1>9. NextStr(buf, s, end) = [at |-> at + FieldLen + n, out |-> Append(out, read)]
  BY <1>5, <1>7, <1>8 DEF NextStr, read
<1>10. NextStr(buf, s, end) = [at |-> at + Len(EncodedStr(w)), out |-> Append(out, w)]
  BY <1>6, <1>8, <1>9
<1> QED
  BY <1>10 DEF s, Reached

(* A turn refuses, or takes a string that is there.                                        *)
LEMMA NextStrFinds ==
  ASSUME NEW buf \in Word, NEW end \in Nat, NEW s \in Parsed
  PROVE  \/ NextStr(buf, s, end) = Refused
         \/ \E w \in Word :
              /\ NextStr(buf, s, end) = [at |-> s.at + FieldLen + Len(w), out |-> Append(s.out, w)]
              /\ s.at + FieldLen + Len(w) <= end
              /\ end <= Len(buf) => Holds(buf, s.at, EncodedStr(w))
<1>1. FieldLen \in Nat
  BY FormatAssumption
<1>2. PICK at \in Nat, out \in Seq(Word) : s.at = at /\ s.out = out
  BY DEF Parsed, Word
<1>3. PICK n \in Nat : n = Number(buf, at)
  <2>1. FieldLen \in 0 .. FieldLen
    BY <1>1
  <2> QED
    BY <2>1, LowFacts, NumberIsLow DEF Word
<1>4. PICK w : w = [i \in 1 .. n |-> ByteAt(buf, at + FieldLen + i - 1)]
  OBVIOUS
<1>5. w \in Word /\ Len(w) = n
  <2>1. \A i \in 1 .. n : ByteAt(buf, at + FieldLen + i - 1) \in Byte
    BY ByteAtFacts DEF Word
  <2> QED
    BY <1>4, <2>1 DEF Word
<1>6. CASE end < at + FieldLen \/ end < at + FieldLen + n
  BY <1>2, <1>3, <1>6 DEF NextStr
<1>7. CASE ~ (end < at + FieldLen \/ end < at + FieldLen + n)
  <2>1. NextStr(buf, s, end) = [at |-> at + FieldLen + n, out |-> Append(out, w)]
    BY <1>2, <1>3, <1>4, <1>7 DEF NextStr
  <2>2. at + FieldLen + n <= end
    BY <1>1, <1>7
  <2>3. ASSUME end <= Len(buf)
        PROVE  Holds(buf, at, EncodedStr(w))
    <3>1. PICK N \in Nat : N = Len(buf)
      BY DEF Word
    <3>2. at + FieldLen <= N /\ at + FieldLen + n <= N
      BY <1>1, <2>2, <2>3, <3>1
    <3>3. PICK f \in Word : f = Field(n) /\ Len(f) = FieldLen
      BY <1>5, EncodedFacts
    <3>4. Holds(buf, at, f)
      BY <1>3, <3>1, <3>2, <3>3, FieldOfNumber DEF Word
    <3>5. Holds(buf, at + FieldLen, w)
      <4>1. ASSUME NEW i \in 1 .. n
            PROVE  buf[at + FieldLen + i] = w[i]
        <5>1. at + FieldLen + i - 1 + 1 = at + FieldLen + i
          BY <1>1
        <5>2. at + FieldLen + i \in DOMAIN buf
          BY <1>1, <3>1, <3>2 DEF Word
        <5>3. w[i] = ByteAt(buf, at + FieldLen + i - 1)
          BY <1>4
        <5> QED
          BY ONLY <5>1, <5>2, <5>3 DEF ByteAt
      <4> QED
        BY <1>5, <3>1, <3>2, <4>1 DEF Holds
    <3>6. Holds(buf, at, f \o w)
      BY ONLY <1>5, <3>3, <3>4, <3>5, HoldsBoth, buf \in Word, f \in Word, at \in Nat DEF Word
    <3> QED
      BY <1>5, <3>3, <3>6 DEF EncodedStr
  <2> QED
    BY <1>2, <1>5, <2>1, <2>2, <2>3
<1> QED
  BY <1>6, <1>7

(* The states of parse_req's loop.                                                     *)
After(buf, from, end, nstr) ==
  CHOOSE after : after = [i \in 0 .. nstr |->
    IF i = 0 THEN [at |-> from + FieldLen, out |-> <<>>]
    ELSE LET s == after[i - 1] IN IF s = Refused THEN Refused ELSE NextStr(buf, s, end)]

(* Strs is the last of the states.                                                       *)
LEMMA StrsIsAfter ==
  \A buf, from, end, nstr : Strs(buf, from, end, nstr) = After(buf, from, end, nstr)[nstr]
  BY DEF Strs, After

(* a holds the states of the loop's n turns.                                            *)
Turns(a, buf, from, end, n) ==
  /\ a[0] = Reached(from + FieldLen, <<>>)
  /\ \A i \in 0 .. n : a[i] \in Parsed \cup {Refused}
  /\ \A i \in 1 .. n :
       a[i] = IF a[i - 1] = Refused THEN Refused ELSE NextStr(buf, a[i - 1], end)

(* The loop has its states, each made of the one before by a turn.                            *)
LEMMA AfterFacts ==
  ASSUME NEW buf \in Word, NEW from \in Nat, NEW end \in Nat, NEW n \in Nat
  PROVE  Turns(After(buf, from, end, n), buf, from, end, n)
<1> DEFINE first == [at |-> from + FieldLen, out |-> <<>>]
           Turn(x) == IF x = Refused THEN Refused ELSE NextStr(buf, x, end)
           Step(f) == [i \in 0 .. n |-> IF i = 0 THEN first ELSE Turn(f[i - 1])]
           T == Parsed \cup {Refused}
           g == [i \in 1 .. n |-> [x \in T |-> Turn(x)]]
<1>1. After(buf, from, end, n) = CHOOSE f : f = Step(f)
  BY DEF After
<1>2. FieldLen \in Nat
  BY FormatAssumption
<1>3. first \in T
  <2>1. <<>> \in Seq(Seq(Byte)) /\ from + FieldLen \in Nat
    BY <1>2
  <2> QED
    BY <2>1 DEF Parsed
<1>4. ASSUME NEW x \in T
      PROVE  Turn(x) \in T
  <2>1. CASE x = Refused
    BY <2>1
  <2>2. CASE x # Refused /\ x \in Parsed /\ NextStr(buf, x, end) # Refused
    <3>1. PICK w \in Word : NextStr(buf, x, end) = [at |-> x.at + FieldLen + Len(w), out |-> Append(x.out, w)]
      BY <2>2, NextStrFinds
    <3>2. x.at \in Nat /\ x.out \in Seq(Word) /\ Len(w) \in Nat
      BY <2>2 DEF Parsed, Word
    <3>3. Append(x.out, w) \in Seq(Word) /\ x.at + FieldLen + Len(w) \in Nat
      BY <1>2, <3>2, AppendProperties
    <3> QED
      BY <2>2, <3>1, <3>3 DEF Parsed, Word
  <2> QED
    BY <2>1, <2>2
<1> HIDE DEF first, Turn, T
<1>5. PICK f : Loop(f, n, T, first, g)
  <2>1. \A i \in 1 .. n : \A x \in T : g[i][x] \in T
    BY <1>4
  <2> HIDE DEF g
  <2> QED
    BY <1>3, <2>1, LoopExists
<1>6. f \in [0 .. n -> T] /\ f[0] = first
  BY <1>5 DEF Loop
<1>7. ASSUME NEW i \in 1 .. n
      PROVE  f[i] = Turn(f[i - 1])
  <2>1. f[i - 1] \in T
    BY <1>6
  <2>2. f[i] = g[i][f[i - 1]]
    BY <1>5 DEF Loop
  <2> QED
    BY <2>1, <2>2
<1>8. f = Step(f)
  <2>1. ASSUME NEW i \in 0 .. n
        PROVE  f[i] = Step(f)[i]
    <3>1. CASE i = 0
      BY <1>6, <3>1
    <3>2. CASE i # 0
      <4>1. i \in 1 .. n
        BY <3>2
      <4> QED
        BY <1>7, <3>2, <4>1
    <3> QED
      BY <3>1, <3>2
  <2> QED
    BY <1>6, <2>1
<1>9. PICK c : c = After(buf, from, end, n)
  OBVIOUS
<1> HIDE DEF Step
<1>10. c = Step(c)
  BY ONLY <1>1, <1>8, <1>9, Zenon
<1> USE DEF Step
<1> HIDE <1>1
<1>11. c[0] = first
  BY <1>10
<1>12. ASSUME NEW i \in 1 .. n
       PROVE  c[i] = Turn(c[i - 1])
  <2>1. i \in 0 .. n /\ i # 0
    OBVIOUS
  <2> QED
    BY ONLY <1>10, <2>1
<1> HIDE DEF Step, g
<1> DEFINE Bad == {i \in 0 .. n : c[i] \notin T}
<1>13. ASSUME Bad # {}
       PROVE  FALSE
  <2>1. PICK m \in Bad : \A i \in Bad : m <= i
    <3>1. Bad \subseteq Nat
      OBVIOUS
    <3> HIDE DEF Bad
    <3> QED
      BY <1>13, <3>1, LeastOf
  <2>2. m \in 1 .. n /\ c[m] \notin T
    BY <1>3, <1>11, <2>1
  <2>3. m - 1 \in 0 .. n /\ m - 1 \notin Bad
    BY <2>1, <2>2
  <2>4. c[m - 1] \in T
    BY <2>3
  <2> QED
    BY <1>4, <1>12, <2>2, <2>4
<1>14. \A i \in 1 .. n : c[i] = IF c[i - 1] = Refused THEN Refused ELSE NextStr(buf, c[i - 1], end)
  BY <1>12 DEF Turn
<1>15. \A i \in 0 .. n : c[i] \in Parsed \cup {Refused}
  BY <1>13 DEF T
<1>16. c[0] = Reached(from + FieldLen, <<>>)
  BY <1>11 DEF first, Reached
<1> QED
  BY ONLY <1>9, <1>14, <1>15, <1>16 DEF Turns

(* Strings that are there are what the loop comes to.                                      *)
LEMMA StrsTakes ==
  ASSUME NEW buf \in Word, NEW from \in Nat, NEW cmd \in Seq(Word),
         \A i \in 1 .. Len(cmd) : Len(cmd[i]) < Weight[FieldLen],
         Holds(buf, from + FieldLen, Strings(cmd))
  PROVE  LET end == from + FieldLen + Len(Strings(cmd))
         IN  Strs(buf, from, end, Len(cmd)) = Reached(end, cmd)
<1>1. FieldLen \in Nat
  BY FormatAssumption
<1>2. PICK n \in Nat, p \in Seq(Word) : n = Len(cmd) /\ p = Parts(cmd) /\ Len(p) = n
  BY PartsFacts
<1>3. PICK f : Joins(f, p, Byte)
  BY JoinsExist DEF Word
<1>4. FlattenSeq(p) = f[Len(p)]
  BY <1>3, FlattenJoins DEF Word
<1>5. Strings(cmd) = f[n] /\ f[n] \in Word
  BY <1>2, <1>4, PartsFacts
<1>6. PICK start \in Nat, end \in Nat : start = from + FieldLen /\ end = start + Len(Strings(cmd))
  <2>1. Len(Strings(cmd)) \in Nat /\ from + FieldLen \in Nat
    BY <1>1, <1>5, WordLen
  <2>2. from + FieldLen + Len(Strings(cmd)) \in Nat
    BY <2>1
  <2> QED
    BY <2>1, <2>2
<1>7. /\ \A i \in 0 .. n : f[i] \in Word /\ Len(f[i]) <= Len(f[n])
      /\ \A i \in 1 .. n : Len(f[i]) = Len(f[i - 1]) + Len(p[i])
      /\ \A i \in 1 .. n : Holds(buf, start + Len(f[i - 1]), p[i])
  <2>1. /\ \A i \in 0 .. Len(p) : f[i] \in Seq(Byte) /\ Len(f[i]) <= Len(f[Len(p)])
        /\ \A i \in 1 .. Len(p) : Len(f[i]) = Len(f[i - 1]) + Len(p[i])
        /\ Holds(buf, start, f[Len(p)]) =>
             \A i \in 1 .. Len(p) : Holds(buf, start + Len(f[i - 1]), p[i])
    BY <1>3, JoinedParts DEF Word
  <2>2. Holds(buf, start, f[Len(p)])
    BY <1>2, <1>5, <1>6
  <2> QED
    BY <1>2, <2>1, <2>2 DEF Word
<1> DEFINE a == After(buf, from, end, n)
           State(i) == Reached(start + Len(f[i]), SubSeq(cmd, 1, i))
           Bad == {i \in 0 .. n : a[i] # State(i)}
<1>8. ASSUME Bad # {}
      PROVE  FALSE
  <2>1. PICK m \in Bad : \A i \in Bad : m <= i
    <3>1. Bad \subseteq Nat
      OBVIOUS
    <3> HIDE DEF Bad
    <3> QED
      BY <1>8, <3>1, LeastOf
  <2>2. m \in 0 .. n /\ a[m] # State(m)
    BY <2>1
  <2>3. m # 0
    <3>1. f[0] = <<>>
      BY <1>3 DEF Joins
    <3>2. start + Len(f[0]) = from + FieldLen
      BY <1>6, <3>1
    <3>3. SubSeq(cmd, 1, 0) = <<>>
      BY SubSeqEmpty
    <3>4. a[0] = Reached(from + FieldLen, <<>>)
      BY AfterFacts DEF Turns
    <3> QED
      BY <2>2, <3>2, <3>3, <3>4
  <2>4. m \in 1 .. n /\ m - 1 \in 0 .. n
    BY <2>2, <2>3
  <2>5. a[m - 1] = State(m - 1)
    <3>1. m - 1 \notin Bad
      <4> HIDE DEF Bad
      <4> QED
        BY <2>1, <2>4
    <3> QED
      BY <2>4, <3>1
  <2>6. PICK at \in Nat, out \in Seq(Word), w \in Word :
          at = start + Len(f[m - 1]) /\ out = SubSeq(cmd, 1, m - 1) /\ w = cmd[m]
    <3>1. start + Len(f[m - 1]) \in Nat
      BY <1>7, <2>4 DEF Word
    <3>2. SubSeq(cmd, 1, m - 1) \in Seq(Word)
      BY <1>2, <2>4, SubSeqProperties
    <3>3. cmd[m] \in Word
      BY <1>2, <2>4
    <3> QED
      BY <3>1, <3>2, <3>3
  <2>7. p[m] = EncodedStr(w) /\ Len(EncodedStr(w)) \in Nat
    <3>1. p[m] = EncodedStr(cmd[m])
      BY <1>2, <2>4, PartsFacts
    <3>2. EncodedStr(w) \in Word
      BY EncodedFacts
    <3> QED
      BY <2>6, <3>1, <3>2, WordLen
  <2>8. Len(w) < Weight[FieldLen] /\ Holds(buf, at, EncodedStr(w))
    BY <1>2, <1>7, <2>4, <2>6, <2>7
  <2>9. at + Len(EncodedStr(w)) = start + Len(f[m])
    <3>1. PICK x \in Nat, e \in Nat : x = Len(f[m - 1]) /\ e = Len(EncodedStr(w)) /\ Len(f[m]) = x + e
      <4>1. Len(f[m - 1]) \in Nat /\ Len(f[m]) = Len(f[m - 1]) + Len(p[m])
        BY <1>7, <2>4, WordLen
      <4> QED
        BY <2>7, <4>1
    <3>2. start + x + e = start + (x + e)
      OBVIOUS
    <3> QED
      BY ONLY <2>6, <3>1, <3>2
  <2>10. at + Len(EncodedStr(w)) <= end
    <3>1. PICK x \in Nat, y \in Nat : x = Len(f[m]) /\ y = Len(f[n]) /\ x <= y
      <4>1. n \in 0 .. n
        OBVIOUS
      <4> QED
        BY <1>7, <2>2, <4>1, WordLen
    <3>2. start + x <= start + y
      BY <3>1
    <3> QED
      BY ONLY <1>5, <1>6, <2>9, <3>1, <3>2
  <2>11. NextStr(buf, Reached(at, out), end) = Reached(at + Len(EncodedStr(w)), Append(out, w))
    BY ONLY <2>8, <2>10, NextStrTakes, buf \in Word, end \in Nat, at \in Nat, out \in Seq(Word),
            w \in Word
  <2>12. a[m - 1] = Reached(at, out)
    BY ONLY <2>5, <2>6
  <2>13. a[m - 1] # Refused
    <3>1. Reached(at, out) \in Parsed
      BY DEF Reached, Parsed, Word
    <3> QED
      BY <2>12, <3>1, FormatAssumption
  <2>14. a[m] = NextStr(buf, a[m - 1], end)
    <3>1. \A i \in 1 .. n : a[i] = IF a[i - 1] = Refused THEN Refused ELSE NextStr(buf, a[i - 1], end)
      <4>1. Turns(a, buf, from, end, n)
        BY AfterFacts
      <4> HIDE DEF a
      <4> QED
        BY ONLY <4>1 DEF Turns
    <3> HIDE DEF a
    <3> QED
      BY <2>4, <2>13, <3>1
  <2>15. Append(out, w) = SubSeq(cmd, 1, m)
    BY <1>2, <2>4, <2>6, OneMore
  <2>16. a[m] = State(m)
    BY ONLY <2>9, <2>11, <2>12, <2>14, <2>15
  <2> QED
    BY <2>2, <2>16
<1>9. a[n] = State(n)
  <2>1. n \in 0 .. n
    OBVIOUS
  <2>2. n \notin Bad
    <3> HIDE DEF Bad
    <3> QED
      BY <1>8
  <2> HIDE DEF a, State
  <2> QED
    BY <2>1, <2>2
<1>10. SubSeq(cmd, 1, n) = cmd
  BY <1>2, SubSeqFull
<1>11. Strs(buf, from, end, n) = a[n]
  BY StrsIsAfter
<1>12. Strs(buf, from, end, n) = Reached(end, cmd)
  BY ONLY <1>5, <1>6, <1>9, <1>10, <1>11
<1> QED
  BY ONLY <1>2, <1>6, <1>12

(* A body of the strings cmd is taken to cmd, whatever is around it.                          *)
LEMMA TakesBody ==
  ASSUME NEW buf \in Word, NEW from \in Nat, NEW cmd \in Seq(Word),
         Len(cmd) <= MaxStrs, Len(Body(cmd)) <= MaxFrame, Holds(buf, from, Body(cmd))
  PROVE  parse_req(buf, from, Len(Body(cmd))) = cmd
<1>1. FieldLen \in Nat /\ MaxFrame \in Nat /\ MaxFrame < Weight[FieldLen] /\ Weight[FieldLen] \in Nat
  BY FormatAssumption, WeightFacts
<1>2. PICK n \in Nat, f \in Word, s \in Word :
        n = Len(cmd) /\ f = Field(n) /\ Len(f) = FieldLen /\ s = Strings(cmd)
  BY FieldFacts, PartsFacts DEF Word
<1>3. Body(cmd) = f \o s
  BY <1>2 DEF Body
<1>4. Holds(buf, from, f) /\ Holds(buf, from + FieldLen, s)
  <2>1. Holds(buf, from, f \o s)
    BY <1>3
  <2> QED
    BY ONLY <1>2, <2>1, HoldsBoth, buf \in Word, f \in Word, s \in Word, from \in Nat DEF Word
<1>5. PICK len \in Nat, size \in Nat : len = Len(Body(cmd)) /\ size = Len(s) /\ len = FieldLen + size
  BY <1>2, BodyFacts DEF Word
<1>6. n <= size /\ \A i \in 1 .. n : Len(cmd[i]) <= size
  <2>1. PICK p \in Seq(Word) : p = Parts(cmd) /\ Len(p) = n /\ FlattenSeq(p) = s
    BY <1>2, PartsFacts
  <2>2. PICK f2 : Joins(f2, p, Byte)
    BY JoinsExist DEF Word
  <2>3. s = f2[n]
    BY <2>1, <2>2, FlattenJoins DEF Word
  <2>4. /\ \A i \in 0 .. n : f2[i] \in Word /\ Len(f2[i]) <= Len(f2[n])
        /\ \A i \in 1 .. n : Len(f2[i]) = Len(f2[i - 1]) + Len(p[i])
    BY <2>1, <2>2, JoinedParts, <<>> \in Seq(Byte) DEF Word
  <2>5. ASSUME NEW i \in 1 .. n
        PROVE  Len(cmd[i]) \in Nat /\ Len(p[i]) = FieldLen + Len(cmd[i])
    <3>1. PICK w \in Word : w = cmd[i] /\ p[i] = EncodedStr(w)
      BY <1>2, <2>1, PartsFacts
    <3>2. Len(w) \in Nat /\ Len(EncodedStr(w)) = FieldLen + Len(w)
      BY EncodedFacts, WordLen
    <3> QED
      BY ONLY <3>1, <3>2
  <2>6. n <= size
    <3>1. FieldLen \in Nat \ {0}
      BY FormatAssumption
    <3>2. ASSUME NEW i \in 1 .. n
          PROVE  1 <= Len(p[i])
      <4>1. PICK k \in Nat, z \in Nat : k = FieldLen /\ k # 0 /\ z = Len(cmd[i])
        BY <2>5, <3>1
      <4>2. 1 <= k + z
        BY <4>1
      <4> QED
        BY ONLY <2>5, <4>1, <4>2
    <3>3. n \in 0 .. n
      OBVIOUS
    <3>4. n <= Len(f2[n])
      BY ONLY <2>1, <2>2, <3>2, <3>3, JoinedLong, p \in Seq(Word)
    <3> QED
      BY <1>5, <2>3, <3>4
  <2>7. ASSUME NEW i \in 1 .. n
        PROVE  Len(cmd[i]) <= size
    <3>1. i \in 0 .. n /\ i - 1 \in 0 .. n
      OBVIOUS
    <3>2. PICK x \in Nat, y \in Nat, z \in Nat :
            x = Len(f2[i - 1]) /\ y = Len(f2[i]) /\ z = Len(cmd[i])
      BY <2>4, <2>5, <3>1, WordLen
    <3>3. y = x + (FieldLen + z)
      BY ONLY <2>4, <2>5, <3>1, <3>2, i \in 1 .. n
    <3>4. y <= size
      BY ONLY <1>5, <2>3, <2>4, <3>1, <3>2
    <3>5. z <= size
      BY ONLY <1>1, <3>3, <3>4, x \in Nat, y \in Nat, z \in Nat, size \in Nat
    <3> QED
      BY <3>2, <3>5
  <2> QED
    BY <2>6, <2>7
<1>7. n < Weight[FieldLen] /\ \A i \in 1 .. n : Len(cmd[i]) < Weight[FieldLen]
  <2>1. size < Weight[FieldLen]
    BY <1>1, <1>5
  <2>2. \A i \in 1 .. n : Len(cmd[i]) \in Nat
    BY <1>2 DEF Word
  <2> QED
    BY <1>1, <1>6, <2>1, <2>2
<1>8. Number(buf, from) = n
  BY <1>2, <1>4, <1>7, NumberOfField DEF Word
<1>9. Strs(buf, from, from + len, n) = Reached(from + len, cmd)
  <2>1. Strs(buf, from, from + FieldLen + size, n) = Reached(from + FieldLen + size, cmd)
    BY <1>2, <1>4, <1>5, <1>7, StrsTakes
  <2>2. from + FieldLen + size = from + len
    BY <1>1, <1>5
  <2> QED
    BY <2>1, <2>2
<1> DEFINE last == Reached(from + len, cmd)
<1>10. last # Refused /\ last.at = from + len /\ last.out = cmd
  <2>1. last \in Parsed
    BY DEF Reached, Parsed, Word
  <2> QED
    BY <2>1, FormatAssumption DEF Reached
<1> HIDE DEF last
<1>11. Strs(buf, from, from + len, n) = last
  BY <1>9 DEF last
<1>12. ~ (len < FieldLen) /\ ~ (n > MaxStrs)
  BY <1>1, <1>2, <1>5, FormatAssumption
<1>13. parse_req(buf, from, len) = cmd
  BY <1>8, <1>10, <1>11, <1>12 DEF parse_req
<1> QED
  BY <1>5, <1>13

(* The strings cmd lie in buf from start on, and the loop has found them.                     *)
Reads(s, buf, start, cmd) ==
  s = Reached(start + Len(Strings(cmd)), cmd) /\ Holds(buf, start, Strings(cmd))

(* No strings take no bytes.                                                         *)
LEMMA NoStrings == <<>> \in Seq(Word) /\ Strings(<<>>) = <<>>
<1>1. PICK c \in Seq(Word) : c = <<>> /\ Len(c) = 0
  <2>1. <<>> \in Seq(Word) /\ Len(<<>>) = 0
    OBVIOUS
  <2> QED
    BY <2>1
<1>2. PICK p \in Seq(Word) : p = Parts(c) /\ Len(p) = 0
  BY <1>1, PartsFacts
<1>3. p = <<>>
  BY <1>2
<1> QED
  BY <1>1, <1>2, <1>3, PartsFacts, FlattenFacts

(* A turn that does not refuse has found one string more.                                   *)
LEMMA OneMoreString ==
  ASSUME NEW buf \in Word, NEW start \in Nat, NEW end \in Nat, end <= Len(buf),
         NEW cmd \in Seq(Word), NEW s, Reads(s, buf, start, cmd), NextStr(buf, s, end) # Refused
  PROVE  \E w \in Word : Reads(NextStr(buf, s, end), buf, start, Append(cmd, w))
<1>1. PICK t \in Word : t = Strings(cmd)
  BY PartsFacts
<1>2. PICK at \in Nat : at = start + Len(t)
  <2>1. Len(t) \in Nat
    BY WordLen
  <2> QED
    BY <2>1
<1>3. s = Reached(at, cmd) /\ Holds(buf, start, t)
  BY ONLY <1>1, <1>2, Reads(s, buf, start, cmd) DEF Reads
<1>4. s \in Parsed /\ s.at = at /\ s.out = cmd
  BY <1>3 DEF Reached, Parsed, Word
<1>5. PICK w \in Word :
        /\ NextStr(buf, s, end) = [at |-> s.at + FieldLen + Len(w), out |-> Append(s.out, w)]
        /\ Holds(buf, s.at, EncodedStr(w))
  BY ONLY <1>4, NextStrFinds, buf \in Word, end \in Nat, end <= Len(buf),
          NextStr(buf, s, end) # Refused
<1>6. PICK e \in Word : e = EncodedStr(w) /\ Len(e) = FieldLen + Len(w)
  BY EncodedFacts
<1>7. PICK u \in Word : u = t \o e /\ Len(u) = Len(t) + Len(e)
  BY ConcatProperties DEF Word
<1>8. Strings(Append(cmd, w)) = u
  BY <1>1, <1>6, <1>7, StringsGrow
<1>9. Holds(buf, start, u)
  <2>1. Holds(buf, start, t) /\ Holds(buf, start + Len(t), e)
    BY <1>2, <1>3, <1>4, <1>5, <1>6
  <2> QED
    BY ONLY <1>7, <2>1, HoldsBoth, buf \in Word, t \in Word, e \in Word, start \in Nat DEF Word
<1>10. s.at + FieldLen + Len(w) = start + Len(u)
  <2>1. PICK x \in Nat, k \in Nat, z \in Nat : x = Len(t) /\ k = FieldLen /\ z = Len(w)
    BY WordLen, FormatAssumption
  <2>2. start + x + k + z = start + (x + (k + z))
    OBVIOUS
  <2>3. s.at = start + x /\ Len(u) = x + (k + z)
    BY ONLY <1>2, <1>4, <1>6, <1>7, <2>1
  <2> QED
    BY ONLY <2>1, <2>2, <2>3
<1>11. NextStr(buf, s, end) = Reached(start + Len(u), Append(cmd, w))
  BY ONLY <1>4, <1>5, <1>10 DEF Reached
<1>12. Reads(NextStr(buf, s, end), buf, start, Append(cmd, w))
  BY ONLY <1>8, <1>9, <1>11 DEF Reads
<1> QED
  BY <1>12

(* What the loop takes are strings that are there.                                        *)
LEMMA StrsFinds ==
  ASSUME NEW buf \in Word, NEW from \in Nat, NEW end \in Nat, NEW n \in Nat,
         from + FieldLen <= end, end <= Len(buf), Strs(buf, from, end, n) # Refused
  PROVE  \E cmd \in Seq(Word) :
           Len(cmd) = n /\ Reads(Strs(buf, from, end, n), buf, from + FieldLen, cmd)
<1>1. FieldLen \in Nat
  BY FormatAssumption
<1>2. PICK start \in Nat : start = from + FieldLen /\ start <= Len(buf)
  <2>1. from + FieldLen \in Nat /\ Len(buf) \in Nat
    BY <1>1, WordLen
  <2> QED
    BY <1>1, <2>1
<1>3. PICK a : a = After(buf, from, end, n)
  OBVIOUS
<1>4. Turns(a, buf, from, end, n)
  BY <1>3, AfterFacts
<1> DEFINE Good(i) == a[i] # Refused => \E cmd \in Seq(Word) : Len(cmd) = i /\ Reads(a[i], buf, start, cmd)
           Bad == {i \in 0 .. n : ~ Good(i)}
<1>5. ASSUME Bad # {}
      PROVE  FALSE
  <2>1. PICK m \in Bad : \A i \in Bad : m <= i
    <3>1. Bad \subseteq Nat
      OBVIOUS
    <3> HIDE DEF Bad
    <3> QED
      BY <1>5, <3>1, LeastOf
  <2>2. m \in 0 .. n /\ ~ Good(m)
    BY <2>1
  <2>3. m # 0
    <3>1. PICK c \in Seq(Word), e \in Word : c = <<>> /\ Len(c) = 0 /\ e = Strings(c) /\ Len(e) = 0 /\ e = <<>>
      BY NoStrings, PartsFacts
    <3>2. Holds(buf, start, e)
      BY <1>2, <3>1 DEF Holds
    <3>3. start + Len(Strings(c)) = start
      BY <3>1
    <3>4. a[0] = Reached(start, c)
      BY ONLY <1>2, <1>4, <3>1 DEF Turns
    <3>5. Reads(a[0], buf, start, c)
      BY ONLY <3>1, <3>2, <3>3, <3>4 DEF Reads
    <3>6. Good(0)
      BY <3>1, <3>5
    <3> HIDE DEF Good
    <3> QED
      BY <2>2, <3>6
  <2>4. m \in 1 .. n /\ m - 1 \in 0 .. n
    BY <2>2, <2>3
  <2>5. Good(m - 1)
    <3>1. m - 1 \notin Bad
      <4> HIDE DEF Bad
      <4> QED
        BY <2>1, <2>4
    <3> HIDE DEF Good
    <3> QED
      BY <2>4, <3>1
  <2>6. a[m] = IF a[m - 1] = Refused THEN Refused ELSE NextStr(buf, a[m - 1], end)
    BY ONLY <1>4, <2>4 DEF Turns
  <2>7. ASSUME a[m] # Refused
        PROVE  \E cmd \in Seq(Word) : Len(cmd) = m /\ Reads(a[m], buf, start, cmd)
    <3>1. a[m - 1] # Refused /\ a[m] = NextStr(buf, a[m - 1], end)
      BY ONLY <2>6, <2>7
    <3>2. PICK c \in Seq(Word) : Len(c) = m - 1 /\ Reads(a[m - 1], buf, start, c)
      BY <2>5, <3>1
    <3>3. PICK s : s = a[m - 1]
      OBVIOUS
    <3>4. Reads(s, buf, start, c) /\ NextStr(buf, s, end) # Refused
      BY ONLY <2>7, <3>1, <3>2, <3>3
    <3>5. PICK w \in Word : Reads(NextStr(buf, s, end), buf, start, Append(c, w))
      BY ONLY <3>4, OneMoreString, buf \in Word, start \in Nat, end \in Nat, end <= Len(buf), c \in Seq(Word)
    <3>6. PICK d : d = Append(c, w)
      OBVIOUS
    <3>7. d \in Seq(Word) /\ Len(d) = Len(c) + 1
      BY ONLY <3>6, AppendProperties, c \in Seq(Word), w \in Word
    <3>8. Len(d) = m
      BY <2>4, <3>2, <3>7
    <3>9. Reads(a[m], buf, start, d)
      BY ONLY <3>1, <3>3, <3>5, <3>6
    <3> QED
      BY <3>7, <3>8, <3>9
  <2> QED
    BY <2>2, <2>7
<1>6. Good(n)
  <2>1. n \in 0 .. n
    OBVIOUS
  <2>2. n \notin Bad
    <3> HIDE DEF Bad
    <3> QED
      BY <1>5
  <2> HIDE DEF Good
  <2> QED
    BY <2>1, <2>2
<1>7. Strs(buf, from, end, n) = a[n]
  BY <1>3, StrsIsAfter
<1> QED
  BY <1>2, <1>6, <1>7

(* What parse_req takes is the body of what it is taken to.                                  *)
LEMMA FindsBody ==
  ASSUME NEW buf \in Word, NEW from \in Nat, NEW len \in Nat, from + len <= Len(buf),
         parse_req(buf, from, len) # Refused
  PROVE  LET cmd == parse_req(buf, from, len)
         IN  cmd \in Seq(Word) /\ Len(Body(cmd)) = len /\ Holds(buf, from, Body(cmd))
<1>1. FieldLen \in Nat
  BY FormatAssumption
<1>2. PICK end \in Nat : end = from + len /\ end <= Len(buf)
  <2>1. from + len \in Nat
    OBVIOUS
  <2> QED
    BY <2>1
<1>3. PICK n, s : n = Number(buf, from) /\ s = Strs(buf, from, end, n)
  OBVIOUS
<1>4. /\ ~ (len < FieldLen \/ n > MaxStrs) /\ s # Refused /\ ~ (s.at # end)
      /\ parse_req(buf, from, len) = s.out
  BY ONLY <1>2, <1>3, parse_req(buf, from, len) # Refused DEF parse_req
<1>5. from + FieldLen <= end /\ from + FieldLen <= Len(buf)
  <2>1. Len(buf) \in Nat
    BY WordLen
  <2> QED
    BY <1>1, <1>2, <1>4, <2>1
<1>6. n \in Nat /\ n < Weight[FieldLen] /\ Holds(buf, from, Field(n))
  BY <1>3, <1>5, FieldOfNumber DEF Word
<1>7. PICK cmd \in Seq(Word) : Len(cmd) = n /\ Reads(s, buf, from + FieldLen, cmd)
  <2>1. Strs(buf, from, end, n) # Refused
    BY <1>3, <1>4
  <2> QED
    BY ONLY <1>2, <1>3, <1>5, <1>6, <2>1, StrsFinds, buf \in Word, from \in Nat, end \in Nat
<1>8. s = Reached(from + FieldLen + Len(Strings(cmd)), cmd) /\ Holds(buf, from + FieldLen, Strings(cmd))
  BY ONLY <1>7 DEF Reads
<1>9. s.at = from + FieldLen + Len(Strings(cmd)) /\ s.out = cmd
  BY ONLY <1>8 DEF Reached
<1>10. PICK f \in Word, t \in Word : f = Field(n) /\ Len(f) = FieldLen /\ t = Strings(cmd)
  BY <1>6, FieldFacts, PartsFacts DEF Word
<1>11. Body(cmd) = f \o t /\ Len(Body(cmd)) = FieldLen + Len(t)
  BY <1>7, <1>10, BodyFacts DEF Body
<1>12. Holds(buf, from, f \o t)
  <2>1. Holds(buf, from, f) /\ Holds(buf, from + Len(f), t)
    BY ONLY <1>6, <1>8, <1>10
  <2> QED
    BY ONLY <1>10, <2>1, HoldsBoth, buf \in Word, f \in Word, t \in Word, from \in Nat DEF Word
<1>13. Len(Body(cmd)) = len
  <2>1. Len(t) \in Nat
    BY WordLen
  <2>2. from + FieldLen + Len(t) = from + len
    BY <1>2, <1>4, <1>9, <1>10
  <2>3. FieldLen + Len(t) = len
    BY ONLY <1>1, <2>1, <2>2, from \in Nat, len \in Nat
  <2> QED
    BY <1>11, <2>3
<1> QED
  BY <1>4, <1>9, <1>11, <1>12, <1>13

(* The commands within the limits are lists of strings of bytes.                             *)
LEMMA CommandFacts ==
  \A cmd \in Command : cmd \in Seq(Word) /\ Len(cmd) <= MaxStrs /\ Len(Body(cmd)) <= MaxFrame
<1>1. ASSUME NEW S, NEW n \in Nat, NEW s \in BoundedSeq(S, n)
      PROVE  s \in Seq(S) /\ Len(s) <= n
  <2>1. PICK m \in 0 .. n : s \in [1 .. m -> S]
    BY DEF BoundedSeq, SeqOf
  <2> QED
    BY <2>1
<1>2. ASSUME NEW cmd \in Command
      PROVE  cmd \in Seq(Word) /\ Len(cmd) <= MaxStrs /\ Len(Body(cmd)) <= MaxFrame
  <2> DEFINE short == BoundedSeq(Byte, MaxFrame - 2 * FieldLen)
  <2>1. cmd \in BoundedSeq(short, MaxStrs) /\ Len(Body(cmd)) <= MaxFrame
    BY DEF Command
  <2>2. short \subseteq Word
    BY DEF BoundedSeq, SeqOf, Word
  <2> HIDE DEF short
  <2>3. MaxStrs \in Nat
    BY FormatAssumption
  <2>4. cmd \in Seq(short) /\ Len(cmd) <= MaxStrs
    BY <1>1, <2>1, <2>3
  <2>5. cmd \in Seq(Word)
    BY <2>2, <2>4
  <2> QED
    BY <2>1, <2>4, <2>5
<1> QED
  BY <1>2

(* parse_req inverts send_req, for any base, width of a length and limits, and whatever lies   *)
(* behind the body in the buffer.                                                      *)
LEMMA ParseInvertsAlways == ParseInverts
<1>1. ASSUME NEW behind \in Behind, NEW body \in Word
      PROVE  \E buf \in Word : /\ buf = body \o behind /\ 0 + Len(body) <= Len(buf)
                               /\ Len(body) \in Nat /\ \A i \in 1 .. Len(body) : buf[i] = body[i]
  <2>1. behind \in Word
    BY FormatAssumption DEF Word
  <2>2. PICK buf \in Word : buf = body \o behind
    BY <2>1, ConcatProperties DEF Word
  <2>3. Len(buf) = Len(body) + Len(behind) /\ \A i \in 1 .. Len(body) : buf[i] = body[i]
    BY <2>1, <2>2, ConcatProperties DEF Word
  <2>4. PICK x \in Nat, y \in Nat : x = Len(body) /\ y = Len(behind)
    BY <2>1, WordLen
  <2>5. 0 + x <= x + y
    OBVIOUS
  <2> QED
    BY <2>2, <2>3, <2>4, <2>5
<1>2. ASSUME NEW behind \in Behind, NEW body \in BoundedSeq(Byte, MaxFrame),
             parse_req(body \o behind, 0, Len(body)) # Refused
      PROVE  Body(parse_req(body \o behind, 0, Len(body))) = body
  <2>1. body \in Word
    BY DEF BoundedSeq, SeqOf, Word
  <2>2. PICK buf \in Word :
          /\ buf = body \o behind /\ 0 + Len(body) <= Len(buf)
          /\ Len(body) \in Nat /\ \A i \in 1 .. Len(body) : buf[i] = body[i]
    BY <1>1, <2>1
  <2>3. PICK len \in Nat : len = Len(body)
    BY <2>2
  <2>4. PICK cmd : cmd = parse_req(buf, 0, len)
    OBVIOUS
  <2>5. cmd \in Seq(Word) /\ Len(Body(cmd)) = len /\ Holds(buf, 0, Body(cmd))
    <3>1. 0 + len <= Len(buf) /\ parse_req(buf, 0, len) # Refused
      BY <1>2, <2>2, <2>3
    <3> QED
      BY ONLY <2>4, <3>1, FindsBody, buf \in Word, len \in Nat, 0 \in Nat
  <2>6. PICK b \in Word : b = Body(cmd) /\ Len(b) = len
    BY <2>5, BodyFacts
  <2>7. \A i \in 1 .. len : b[i] = body[i]
    <3>1. \A i \in 1 .. len : 0 + i = i
      OBVIOUS
    <3> QED
      BY <2>2, <2>3, <2>5, <2>6, <3>1 DEF Holds
  <2>8. b = body
    BY ONLY <2>1, <2>3, <2>6, <2>7, SeqEqual DEF Word
  <2> QED
    BY <2>2, <2>3, <2>4, <2>6, <2>8
<1>3. ASSUME NEW behind \in Behind, NEW cmd \in Command
      PROVE  parse_req(Body(cmd) \o behind, 0, Len(Body(cmd))) = cmd
  <2>1. cmd \in Seq(Word) /\ Len(cmd) <= MaxStrs /\ Len(Body(cmd)) <= MaxFrame
    BY CommandFacts
  <2>2. PICK b \in Word : b = Body(cmd)
    BY <2>1, BodyFacts
  <2>3. PICK buf \in Word :
          /\ buf = b \o behind /\ 0 + Len(b) <= Len(buf)
          /\ Len(b) \in Nat /\ \A i \in 1 .. Len(b) : buf[i] = b[i]
    BY <1>1
  <2>4. Holds(buf, 0, b)
    <3>1. \A i \in 1 .. Len(b) : 0 + i = i
      BY <2>3
    <3> QED
      BY <2>3, <3>1 DEF Holds
  <2>5. parse_req(buf, 0, Len(Body(cmd))) = cmd
    <3>1. Holds(buf, 0, Body(cmd))
      BY <2>2, <2>4
    <3> QED
      BY ONLY <2>1, <3>1, TakesBody, buf \in Word, 0 \in Nat
  <2> QED
    BY <2>2, <2>3, <2>5
<1> QED
  BY <1>2, <1>3 DEF ParseInverts

-----------------------------------------------------------------------------
(* What try_request makes of a stream.                                              *)

(* A connection that has consumed in_start bytes and served the commands in `served'.         *)
Conn(in_start, served, state) == [in_start |-> in_start, served |-> served, state |-> state]

(* A whole request is served.                                                        *)
LEMMA TryServes ==
  ASSUME NEW buf \in Word, NEW at \in Nat, NEW out, NEW cmd \in Command,
         Holds(buf, at, Frame(cmd))
  PROVE  try_request(buf, Conn(at, out, "serving")) =
           Conn(at + Len(Frame(cmd)), Append(out, cmd), "serving")
<1>1. cmd \in Seq(Word) /\ Len(cmd) <= MaxStrs /\ Len(Body(cmd)) <= MaxFrame
  BY CommandFacts
<1>2. PICK b \in Word, len \in Nat : b = Body(cmd) /\ len = Len(b)
  BY <1>1, BodyFacts, WordLen
<1>3. PICK f \in Word : f = Field(len) /\ Len(f) = FieldLen
  BY FieldFacts DEF Word
<1>4. FieldLen \in Nat /\ MaxFrame \in Nat /\ Weight[FieldLen] \in Nat /\ MaxFrame < Weight[FieldLen]
  BY FormatAssumption, WeightFacts
<1>5. Frame(cmd) = f \o b /\ Len(Frame(cmd)) = FieldLen + len
  BY <1>1, <1>2, <1>3, BodyFacts DEF Frame
<1>6. Holds(buf, at, f) /\ Holds(buf, at + FieldLen, b)
  <2>1. Holds(buf, at, f \o b)
    BY <1>5
  <2> QED
    BY ONLY <1>3, <2>1, HoldsBoth, buf \in Word, f \in Word, b \in Word, at \in Nat DEF Word
<1>7. len <= MaxFrame /\ len < Weight[FieldLen]
  BY <1>1, <1>2, <1>4
<1>8. Number(buf, at) = len
  BY <1>3, <1>6, <1>7, NumberOfField DEF Word
<1>9. PICK from \in Nat : from = at + FieldLen
  BY <1>4
<1>10. parse_req(buf, from, len) = cmd
  <2>1. Holds(buf, from, Body(cmd))
    BY <1>2, <1>6, <1>9
  <2>2. parse_req(buf, from, Len(Body(cmd))) = cmd
    BY ONLY <1>1, <2>1, TakesBody, buf \in Word, from \in Nat
  <2> QED
    BY <1>2, <2>2
<1>11. cmd # Refused
  BY <1>1, FormatAssumption DEF Word
<1>12. PICK size \in Nat : size = Len(buf) /\ at + FieldLen + len <= size
  <2>1. Len(buf) \in Nat
    BY WordLen
  <2>2. at + FieldLen + len <= Len(buf)
    BY <1>2, <1>6 DEF Holds
  <2> QED
    BY <2>1, <2>2
<1>13. ~ (size - at < FieldLen) /\ ~ (size - at < FieldLen + len) /\ ~ (len > MaxFrame)
  BY <1>4, <1>7, <1>12
<1>14. PICK c : c = Conn(at, out, "serving")
  OBVIOUS
<1>15. c.in_start = at /\ c.served = out
  BY ONLY <1>14 DEF Conn
<1>16. try_request(buf, c) = [c EXCEPT !.in_start = @ + FieldLen + len, !.served = Append(@, cmd)]
  BY ONLY <1>8, <1>9, <1>10, <1>11, <1>12, <1>13, <1>15 DEF try_request
<1>17. [c EXCEPT !.in_start = @ + FieldLen + len, !.served = Append(@, cmd)] =
         Conn(at + FieldLen + len, Append(out, cmd), "serving")
  <2>1. PICK x, y : x = at + FieldLen + len /\ y = Append(out, cmd)
    OBVIOUS
  <2>2. c = [in_start |-> at, served |-> out, state |-> "serving"]
    BY ONLY <1>14 DEF Conn
  <2>3. [c EXCEPT !.in_start = x, !.served = y] = [in_start |-> x, served |-> y, state |-> "serving"]
    <3>1. PICK d : d = [c EXCEPT !.in_start = x]
      OBVIOUS
    <3>2. d = [in_start |-> x, served |-> out, state |-> "serving"]
      BY ONLY <2>2, <3>1
    <3>3. [d EXCEPT !.served = y] = [in_start |-> x, served |-> y, state |-> "serving"]
      BY ONLY <3>2
    <3> QED
      BY ONLY <3>1, <3>3
  <2>4. [c EXCEPT !.in_start = @ + FieldLen + len, !.served = Append(@, cmd)] =
          [c EXCEPT !.in_start = x, !.served = y]
    BY ONLY <1>15, <2>1
  <2> QED
    BY ONLY <2>1, <2>3, <2>4 DEF Conn
<1>18. at + FieldLen + len = at + Len(Frame(cmd))
  BY <1>4, <1>5
<1> QED
  BY ONLY <1>14, <1>16, <1>17, <1>18

(* A request that is not all there is waited for: its length is, or may be, but not its body.   *)
LEMMA TryWaits ==
  ASSUME NEW buf \in Word, NEW at \in Nat, NEW out, NEW len \in Nat,
         Len(buf) < at + FieldLen \/ Holds(buf, at, Field(len)),
         len <= MaxFrame, Len(buf) < at + FieldLen + len
  PROVE  try_request(buf, Conn(at, out, "serving")) = Conn(at, out, "wait")
<1>1. FieldLen \in Nat /\ MaxFrame \in Nat /\ Weight[FieldLen] \in Nat /\ MaxFrame < Weight[FieldLen]
  BY FormatAssumption, WeightFacts
<1>2. PICK size \in Nat : size = Len(buf)
  BY WordLen
<1>3. size - at < FieldLen \/ (Number(buf, at) <= MaxFrame /\ size - at < FieldLen + Number(buf, at))
  <2>1. CASE size < at + FieldLen
    BY <1>1, <2>1
  <2>2. CASE ~ (size < at + FieldLen)
    <3>1. Holds(buf, at, Field(len)) /\ len < Weight[FieldLen]
      BY <1>1, <1>2, <2>2
    <3>2. Number(buf, at) = len
      BY <3>1, NumberOfField DEF Word
    <3> QED
      BY <1>1, <1>2, <3>2
  <2> QED
    BY <2>1, <2>2
<1>4. PICK c : c = Conn(at, out, "serving")
  OBVIOUS
<1>5. c.in_start = at
  BY ONLY <1>4 DEF Conn
<1>6. try_request(buf, c) = [c EXCEPT !.state = "wait"]
  BY ONLY <1>2, <1>3, <1>5 DEF try_request
<1>7. [c EXCEPT !.state = "wait"] = Conn(at, out, "wait")
  BY ONLY <1>4 DEF Conn
<1> QED
  BY ONLY <1>4, <1>6, <1>7

(* A turn of handle_read's loop.                                                      *)
Round(buf, c) == IF c.state = "serving" THEN try_request(buf, c) ELSE c

(* The states of handle_read's loop.                                                   *)
Rounds(buf) ==
  CHOOSE turn : turn = [i \in 0 .. Len(buf) + 1 |->
    IF i = 0 THEN [in_start |-> 0, served |-> <<>>, state |-> "serving"]
    ELSE LET c == turn[i - 1] IN IF c.state = "serving" THEN try_request(buf, c) ELSE c]

(* Served is the last of the states.                                                     *)
LEMMA ServedIsRounds == \A buf : Served(buf) = Rounds(buf)[Len(buf) + 1]
  BY DEF Served, Rounds

(* States that follow from each other are those of the loop.                                *)
LEMMA ServedIs ==
  ASSUME NEW buf \in Word, NEW N \in Nat, N = Len(buf) + 1, NEW h,
         h = [i \in 0 .. N |-> h[i]], h[0] = Conn(0, <<>>, "serving"),
         \A i \in 1 .. N : h[i] = Round(buf, h[i - 1])
  PROVE  Served(buf) = h[N]
<1> DEFINE first == [in_start |-> 0, served |-> <<>>, state |-> "serving"]
           Step(f) == [i \in 0 .. N |-> IF i = 0 THEN first ELSE Round(buf, f[i - 1])]
<1>1. Rounds(buf) = CHOOSE f : f = Step(f)
  BY DEF Rounds, Round
<1>2. h[0] = first
  BY DEF Conn
<1> HIDE DEF first
<1>3. h = Step(h)
  <2>1. ASSUME NEW i \in 0 .. N
        PROVE  h[i] = IF i = 0 THEN first ELSE Round(buf, h[i - 1])
    <3>1. CASE i = 0
      BY <1>2, <3>1
    <3>2. CASE i # 0
      <4>1. i \in 1 .. N
        BY <3>2
      <4> QED
        BY <3>2, <4>1
    <3> QED
      BY <3>1, <3>2
  <2>2. h = [i \in 0 .. N |-> h[i]]
    OBVIOUS
  <2> QED
    BY ONLY <2>1, <2>2
<1>4. PICK c : c = Rounds(buf)
  OBVIOUS
<1> HIDE DEF Step
<1>5. c = Step(c)
  BY ONLY <1>1, <1>3, <1>4, Zenon
<1> USE DEF Step
<1> HIDE <1>1
<1>6. c[0] = first
  BY ONLY <1>5, N \in Nat
<1>7. ASSUME NEW i \in 1 .. N
      PROVE  c[i] = Round(buf, c[i - 1])
  <2>1. i \in 0 .. N /\ i # 0
    OBVIOUS
  <2> QED
    BY ONLY <1>5, <2>1
<1> HIDE DEF Step
<1> DEFINE Bad == {i \in 0 .. N : c[i] # h[i]}
<1>8. ASSUME Bad # {}
      PROVE  FALSE
  <2>1. PICK m \in Bad : \A i \in Bad : m <= i
    <3>1. Bad \subseteq Nat
      OBVIOUS
    <3> HIDE DEF Bad
    <3> QED
      BY <1>8, <3>1, LeastOf
  <2>2. m \in 0 .. N /\ c[m] # h[m]
    BY <2>1
  <2>3. m \in 1 .. N
    BY <1>2, <1>6, <2>2
  <2>4. m - 1 \in 0 .. N /\ m - 1 \notin Bad
    <3> HIDE DEF Bad
    <3> QED
      BY <2>1, <2>3
  <2>5. c[m - 1] = h[m - 1]
    BY <2>4
  <2>6. c[m] = Round(buf, c[m - 1]) /\ h[m] = Round(buf, h[m - 1])
    BY <1>7, <2>3
  <2> QED
    BY ONLY <2>2, <2>5, <2>6
<1>9. c[N] = h[N]
  <2>1. N \in 0 .. N
    OBVIOUS
  <2>2. N \notin Bad
    <3> HIDE DEF Bad
    <3> QED
      BY <1>8
  <2> QED
    BY <2>1, <2>2
<1>10. Served(buf) = c[N]
  BY <1>4, ServedIsRounds
<1> QED
  BY ONLY <1>9, <1>10

-----------------------------------------------------------------------------
(* Streams, and where they are cut.                                                  *)

(* The requests Stream joins.                                                         *)
Frames(cmds) == [i \in 1 .. Len(cmds) |-> Frame(cmds[i])]

(* Every request is a string of bytes and has a length.                                   *)
LEMMA FramesFacts ==
  ASSUME NEW cmds \in Seq(Command)
  PROVE  /\ Frames(cmds) \in Seq(Word) /\ Len(Frames(cmds)) = Len(cmds)
         /\ \A i \in 1 .. Len(cmds) : /\ cmds[i] \in Command /\ Frames(cmds)[i] = Frame(cmds[i])
                                      /\ 1 <= Len(Frames(cmds)[i])
         /\ Stream(cmds) = FlattenSeq(Frames(cmds))
<1>1. PICK n \in Nat : n = Len(cmds)
  OBVIOUS
<1>2. ASSUME NEW i \in 1 .. n
      PROVE  cmds[i] \in Command /\ Frame(cmds[i]) \in Word /\ 1 <= Len(Frame(cmds[i]))
  <2>1. PICK cmd \in Command : cmd = cmds[i]
    BY <1>1
  <2>2. cmd \in Seq(Word)
    BY CommandFacts
  <2>3. PICK k \in Nat, x \in Nat : k = FieldLen /\ k # 0 /\ x = Len(Body(cmd))
    BY <2>2, BodyFacts, WordLen, FormatAssumption
  <2>4. Frame(cmd) \in Word /\ Len(Frame(cmd)) = k + x
    BY <2>2, <2>3, BodyFacts
  <2>5. 1 <= k + x
    BY <2>3
  <2> QED
    BY ONLY <2>1, <2>4, <2>5
<1>3. PICK p : p = Frames(cmds)
  OBVIOUS
<1>4. p = [i \in 1 .. n |-> Frame(cmds[i])]
  BY <1>1, <1>3 DEF Frames
<1>5. p \in Seq(Word) /\ Len(p) = n
  BY <1>2, <1>4
<1>6. Stream(cmds) = FlattenSeq(p)
  BY <1>3 DEF Stream, Frames
<1> QED
  BY <1>1, <1>2, <1>3, <1>4, <1>5, <1>6

(* The first parts are joined to the beginning of what all are joined to.                     *)
LEMMA PrefixJoins ==
  ASSUME NEW S, NEW p \in Seq(Seq(S)), NEW f, Joins(f, p, S), NEW n \in 0 .. Len(p)
  PROVE  \E h : /\ Joins(h, SubSeq(p, 1, n), S) /\ \A i \in 0 .. n : h[i] = f[i]
                /\ Len(SubSeq(p, 1, n)) = n /\ SubSeq(p, 1, n) \in Seq(Seq(S))
                /\ \A i \in 1 .. n : SubSeq(p, 1, n)[i] = p[i]
<1>1. Len(p) \in Nat /\ n \in Nat /\ n <= Len(p)
  OBVIOUS
<1>2. PICK q \in Seq(Seq(S)) : q = SubSeq(p, 1, n) /\ Len(q) = n /\ \A i \in 1 .. n : q[i] = p[i]
  BY <1>1, PrefixOf
<1>3. /\ f \in [0 .. Len(p) -> Seq(S)] /\ f[0] = <<>>
      /\ \A i \in 1 .. Len(p) : f[i] = f[i - 1] \o p[i]
  BY DEF Joins
<1>4. PICK h : h = [i \in 0 .. n |-> f[i]]
  OBVIOUS
<1>5. h \in [0 .. n -> Seq(S)] /\ h[0] = <<>>
  BY <1>1, <1>3, <1>4
<1>6. ASSUME NEW i \in 1 .. n
      PROVE  h[i] = h[i - 1] \o q[i]
  <2>1. h[i] = f[i] /\ h[i - 1] = f[i - 1] /\ q[i] = p[i] /\ i \in 1 .. Len(p)
    BY <1>1, <1>2, <1>4
  <2> QED
    BY ONLY <1>3, <2>1
<1>7. Joins(h, q, S)
  BY ONLY <1>2, <1>5, <1>6 DEF Joins
<1>8. \A i \in 0 .. n : h[i] = f[i]
  BY <1>4
<1> QED
  BY <1>2, <1>7, <1>8

(* The beginning of a stream is the stream of the first commands.                            *)
LEMMA StreamPrefix ==
  ASSUME NEW cmds \in Seq(Command), NEW f, Joins(f, Frames(cmds), Byte), NEW n \in 0 .. Len(cmds)
  PROVE  Stream(SubSeq(cmds, 1, n)) = f[n]
<1>1. PICK k \in Nat, p \in Seq(Word) : k = Len(cmds) /\ p = Frames(cmds) /\ Len(p) = k
  BY FramesFacts
<1>2. n \in Nat /\ n <= k
  BY <1>1
<1>3. PICK c \in Seq(Command) : c = SubSeq(cmds, 1, n) /\ Len(c) = n /\ \A i \in 1 .. n : c[i] = cmds[i]
  BY <1>1, PrefixOf
<1>4. PICK h : /\ Joins(h, SubSeq(p, 1, n), Byte) /\ \A i \in 0 .. n : h[i] = f[i]
               /\ Len(SubSeq(p, 1, n)) = n /\ SubSeq(p, 1, n) \in Seq(Seq(Byte))
               /\ \A i \in 1 .. n : SubSeq(p, 1, n)[i] = p[i]
  <2>1. Joins(f, p, Byte) /\ n \in 0 .. Len(p) /\ p \in Seq(Seq(Byte))
    BY <1>1, <1>2 DEF Word
  <2> QED
    BY ONLY <2>1, PrefixJoins
<1>5. PICK q \in Seq(Word) : q = SubSeq(p, 1, n) /\ Len(q) = n /\ Joins(h, q, Byte)
                             /\ \A i \in 1 .. n : q[i] = p[i]
  BY <1>4 DEF Word
<1>6. PICK r \in Seq(Word) : r = Frames(c) /\ Len(r) = n /\ \A i \in 1 .. n : r[i] = Frame(c[i])
  BY <1>3, FramesFacts
<1>7. ASSUME NEW i \in 1 .. n
      PROVE  r[i] = q[i]
  <2>1. i \in 1 .. k
    BY <1>2
  <2>2. p[i] = Frame(cmds[i])
    BY <1>1, <2>1, FramesFacts
  <2> QED
    BY ONLY <1>3, <1>5, <1>6, <2>2, i \in 1 .. n
<1>8. r = q
  BY ONLY <1>5, <1>6, <1>7, SeqEqual
<1>9. FlattenSeq(q) = h[n]
  <2>1. FlattenSeq(q) = h[Len(q)]
    BY <1>5, FlattenJoins DEF Word
  <2> QED
    BY <1>5, <2>1
<1>10. h[n] = f[n]
  <2>1. n \in 0 .. n
    BY <1>2
  <2> QED
    BY <1>4, <2>1
<1>11. Stream(c) = FlattenSeq(r)
  BY <1>6, FramesFacts
<1> QED
  BY ONLY <1>3, <1>8, <1>9, <1>10, <1>11

(* A finite set of numbers that is not empty has a greatest one.                             *)
LEMMA GreatestOf ==
  ASSUME NEW n \in Nat, NEW S, S \subseteq 0 .. n, S # {}
  PROVE  \E m \in S : \A i \in S : i <= m
<1> DEFINE T == {j \in 0 .. n : n - j \in S}
<1>1. T \subseteq Nat
  OBVIOUS
<1>2. T # {}
  <2>1. PICK i \in S : TRUE
    OBVIOUS
  <2>2. i \in 0 .. n /\ n - i \in 0 .. n /\ n - (n - i) = i
    BY <2>1
  <2>3. n - i \in T
    BY <2>1, <2>2
  <2> HIDE DEF T
  <2> QED
    BY <2>3
<1> HIDE DEF T
<1>3. PICK j \in T : \A i \in T : j <= i
  BY <1>1, <1>2, LeastOf
<1> USE DEF T
<1>4. j \in 0 .. n /\ n - j \in S
  BY <1>3
<1>5. ASSUME NEW i \in S
      PROVE  i <= n - j
  <2>1. i \in 0 .. n /\ n - i \in 0 .. n /\ n - (n - i) = i
    OBVIOUS
  <2>2. n - i \in T
    BY <2>1
  <2>3. j <= n - i
    BY <1>3, <2>2
  <2> QED
    BY <1>4, <2>1, <2>3
<1> QED
  BY <1>4, <1>5

(* What a string holds within its first n bytes, these hold.                                 *)
LEMMA HoldsInPrefix ==
  ASSUME NEW stream \in Word, NEW n \in 0 .. Len(stream), NEW at \in Nat, NEW s \in Word,
         Holds(stream, at, s), at + Len(s) <= n
  PROVE  /\ SubSeq(stream, 1, n) \in Word /\ Len(SubSeq(stream, 1, n)) = n
         /\ Holds(SubSeq(stream, 1, n), at, s)
<1>1. PICK k \in Nat, x \in Nat : k = Len(stream) /\ x = Len(s)
  BY WordLen
<1>2. n \in Nat /\ n <= k
  BY <1>1
<1>3. PICK buf \in Word : buf = SubSeq(stream, 1, n) /\ Len(buf) = n /\ \A i \in 1 .. n : buf[i] = stream[i]
  BY <1>1, PrefixOf DEF Word
<1>4. at + x <= n /\ \A i \in 1 .. x : stream[at + i] = s[i]
  BY <1>1 DEF Holds
<1>5. ASSUME NEW i \in 1 .. x
      PROVE  buf[at + i] = s[i]
  <2>1. at + i \in 1 .. n
    BY <1>2, <1>4
  <2> QED
    BY ONLY <1>3, <1>4, <2>1, i \in 1 .. x
<1>6. Holds(buf, at, s)
  BY ONLY <1>1, <1>3, <1>4, <1>5 DEF Holds
<1> QED
  BY <1>3, <1>6

(* A connection is served as long as it serves, and a connection that waits goes on waiting.     *)
LEMMA RoundFacts ==
  ASSUME NEW buf, NEW at, NEW out
  PROVE  /\ Round(buf, Conn(at, out, "serving")) = try_request(buf, Conn(at, out, "serving"))
         /\ Round(buf, Conn(at, out, "wait")) = Conn(at, out, "wait")
<1>1. Conn(at, out, "serving").state = "serving" /\ Conn(at, out, "wait").state # "serving"
  BY DEF Conn
<1> QED
  BY ONLY <1>1 DEF Round

(* A stream that is cut after the first `last' commands, or within the next one: these are      *)
(* served, and the connection waits.                                                   *)
LEMMA CutStream ==
  ASSUME NEW cmds \in Seq(Command), NEW n \in 0 .. Len(Stream(cmds)),
         NEW f, Joins(f, Frames(cmds), Byte),
         NEW last \in 0 .. Len(cmds), Len(f[last]) <= n,
         \A i \in 1 .. Len(cmds) : i = last + 1 => n < Len(f[i])
  PROVE  Served(SubSeq(Stream(cmds), 1, n)) = Conn(Len(f[last]), SubSeq(cmds, 1, last), "wait")
<1>1. PICK k \in Nat, p \in Seq(Word) : k = Len(cmds) /\ p = Frames(cmds) /\ Len(p) = k
  BY FramesFacts
<1>2. Joins(f, p, Byte) /\ \A i \in 1 .. k : cmds[i] \in Command /\ p[i] = Frame(cmds[i]) /\ 1 <= Len(p[i])
  BY <1>1, FramesFacts
<1>3. PICK stream \in Word : stream = Stream(cmds) /\ stream = f[k]
  <2>1. FlattenSeq(p) = f[k] /\ FlattenSeq(p) \in Seq(Byte)
    BY <1>1, <1>2, FlattenJoins, FlattenFacts DEF Word
  <2>2. Stream(cmds) = FlattenSeq(p)
    BY <1>1, FramesFacts
  <2> QED
    BY <2>1, <2>2 DEF Word
<1>4. n \in Nat /\ n \in 0 .. Len(stream) /\ n <= Len(stream) /\ Len(stream) \in Nat
  BY <1>3, WordLen
<1>5. PICK buf \in Word : buf = SubSeq(stream, 1, n) /\ Len(buf) = n
  BY <1>4, PrefixOf DEF Word
<1>6. /\ \A i \in 0 .. k : f[i] \in Word /\ Len(f[i]) <= Len(f[k])
      /\ \A i \in 1 .. k : Len(f[i]) = Len(f[i - 1]) + Len(p[i])
      /\ \A i \in 1 .. k : Holds(stream, Len(f[i - 1]), p[i])
  <2>1. Holds(stream, 0, f[k])
    <3>1. \A i \in 1 .. Len(stream) : 0 + i = i
      BY <1>4
    <3> QED
      BY <1>3, <1>4, <3>1 DEF Holds
  <2>2. /\ \A i \in 0 .. k : f[i] \in Word /\ Len(f[i]) <= Len(f[k])
        /\ \A i \in 1 .. k : Len(f[i]) = Len(f[i - 1]) + Len(p[i])
        /\ \A i \in 1 .. k : Holds(stream, 0 + Len(f[i - 1]), p[i])
    BY ONLY <1>1, <1>2, <2>1, JoinedParts, p \in Seq(Word), stream \in Word, 0 \in Nat DEF Word
  <2>3. ASSUME NEW i \in 1 .. k
        PROVE  0 + Len(f[i - 1]) = Len(f[i - 1])
    <3>1. i - 1 \in 0 .. k
      BY <1>1
    <3>2. Len(f[i - 1]) \in Nat
      BY <2>2, <3>1, WordLen
    <3> QED
      BY <3>2
  <2> QED
    BY <2>2, <2>3
<1>7. ASSUME NEW i \in 0 .. last
      PROVE  Len(f[i]) <= Len(f[last])
  <2>1. last \in 0 .. Len(p)
    BY <1>1
  <2>2. PICK h : /\ Joins(h, SubSeq(p, 1, last), Byte) /\ \A j \in 0 .. last : h[j] = f[j]
                 /\ Len(SubSeq(p, 1, last)) = last /\ SubSeq(p, 1, last) \in Seq(Seq(Byte))
                 /\ \A j \in 1 .. last : SubSeq(p, 1, last)[j] = p[j]
    <3>1. Joins(f, p, Byte) /\ p \in Seq(Seq(Byte))
      BY <1>2 DEF Word
    <3> QED
      BY ONLY <2>1, <3>1, PrefixJoins
  <2>3. PICK q \in Seq(Word) : Joins(h, q, Byte) /\ Len(q) = last
    BY <2>2 DEF Word
  <2>4. \A j \in 0 .. last : Len(h[j]) <= Len(h[last])
    BY ONLY <2>3, JoinedParts, q \in Seq(Word), stream \in Word, 0 \in Nat DEF Word
  <2>5. last \in 0 .. last
    OBVIOUS
  <2> QED
    BY ONLY <2>2, <2>4, <2>5, i \in 0 .. last
<1>8. last \in Nat /\ last <= k /\ last <= n /\ Len(f[last]) \in Nat
  <2>1. \A i \in 0 .. Len(p) : i <= Len(f[i])
    BY ONLY <1>1, <1>2, JoinedLong, p \in Seq(Word)
  <2>2. last \in 0 .. k /\ last <= Len(f[last])
    BY <1>1, <2>1
  <2>3. Len(f[last]) \in Nat
    BY <1>6, <2>2, WordLen
  <2> QED
    BY <1>1, <1>4, <2>2, <2>3
<1>9. ASSUME NEW i \in 1 .. last
      PROVE  try_request(buf, Conn(Len(f[i - 1]), SubSeq(cmds, 1, i - 1), "serving")) =
               Conn(Len(f[i]), SubSeq(cmds, 1, i), "serving")
  <2>1. i \in 1 .. k /\ i - 1 \in 0 .. k /\ i \in 0 .. last
    BY <1>1, <1>8
  <2>2. PICK at \in Nat, cmd \in Command, s \in Word :
          /\ at = Len(f[i - 1]) /\ cmd = cmds[i] /\ s = p[i] /\ s = Frame(cmd)
    <3>1. Len(f[i - 1]) \in Nat
      BY <1>6, <2>1, WordLen
    <3> QED
      BY <1>1, <1>2, <2>1, <3>1
  <2>3. Holds(stream, at, s) /\ Len(f[i]) = at + Len(s)
    BY <1>6, <2>1, <2>2
  <2>4. at + Len(s) <= n
    <3>1. Len(f[i]) <= Len(f[last]) /\ Len(f[i]) \in Nat
      <4>1. i \in 0 .. k
        BY <1>8, <2>1
      <4> QED
        BY <1>6, <1>7, <2>1, <4>1, WordLen
    <3> QED
      BY <1>4, <1>8, <2>3, <3>1
  <2>5. Holds(buf, at, s)
    BY ONLY <1>4, <1>5, <2>3, <2>4, HoldsInPrefix, stream \in Word, at \in Nat, s \in Word
  <2>6. Append(SubSeq(cmds, 1, i - 1), cmd) = SubSeq(cmds, 1, i)
    BY <1>1, <2>1, <2>2, OneMore
  <2>7. PICK out : out = SubSeq(cmds, 1, i - 1)
    OBVIOUS
  <2>8. try_request(buf, Conn(at, out, "serving")) = Conn(at + Len(Frame(cmd)), Append(out, cmd), "serving")
    <3>1. Holds(buf, at, Frame(cmd))
      BY <2>2, <2>5
    <3> QED
      BY ONLY <3>1, TryServes, buf \in Word, at \in Nat, cmd \in Command
  <2> QED
    BY ONLY <2>2, <2>3, <2>6, <2>7, <2>8
<1>10. PICK at \in Nat, served \in Seq(Command) : at = Len(f[last]) /\ served = SubSeq(cmds, 1, last)
  <2>1. SubSeq(cmds, 1, last) \in Seq(Command)
    BY PrefixOf
  <2> QED
    BY <1>8, <2>1
<1>11. try_request(buf, Conn(at, served, "serving")) = Conn(at, served, "wait")
  <2>1. FieldLen \in Nat /\ FieldLen # 0 /\ MaxFrame \in Nat
    BY FormatAssumption
  <2>2. CASE last = k
    <3>1. at = Len(stream)
      BY <1>3, <1>10, <2>2
    <3>2. Len(buf) < at + FieldLen /\ 0 <= MaxFrame /\ Len(buf) < at + FieldLen + 0
      BY <1>4, <1>5, <2>1, <3>1
    <3> QED
      BY ONLY <3>2, TryWaits, buf \in Word, at \in Nat, 0 \in Nat
  <2>3. CASE last # k
    <3>1. PICK m \in 1 .. k : m = last + 1 /\ m - 1 = last
      BY <1>8, <2>3
    <3>2. PICK cmd \in Command, s \in Word : cmd = cmds[m] /\ s = p[m] /\ s = Frame(cmd)
      BY <1>1, <1>2
    <3>3. cmd \in Seq(Word) /\ Len(Body(cmd)) <= MaxFrame
      BY CommandFacts
    <3>4. PICK b \in Word, len \in Nat : b = Body(cmd) /\ len = Len(b) /\ Len(s) = FieldLen + len
      BY <3>2, <3>3, BodyFacts, WordLen
    <3>5. n < at + (FieldLen + len) /\ Holds(stream, at, s)
      <4>1. n < Len(f[m]) /\ Len(f[m]) = Len(f[m - 1]) + Len(p[m]) /\ Holds(stream, Len(f[m - 1]), p[m])
        BY <1>1, <1>6, <3>1
      <4> QED
        BY ONLY <1>10, <3>1, <3>2, <3>4, <4>1
    <3>6. PICK g \in Word : g = Field(len) /\ Len(g) = FieldLen
      BY FieldFacts DEF Word
    <3>7. Holds(stream, at, g)
      <4>1. Holds(stream, at, g \o b)
        BY <3>2, <3>4, <3>5, <3>6 DEF Frame
      <4> QED
        BY ONLY <4>1, HoldsBoth, stream \in Word, g \in Word, b \in Word, at \in Nat DEF Word
    <3>8. Len(buf) < at + FieldLen \/ Holds(buf, at, Field(len))
      <4>1. CASE n < at + FieldLen
        BY <1>5, <4>1
      <4>2. CASE ~ (n < at + FieldLen)
        <5>1. at + Len(g) <= n
          BY <1>4, <2>1, <3>6, <4>2
        <5>2. Holds(buf, at, g)
          BY ONLY <1>4, <1>5, <3>7, <5>1, HoldsInPrefix, stream \in Word, at \in Nat, g \in Word
        <5> QED
          BY <3>6, <5>2
      <4> QED
        BY <4>1, <4>2
    <3>9. len <= MaxFrame /\ Len(buf) < at + FieldLen + len
      <4>1. n < at + FieldLen + len
        BY ONLY <1>4, <2>1, <3>5, at \in Nat, len \in Nat
      <4> QED
        BY <1>5, <3>3, <3>4, <4>1
    <3> QED
      BY ONLY <3>8, <3>9, TryWaits, buf \in Word, at \in Nat, len \in Nat
  <2> QED
    BY <2>2, <2>3
<1>12. PICK N \in Nat : N = n + 1 /\ N = Len(buf) + 1
  BY <1>4, <1>5
<1> DEFINE h == [i \in 0 .. N |-> IF i <= last THEN Conn(Len(f[i]), SubSeq(cmds, 1, i), "serving")
                                  ELSE Conn(at, served, "wait")]
<1>13. h[0] = Conn(0, <<>>, "serving")
  <2>1. 0 \in 0 .. N /\ 0 <= last
    BY <1>8
  <2>2. h[0] = Conn(Len(f[0]), SubSeq(cmds, 1, 0), "serving")
    BY <2>1
  <2>3. Len(f[0]) = 0 /\ SubSeq(cmds, 1, 0) = <<>>
    <3>1. f[0] = <<>>
      BY <1>2 DEF Joins
    <3>2. Len(<<>>) = 0
      OBVIOUS
    <3> QED
      BY <3>1, <3>2, SubSeqEmpty
  <2> QED
    BY ONLY <2>2, <2>3
<1>14. ASSUME NEW i \in 1 .. N
       PROVE  h[i] = Round(buf, h[i - 1])
  <2>1. i \in 0 .. N /\ i - 1 \in 0 .. N
    BY <1>12
  <2>2. CASE i <= last
    <3>1. i \in 1 .. last /\ i - 1 <= last
      BY <1>8, <2>2
    <3>2. /\ h[i] = Conn(Len(f[i]), SubSeq(cmds, 1, i), "serving")
          /\ h[i - 1] = Conn(Len(f[i - 1]), SubSeq(cmds, 1, i - 1), "serving")
      BY <2>1, <2>2, <3>1
    <3> HIDE DEF h
    <3> QED
      BY ONLY <1>9, <3>1, <3>2, RoundFacts
  <2>3. CASE i = last + 1
    <3>1. ~ (i <= last) /\ i - 1 <= last /\ i - 1 = last
      BY <1>8, <2>3
    <3>2. h[i] = Conn(at, served, "wait") /\ h[i - 1] = Conn(at, served, "serving")
      BY <1>10, <2>1, <3>1
    <3> HIDE DEF h
    <3> QED
      BY ONLY <1>11, <3>2, RoundFacts
  <2>4. CASE ~ (i <= last) /\ i # last + 1
    <3>1. ~ (i - 1 <= last)
      BY <1>8, <2>4
    <3>2. h[i] = Conn(at, served, "wait") /\ h[i - 1] = Conn(at, served, "wait")
      BY <2>1, <2>4, <3>1
    <3> HIDE DEF h
    <3> QED
      BY ONLY <3>2, RoundFacts
  <2> QED
    BY <2>2, <2>3, <2>4
<1>15. h[N] = Conn(at, served, "wait")
  <2>1. N \in 0 .. N /\ ~ (N <= last)
    BY <1>4, <1>8, <1>12
  <2> QED
    BY <2>1
<1>16. h = [i \in 0 .. N |-> h[i]]
  OBVIOUS
<1>17. PICK g : g = h
  OBVIOUS
<1> HIDE DEF h
<1>18. Served(buf) = g[N]
  <2>1. g = [i \in 0 .. N |-> g[i]] /\ g[0] = Conn(0, <<>>, "serving")
    BY ONLY <1>13, <1>16, <1>17
  <2>2. \A i \in 1 .. N : g[i] = Round(buf, g[i - 1])
    BY ONLY <1>14, <1>17
  <2> QED
    BY ONLY <1>12, <2>1, <2>2, ServedIs, buf \in Word, N \in Nat
<1> QED
  BY ONLY <1>3, <1>5, <1>10, <1>15, <1>17, <1>18

(* Wherever a stream of requests is cut, the commands that are complete are served, in order,   *)
(* and the connection waits for the rest, for any base, width of a length and limits.        *)
LEMMA ServesInOrderAlways == ServesInOrder
<1>1. SUFFICES ASSUME NEW cmds \in Sent, NEW n \in 0 .. Len(Stream(cmds))
               PROVE  LET c == Served(SubSeq(Stream(cmds), 1, n))
                          complete == {i \in 0 .. Len(cmds) : Len(Stream(SubSeq(cmds, 1, i))) <= n}
                      IN  /\ c.state = "wait"
                          /\ \E last \in complete :
                               /\ \A i \in complete : i <= last
                               /\ c.served = SubSeq(cmds, 1, last)
  BY DEF ServesInOrder
<1> DEFINE complete == {i \in 0 .. Len(cmds) : Len(Stream(SubSeq(cmds, 1, i))) <= n}
<1>2. cmds \in Seq(Command)
  BY FormatAssumption
<1>3. PICK k \in Nat, p \in Seq(Word) : k = Len(cmds) /\ p = Frames(cmds) /\ Len(p) = k
  BY <1>2, FramesFacts
<1>4. PICK f : Joins(f, p, Byte)
  BY JoinsExist DEF Word
<1>5. ASSUME NEW i \in 0 .. k
      PROVE  Stream(SubSeq(cmds, 1, i)) = f[i] /\ Len(f[i]) \in Nat
  <2>1. Joins(f, Frames(cmds), Byte) /\ i \in 0 .. Len(cmds)
    BY <1>3, <1>4
  <2>2. Stream(SubSeq(cmds, 1, i)) = f[i]
    BY ONLY <1>2, <2>1, StreamPrefix
  <2>3. f[i] \in Word
    BY <1>3, <1>4 DEF Joins, Word
  <2> QED
    BY <2>2, <2>3, WordLen
<1>6. n \in Nat
  <2>1. FlattenSeq(p) \in Seq(Byte)
    BY FlattenFacts DEF Word
  <2>2. Stream(cmds) = FlattenSeq(p)
    BY <1>2, <1>3, FramesFacts
  <2> QED
    BY <2>1, <2>2
<1>7. complete = {i \in 0 .. k : Len(f[i]) <= n}
  BY <1>3, <1>5
<1>8. complete # {}
  <2>1. f[0] = <<>> /\ Len(<<>>) = 0
    BY <1>4 DEF Joins
  <2>2. 0 \in 0 .. k /\ Len(f[0]) <= n
    BY <1>6, <2>1
  <2> QED
    BY <1>7, <2>2
<1>9. PICK last \in complete : \A i \in complete : i <= last
  <2>1. complete \subseteq 0 .. k
    BY <1>7
  <2> HIDE DEF complete
  <2> QED
    BY ONLY <1>8, <2>1, GreatestOf, k \in Nat
<1>10. last \in 0 .. k /\ Len(f[last]) <= n
  BY <1>7, <1>9
<1>11. ASSUME NEW i \in 1 .. k, i = last + 1
       PROVE  n < Len(f[i])
  <2>1. i \notin complete
    <3> HIDE DEF complete
    <3> QED
      BY <1>9, <1>10, <1>11
  <2>2. i \in 0 .. k
    OBVIOUS
  <2>3. Len(f[i]) \in Nat /\ ~ (Len(f[i]) <= n)
    BY <1>5, <1>7, <2>1, <2>2
  <2> QED
    BY <1>6, <2>3
<1>12. Served(SubSeq(Stream(cmds), 1, n)) = Conn(Len(f[last]), SubSeq(cmds, 1, last), "wait")
  <2>1. Joins(f, Frames(cmds), Byte) /\ last \in 0 .. Len(cmds)
    BY <1>3, <1>4, <1>10
  <2>2. \A i \in 1 .. Len(cmds) : i = last + 1 => n < Len(f[i])
    BY <1>3, <1>11
  <2> QED
    BY ONLY <1>2, <1>10, <2>1, <2>2, CutStream, n \in 0 .. Len(Stream(cmds))
<1>13. PICK c : c = Served(SubSeq(Stream(cmds), 1, n))
  OBVIOUS
<1>14. c.state = "wait" /\ c.served = SubSeq(cmds, 1, last)
  BY ONLY <1>12, <1>13 DEF Conn
<1> QED
  BY <1>9, <1>13, <1>14

-----------------------------------------------------------------------------
(* The results.                                                                *)

(* parse_req inverts send_req, for any base, width of a length and limits, and whatever the     *)
(* store does in the meantime (io.cpp:273).                                            *)
THEOREM RequestsInvert == ParseInverts /\ (Spec => []ParseInvertsSend)
<1>1. ParseInverts
  BY ParseInvertsAlways
<1>2. ParseInvertsSend
  BY <1>1 DEF ParseInvertsSend
<1> QED
  BY <1>1, <1>2, PTL

(* A stream of requests, cut anywhere, is served in order (io.cpp:251).                       *)
THEOREM StreamsAreServed == ServesInOrder /\ (Spec => []StreamIsItsRequests)
<1>1. ServesInOrder
  BY ServesInOrderAlways
<1>2. StreamIsItsRequests
  BY <1>1 DEF StreamIsItsRequests
<1> QED
  BY <1>1, <1>2, PTL
=============================================================================
