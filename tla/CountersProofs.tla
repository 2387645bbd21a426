--------------------------- MODULE CountersProofs ---------------------------
(***************************************************************************)
(* Proofs about Counters, for every width of the numbers.                  *)
(*                                                                         *)
(* Each counter goes round a cycle, and what it gave out last are the      *)
(* numbers before the next one (Trail).  An index of an entity goes round  *)
(* a longer cycle than the id made of it; the one is a multiple of the     *)
(* other, so that the id goes round its own where the index wraps.         *)
(***************************************************************************)
EXTENDS Counters, FiniteSetTheorems, TLAPS

\* The number d places before cur in the cycle of size numbers from lo on.
Behind(cur, d, lo, size) == IF cur - d >= lo THEN cur - d ELSE cur - d + size

\* The number after cur in that cycle.
Ahead(cur, lo, size) == IF cur + 1 = lo + size THEN lo ELSE cur + 1

\* nums are the numbers before cur, and no more than go round once.
Trail(nums, cur, lo, size) ==
  /\ nums \in Seq(Nat)
  /\ Len(nums) <= size
  /\ \A i \in 1 .. Len(nums) : nums[i] = Behind(cur, Len(nums) + 1 - i, lo, size)

\* What Give keeps of a history when n is handed out.
Kept(nums, n, size) ==
  LET all == Append(nums, n) IN IF Len(all) > size THEN Tail(all) ELSE all

\* The inductive invariant.
TrailsInv ==
  /\ CountersTypeOK
  /\ given \in [Counter -> Seq(Nat)]
  /\ Trail(given["req"], reqId, 1, Span - 1)
  /\ Trail(given["seq"], seq, 0, Span)
  /\ \A kind \in Kind : Trail(given[kind], IdOf(idx[kind]), 0, IdxSpan)

-----------------------------------------------------------------------------
\* Below the modulus a number is its own remainder.
LEMMA ModSmall ==
  ASSUME NEW m \in Nat \ {0}, NEW n \in 0 .. m - 1
  PROVE  n % m = n /\ m % m = 0
OBVIOUS

\* A number that is a multiple and something below the modulus has that as its
\* remainder.
LEMMA ModUnique ==
  ASSUME NEW m \in Nat \ {0}, NEW q \in Nat, NEW r \in 0 .. m - 1
  PROVE  (m * q + r) % m = r
<1> DEFINE n == m * q + r
           p == n \div m
           o == n % m
<1>1. m * q \in Nat
  OBVIOUS
<1>2. n \in Nat /\ p \in Nat /\ o \in 0 .. m - 1 /\ n = m * p + o
  BY <1>1
<1> HIDE DEF n, p, o
<1>3. n = m * q + r
  BY DEF n
<1>4. CASE p > q
  <2>1. p - q - 1 \in Nat /\ m * (p - q - 1) >= 0
    BY <1>2, <1>4
  <2>2. m * (p - q - 1) = m * p - m * q - m
    BY <1>2
  <2> QED BY <1>1, <1>2, <1>3, <2>1, <2>2
<1>5. CASE q > p
  <2>1. q - p - 1 \in Nat /\ m * (q - p - 1) >= 0
    BY <1>2, <1>5
  <2>2. m * (q - p - 1) = m * q - m * p - m
    BY <1>2
  <2> QED BY <1>1, <1>2, <1>3, <2>1, <2>2
<1>6. CASE p = q
  BY <1>1, <1>2, <1>3, <1>6 DEF n, o
<1> QED BY <1>2, <1>4, <1>5, <1>6

\* How a remainder goes on: it starts again where it reaches the modulus.
LEMMA ModSucc ==
  ASSUME NEW n \in Nat, NEW m \in Nat \ {0}
  PROVE  /\ n % m \in 0 .. m - 1
         /\ (n + 1) % m = IF (n % m) + 1 = m THEN 0 ELSE (n % m) + 1
<1> DEFINE q == n \div m
           r == n % m
<1>1. q \in Nat /\ r \in 0 .. m - 1 /\ n = m * q + r
  OBVIOUS
<1> HIDE DEF q
<1>2. CASE r + 1 = m
  <2>1. n + 1 = m * (q + 1) + 0
    BY <1>1, <1>2
  <2>2. (m * (q + 1) + 0) % m = 0
    BY <1>1, ModUnique
  <2> QED BY <1>1, <1>2, <2>1, <2>2
<1>3. CASE r + 1 # m
  <2>1. n + 1 = m * q + (r + 1) /\ r + 1 \in 0 .. m - 1
    BY <1>1, <1>3
  <2>2. (m * q + (r + 1)) % m = r + 1
    BY <1>1, <2>1, ModUnique
  <2> QED BY <1>1, <1>3, <2>1, <2>2
<1> QED BY <1>2, <1>3

-----------------------------------------------------------------------------
\* What has come out of a counter goes on to be the numbers before the next.
LEMMA TrailGoesOn ==
  ASSUME NEW lo \in {0, 1}, NEW size \in Nat \ {0},
         NEW cur \in lo .. lo + size - 1, NEW nums, Trail(nums, cur, lo, size)
  PROVE  Trail(Kept(nums, cur, size), Ahead(cur, lo, size), lo, size)
<1> DEFINE all  == Append(nums, cur)
           next == Ahead(cur, lo, size)
<1>1. nums \in Seq(Nat) /\ Len(nums) \in Nat /\ Len(nums) <= size
  BY DEF Trail
<1>2. all \in Seq(Nat) /\ Len(all) = Len(nums) + 1
  BY <1>1
<1>3. ASSUME NEW i \in 1 .. Len(all), Len(all) + 1 - i <= size
      PROVE  all[i] = Behind(next, Len(all) + 1 - i, lo, size)
  <2>1. CASE i = Len(all)
    <3>1. all[i] = cur /\ Len(all) + 1 - i = 1
      BY <1>1, <1>2, <2>1
    <3> QED BY <3>1 DEF Behind, Ahead
  <2>2. CASE i # Len(all)
    <3>1. i \in 1 .. Len(nums) /\ all[i] = nums[i]
      BY <1>1, <1>2, <2>2
    <3>2. nums[i] = Behind(cur, Len(nums) + 1 - i, lo, size)
      BY <3>1 DEF Trail
    <3>3. PICK d \in 1 .. size : d = Len(nums) + 1 - i
      BY <1>1, <3>1
    <3>4. Len(all) + 1 - i = d + 1 /\ d + 1 <= size
      BY <1>1, <1>2, <1>3, <3>3
    <3>5. Behind(cur, d, lo, size) = Behind(next, d + 1, lo, size)
      BY <3>4 DEF Behind, Ahead
    <3> QED BY <3>1, <3>2, <3>3, <3>4, <3>5
  <2> QED BY <2>1, <2>2
<1> HIDE DEF all, next
<1>4. CASE Len(all) > size
  <2> DEFINE kept == Tail(all)
  <2>1. Len(all) = size + 1 /\ all # <<>>
    <3>1. ASSUME NEW n \in Nat, n <= size, n + 1 > size PROVE n + 1 = size + 1 /\ n + 1 # 0
      BY <3>1
    <3>2. Len(all) = size + 1 /\ Len(all) # 0
      BY <1>1, <1>2, <1>4, <3>1, Zenon
    <3> QED BY <1>2, <3>2
  <2>2. kept \in Seq(Nat) /\ Len(kept) = size
    BY <1>2, <2>1
  <2>3. \A i \in 1 .. size : kept[i] = all[i + 1]
    BY <1>2, <2>1
  <2>4. ASSUME NEW i \in 1 .. Len(kept)
        PROVE  kept[i] = Behind(next, Len(kept) + 1 - i, lo, size)
    <3>1. i + 1 \in 1 .. Len(all) /\ kept[i] = all[i + 1]
      BY <2>1, <2>2, <2>3
    <3>2. Len(all) + 1 - (i + 1) = Len(kept) + 1 - i /\ Len(kept) + 1 - i <= size
      BY <2>1, <2>2
    <3> QED BY <1>3, <3>1, <3>2
  <2> HIDE DEF kept
  <2>5. Trail(kept, next, lo, size)
    BY <2>2, <2>4 DEF Trail
  <2> QED BY <1>4, <2>5 DEF Kept, kept, all, next
<1>5. CASE Len(all) <= size
  <2>1. \A i \in 1 .. Len(all) : Len(all) + 1 - i <= size
    BY <1>2, <1>5
  <2>2. Trail(all, next, lo, size)
    BY <1>2, <1>3, <1>5, <2>1 DEF Trail
  <2>3. ~(Len(all) > size)
    BY <1>2, <1>5
  <2> QED BY <2>2, <2>3 DEF Kept, all, next
<1> QED BY <1>2, <1>4, <1>5

\* Numbers that go round a cycle no more than once are all different.
LEMMA TrailDistinct ==
  ASSUME NEW lo \in {0, 1}, NEW size \in Nat \ {0},
         NEW cur \in lo .. lo + size - 1, NEW nums, Trail(nums, cur, lo, size)
  PROVE  Len(nums) = Cardinality(ToSet(nums))
<1>1. nums \in Seq(Nat) /\ Len(nums) \in Nat /\ DOMAIN nums = 1 .. Len(nums)
  BY DEF Trail
<1>2. nums \in [1 .. Len(nums) -> ToSet(nums)]
  BY <1>1 DEF ToSet
<1>3. \A y \in ToSet(nums) : \E i \in 1 .. Len(nums) : nums[i] = y
  BY <1>1 DEF ToSet
<1>4. ASSUME NEW i \in 1 .. Len(nums), NEW j \in 1 .. Len(nums), nums[i] = nums[j]
      PROVE  i = j
  BY <1>1, <1>4, SMTT(30) DEF Trail, Behind
<1>5. nums \in Bijection(1 .. Len(nums), ToSet(nums))
  BY <1>2, <1>3, <1>4 DEF Bijection, Injection, Surjection, IsInjective
<1>6. ExistsBijection(1 .. Len(nums), ToSet(nums))
  BY <1>5 DEF ExistsBijection
<1>7. IsFiniteSet(1 .. Len(nums)) /\ Cardinality(1 .. Len(nums)) = Len(nums)
  <2>1. 1 \in Int /\ Len(nums) \in Int
    BY <1>1
  <2>2. /\ IsFiniteSet(1 .. Len(nums))
        /\ Cardinality(1 .. Len(nums)) = IF 1 > Len(nums) THEN 0 ELSE Len(nums) - 1 + 1
    BY <2>1, FS_Interval, Zenon
  <2> QED BY <1>1, <2>2
<1> QED BY <1>6, <1>7, FS_Bijection

-----------------------------------------------------------------------------
\* What Give does to the histories.
LEMMA GiveKeeps ==
  ASSUME NEW c \in Counter, NEW n \in Nat, Give(c, n), given \in [Counter -> Seq(Nat)]
  PROVE  /\ given' = [given EXCEPT ![c] = Kept(given[c], n, Window(c))]
         /\ given' \in [Counter -> Seq(Nat)]
<1>1. given' = [given EXCEPT ![c] = Kept(given[c], n, Window(c))]
  BY DEF Give, Kept
<1>2. Append(given[c], n) \in Seq(Nat) /\ Append(given[c], n) # <<>>
  OBVIOUS
<1>3. Tail(Append(given[c], n)) \in Seq(Nat)
  BY <1>2
<1>4. Kept(given[c], n, Window(c)) \in Seq(Nat)
  BY <1>2, <1>3 DEF Kept
<1> QED BY <1>1, <1>4

\* The names of the two counters that are no kind are not those of one.
LEMMA CounterNames ==
  /\ {"req", "seq"} \subseteq Counter /\ Kind \subseteq Counter
  /\ "req" # "seq" /\ "req" \notin Kind /\ "seq" \notin Kind
  /\ Window("req") = Span - 1 /\ Window("seq") = Span
  /\ \A kind \in Kind : Window(kind) = IdxSpan
<1>1. "req" # "seq"
  OBVIOUS
<1>2. "req" \notin Kind /\ "seq" \notin Kind
  BY CountersAssumption DEF CountersAssumption
<1> QED BY <1>1, <1>2 DEF Counter, Window

LEMMA TrailsInit == Init => TrailsInv
<1> SUFFICES ASSUME Init PROVE TrailsInv
  OBVIOUS
<1>1. CountersTypeOK
  BY CountersAssumption DEF CountersAssumption, Init, CountersTypeOK
<1>2. given = [c \in Counter |-> <<>>]
  BY DEF Init
<1>3. \A size \in Nat : \A cur, lo : Trail(<<>>, cur, lo, size)
  BY DEF Trail
<1>4. \A c \in Counter : given[c] = <<>>
  BY <1>2
<1> QED BY <1>1, <1>2, <1>3, <1>4, CounterNames, CountersAssumption
        DEF CountersAssumption, TrailsInv

LEMMA TrailsNextReq ==
  ASSUME TrailsInv, NextReq PROVE TrailsInv'
<1>1. reqId \in 1 .. 1 + (Span - 1) - 1 /\ Span - 1 \in Nat \ {0} /\ reqId \in Nat
  BY CountersAssumption DEF CountersAssumption, TrailsInv, CountersTypeOK
<1>2. reqId' = Ahead(reqId, 1, Span - 1)
  BY <1>1, CountersAssumption DEF CountersAssumption, NextReq, Ahead
<1>3. /\ given' = [given EXCEPT !["req"] = Kept(given["req"], reqId, Span - 1)]
      /\ given' \in [Counter -> Seq(Nat)]
  BY <1>1, GiveKeeps, CounterNames DEF NextReq, TrailsInv
<1>4. Trail(given["req"]', reqId', 1, Span - 1)
  BY <1>1, <1>2, <1>3, TrailGoesOn, CounterNames DEF TrailsInv
<1>5. given["seq"]' = given["seq"] /\ \A kind \in Kind : given[kind]' = given[kind]
  BY <1>3, CounterNames DEF TrailsInv
<1>6. CountersTypeOK'
  BY CountersAssumption DEF CountersAssumption, TrailsInv, CountersTypeOK, NextReq
<1> QED BY <1>3, <1>4, <1>5, <1>6 DEF TrailsInv, NextReq

LEMMA TrailsNextSeq ==
  ASSUME TrailsInv, NextSeq PROVE TrailsInv'
<1>1. seq \in 0 .. 0 + Span - 1 /\ Span \in Nat \ {0} /\ seq \in Nat
  BY CountersAssumption DEF CountersAssumption, TrailsInv, CountersTypeOK
<1>2. seq % Span = seq
  BY <1>1, ModSmall
<1>3. seq' = Ahead(seq, 0, Span) /\ seq' \in 0 .. Span - 1
  <2>1. (seq + 1) % Span = IF (seq % Span) + 1 = Span THEN 0 ELSE (seq % Span) + 1
    BY <1>1, ModSucc
  <2>2. seq' = (seq + 1) % Span
    BY DEF NextSeq
  <2> QED BY <1>1, <1>2, <2>1, <2>2 DEF Ahead
<1>4. /\ given' = [given EXCEPT !["seq"] = Kept(given["seq"], seq, Span)]
      /\ given' \in [Counter -> Seq(Nat)]
  BY <1>1, GiveKeeps, CounterNames DEF NextSeq, TrailsInv
<1>5. Trail(given["seq"]', seq', 0, Span)
  BY <1>1, <1>3, <1>4, TrailGoesOn, CounterNames DEF TrailsInv
<1>6. given["req"]' = given["req"] /\ \A kind \in Kind : given[kind]' = given[kind]
  BY <1>4, CounterNames DEF TrailsInv
<1>7. CountersTypeOK'
  BY <1>3 DEF TrailsInv, CountersTypeOK, NextSeq
<1> QED BY <1>4, <1>5, <1>6, <1>7 DEF TrailsInv, NextSeq

\* The id made of an index goes round its own cycle, also where the index wraps.
LEMMA IdsGoRound ==
  ASSUME NEW n \in 0 .. Span - 1
  PROVE  /\ IdOf(n) \in 0 .. 0 + IdxSpan - 1 /\ IdOf(n) \in Nat
         /\ (n + 1) % Span \in 0 .. Span - 1
         /\ n + 1 < Span => (n + 1) % Span = n + 1
         /\ IdOf((n + 1) % Span) = Ahead(IdOf(n), 0, IdxSpan)
<1>1. Span \in Nat \ {0} /\ IdxSpan \in Nat \ {0} /\ Span % IdxSpan = 0
  BY CountersAssumption DEF CountersAssumption
<1>2. n % Span = n /\ n \in Nat
  BY <1>1, ModSmall
<1>3. (n + 1) % Span = IF n + 1 = Span THEN 0 ELSE n + 1
  <2>1. (n + 1) % Span = IF (n % Span) + 1 = Span THEN 0 ELSE (n % Span) + 1
    BY <1>1, <1>2, ModSucc
  <2> QED BY <1>2, <2>1, Zenon
<1>4. /\ n % IdxSpan \in 0 .. IdxSpan - 1
      /\ (n + 1) % IdxSpan = IF (n % IdxSpan) + 1 = IdxSpan THEN 0 ELSE (n % IdxSpan) + 1
  BY <1>1, <1>2, ModSucc
<1>5. 0 % IdxSpan = 0
  BY <1>1
<1>6. ((n + 1) % Span) % IdxSpan = (n + 1) % IdxSpan
  BY <1>1, <1>3, <1>5
<1>7. IdOf((n + 1) % Span) = Ahead(IdOf(n), 0, IdxSpan)
  BY <1>1, <1>4, <1>6 DEF IdOf, Ahead
<1> QED BY <1>1, <1>3, <1>4, <1>7 DEF IdOf

LEMMA TrailsAlloc ==
  ASSUME TrailsInv, NEW kind \in Kind, Alloc(kind) PROVE TrailsInv'
<1> DEFINE n == idx[kind]
<1>1. n \in 0 .. Span - 1 /\ idx \in [Kind -> 0 .. Span - 1]
  BY DEF TrailsInv, CountersTypeOK
<1>2. IdxSpan \in Nat \ {0} /\ Span \in Nat \ {0}
  BY CountersAssumption DEF CountersAssumption
<1>3. /\ IdOf(n) \in 0 .. 0 + IdxSpan - 1 /\ IdOf(n) \in Nat
      /\ (n + 1) % Span \in 0 .. Span - 1
      /\ n + 1 < Span => (n + 1) % Span = n + 1
      /\ IdOf((n + 1) % Span) = Ahead(IdOf(n), 0, IdxSpan)
  BY <1>1, IdsGoRound
<1>4. idx' = [idx EXCEPT ![kind] = (n + 1) % Span] /\ build' = build
      /\ reqId' = reqId /\ seq' = seq
  BY DEF Alloc
<1>5. /\ given' = [given EXCEPT ![kind] = Kept(given[kind], IdOf(n), IdxSpan)]
      /\ given' \in [Counter -> Seq(Nat)]
  BY <1>3, GiveKeeps, CounterNames DEF Alloc, TrailsInv
<1> HIDE DEF n
<1>6. Trail(given[kind], IdOf(n), 0, IdxSpan)
  BY DEF TrailsInv, n
<1>7. Trail(Kept(given[kind], IdOf(n), IdxSpan), Ahead(IdOf(n), 0, IdxSpan), 0, IdxSpan)
  BY <1>2, <1>3, <1>6, TrailGoesOn
<1>8. ASSUME NEW k \in Kind
      PROVE  Trail(given[k]', IdOf(idx'[k]), 0, IdxSpan)
  <2>1. CASE k = kind
    <3>1. given[k]' = Kept(given[kind], IdOf(n), IdxSpan) /\ idx'[k] = (n + 1) % Span
      BY <1>1, <1>4, <1>5, <2>1, CounterNames DEF TrailsInv
    <3> QED BY <1>3, <1>7, <3>1
  <2>2. CASE k # kind
    <3>1. given[k]' = given[k] /\ idx'[k] = idx[k]
      BY <1>1, <1>4, <1>5, <2>2, CounterNames DEF TrailsInv
    <3> QED BY <3>1 DEF TrailsInv
  <2> QED BY <2>1, <2>2
<1>9. given["req"]' = given["req"] /\ given["seq"]' = given["seq"]
  BY <1>5, CounterNames DEF TrailsInv
<1>10. idx' \in [Kind -> 0 .. Span - 1] /\ \A k \in Kind : build' => idx'[k] # 0
  <2>1. build => (n + 1) % Span # 0
    BY <1>1, <1>3 DEF Alloc, n
  <2> QED BY <1>1, <1>3, <1>4, <2>1 DEF TrailsInv, CountersTypeOK
<1>11. CountersTypeOK'
  BY <1>4, <1>10 DEF TrailsInv, CountersTypeOK
<1> QED BY <1>4, <1>5, <1>8, <1>9, <1>11 DEF TrailsInv, IdOf

\* Every step keeps the trails.
LEMMA TrailsStep ==
  ASSUME TrailsInv, [Next]_vars PROVE TrailsInv'
<1>1. CASE NextReq
  BY <1>1, TrailsNextReq
<1>2. CASE NextSeq
  BY <1>2, TrailsNextSeq
<1>3. CASE \E kind \in Kind : Alloc(kind)
  BY <1>3, TrailsAlloc
<1>4. ASSUME NEW kind \in Kind, AllocPanics(kind) PROVE TrailsInv'
  BY <1>4 DEF AllocPanics, TrailsInv, CountersTypeOK, IdOf
<1>5. CASE UNCHANGED vars
  BY <1>5 DEF vars, TrailsInv, CountersTypeOK, IdOf
<1> QED BY <1>1, <1>2, <1>3, <1>4, <1>5 DEF Next

LEMMA TrailsInvariant == Spec => []TrailsInv
BY TrailsInit, TrailsStep, PTL DEF Spec

\* Every reachable state of the counters is well typed: no request id is 0, and
\* no index of a build that checks for overflow is (next_req of src/session.rs,
\* and alloc_participant and the like).
THEOREM CountersTypeCorrect == Spec => []CountersTypeOK
<1>1. TrailsInv => CountersTypeOK
  BY DEF TrailsInv
<1> QED BY <1>1, TrailsInvariant, PTL

\* An object id returns only after all the others of its kind, and a request id
\* and a sequence number only after all the others, over any wraps of the
\* counters, for every width (next_req, next_seq, alloc_participant and the
\* like of src/session.rs).
THEOREM NumbersReturnLate == Spec => []LateReuse
<1>1. ASSUME TrailsInv PROVE LateReuse
  <2>1. Len(given["req"]) = Cardinality(ToSet(given["req"]))
    <3>1. reqId \in 1 .. 1 + (Span - 1) - 1 /\ Span - 1 \in Nat \ {0}
      BY <1>1, CountersAssumption DEF CountersAssumption, TrailsInv, CountersTypeOK
    <3> QED BY <1>1, <3>1, TrailDistinct DEF TrailsInv
  <2>2. Len(given["seq"]) = Cardinality(ToSet(given["seq"]))
    <3>1. seq \in 0 .. 0 + Span - 1 /\ Span \in Nat \ {0}
      BY <1>1, CountersAssumption DEF CountersAssumption, TrailsInv, CountersTypeOK
    <3> QED BY <1>1, <3>1, TrailDistinct DEF TrailsInv
  <2>3. ASSUME NEW kind \in Kind
        PROVE  Len(given[kind]) = Cardinality(ToSet(given[kind]))
    <3>1. idx[kind] \in 0 .. Span - 1 /\ IdxSpan \in Nat \ {0}
      BY <1>1, CountersAssumption DEF CountersAssumption, TrailsInv, CountersTypeOK
    <3>2. IdOf(idx[kind]) \in 0 .. 0 + IdxSpan - 1
      BY <3>1, IdsGoRound
    <3> QED BY <1>1, <3>1, <3>2, TrailDistinct DEF TrailsInv
  <2> QED BY <2>1, <2>2, <2>3 DEF LateReuse, Counter
<1> QED BY <1>1, TrailsInvariant, PTL

=============================================================================
