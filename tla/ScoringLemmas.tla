--------------------------- MODULE ScoringLemmas ---------------------------
(***************************************************************************)
(* What the scores of scoring.py do when one result gets a better verdict. *)
(* Whatever lists of results the code selects, the position of a result in *)
(* them depends on its category and its time alone.                        *)
(***************************************************************************)
EXTENDS Scoring, SumLemmas

\* better has the results but for the verdict of the i-th, which was neither
\* OK nor, unless it became OK, left out of the scores.
Improved(results, better, i) ==
  /\ IsFiniteSet(DOMAIN results) /\ DOMAIN better = DOMAIN results /\ i \in DOMAIN results
  /\ \A j \in DOMAIN results : /\ better[j].category = results[j].category
                               /\ better[j].rtt = results[j].rtt
                               /\ j # i => better[j].verdict = results[j].verdict
  /\ results[i].verdict # "OK"
  /\ better[i].verdict \in NON_SCORING_VERDICTS \cup {"OK"}
  /\ results[i].verdict \in NON_SCORING_VERDICTS => better[i].verdict = "OK"

-----------------------------------------------------------------------------
(* Arithmetic *)

\* The quotient is the number of whole divisors.
LEMMA Quotient ==
  ASSUME NEW x \in Nat, NEW n \in Nat, n > 0
  PROVE  /\ x \div n \in Nat
         /\ (x \div n) * n <= x
         /\ \A q \in Nat : q * n <= x => q <= x \div n
<1>1. x \div n \in Nat /\ n * (x \div n) <= x /\ x < n * (x \div n) + n
  OBVIOUS
<1>2. ASSUME NEW q \in Nat, q * n <= x, q > x \div n PROVE FALSE
  <2>1. q >= (x \div n) + 1
    BY <1>1, <1>2
  <2>2. q * n >= ((x \div n) + 1) * n
    BY <1>1, <2>1
  <2> QED BY <1>1, <1>2, <2>2
<1> QED BY <1>1, <1>2

\* A greater fraction has the greater percentage.
LEMMA RatioRises ==
  ASSUME NEW w \in Nat, NEW a \in Nat, NEW b \in Nat, NEW c \in Nat, NEW d \in Nat,
         b > 0, d > 0, a * d <= c * b
  PROVE  (w * a) \div b <= (w * c) \div d
<1> DEFINE q == (w * a) \div b
<1>1. q \in Nat /\ q * b <= w * a /\ w * a \in Nat /\ w * c \in Nat
  BY Quotient
<1>2. q * d <= w * c
  <2> HIDE DEF q
  <2>1. (q * b) * d <= (w * a) * d
    BY <1>1
  <2>2. (w * a) * d = w * (a * d) /\ w * (c * b) = (w * c) * b
    OBVIOUS
  <2>3. w * (a * d) <= w * (c * b)
    OBVIOUS
  <2>4. (q * d) * b <= (w * c) * b
    BY <1>1, <2>1, <2>2, <2>3
  <2>5. SUFFICES ASSUME q * d > w * c PROVE FALSE
    BY <1>1
  <2>6. q * d >= w * c + 1 /\ (w * c + 1) * b = (w * c) * b + b
    BY <1>1, <2>5
  <2>7. (q * d) * b >= (w * c + 1) * b
    BY <1>1, <2>6
  <2> QED BY <1>1, <2>4, <2>6, <2>7
<1> QED BY <1>1, <1>2, Quotient

LEMMA ProductRises ==
  ASSUME NEW w \in Nat, NEW a \in Nat, NEW b \in Nat, a <= b
  PROVE  a * w \in Nat /\ b * w \in Nat /\ a * w <= b * w
OBVIOUS

\* What Max and Min of two numbers are.
LEMMA TwoNumbers ==
  ASSUME NEW a \in Int, NEW b \in Int
  PROVE  /\ Max({a, b}) = IF a >= b THEN a ELSE b
         /\ Min({a, b}) = IF a <= b THEN a ELSE b
<1>1. PICK x \in {a, b} : \A y \in {a, b} : x >= y
  OBVIOUS
<1>2. PICK z \in {a, b} : \A y \in {a, b} : z <= y
  OBVIOUS
<1>3. Max({a, b}) \in {a, b} /\ \A y \in {a, b} : Max({a, b}) >= y
  BY <1>1 DEF Max
<1>4. Min({a, b}) \in {a, b} /\ \A y \in {a, b} : Min({a, b}) <= y
  BY <1>2 DEF Min
<1> QED BY <1>3, <1>4

\* A score is a number up to 100 that rises with the sum it is made of.
LEMMA ClampedRises ==
  ASSUME NEW a \in Nat, NEW b \in Nat, a <= b
  PROVE  Clamped(a) \in 0..100 /\ Clamped(b) \in 0..100 /\ Clamped(a) <= Clamped(b)
<1> DEFINE C(x) == Max({0, Min({100, x})})
<1>1. \A x \in Nat : C(x) = IF x <= 100 THEN x ELSE 100
  <2> TAKE x \in Nat
  <2>1. Min({100, x}) = IF 100 <= x THEN 100 ELSE x
    BY TwoNumbers
  <2>2. Min({100, x}) \in Nat
    BY <2>1
  <2>3. Max({0, Min({100, x})}) = IF 0 >= Min({100, x}) THEN 0 ELSE Min({100, x})
    BY <2>2, TwoNumbers
  <2> QED BY <2>1, <2>2, <2>3
<1>2. /\ a \div Whole \in Nat /\ b \div Whole \in Nat /\ a \div Whole <= b \div Whole
      /\ Clamped(a) = C(a \div Whole) /\ Clamped(b) = C(b \div Whole)
  BY DEF Whole, Clamped
<1> HIDE DEF C
<1> QED BY <1>1, <1>2

-----------------------------------------------------------------------------
(* The shares of OK *)

LEMMA OneMore ==
  ASSUME NEW S, IsFiniteSet(S), NEW x, x \notin S
  PROVE  IsFiniteSet(S \cup {x}) /\ Cardinality(S \cup {x}) = Cardinality(S) + 1
BY FS_AddElement

\* What the share is made of.
Relevant(results, S) == {i \in S : results[i].verdict \notin NON_SCORING_VERDICTS}
OkOnes(results, S) == {i \in Relevant(results, S) : results[i].verdict = "OK"}

LEMMA Shares ==
  ASSUME NEW results, NEW S, IsFiniteSet(S)
  PROVE  /\ IsFiniteSet(Relevant(results, S)) /\ IsFiniteSet(OkOnes(results, S))
         /\ OkOnes(results, S) \subseteq Relevant(results, S) /\ Relevant(results, S) \subseteq S
         /\ Cardinality(Relevant(results, S)) \in Nat /\ Cardinality(OkOnes(results, S)) \in Nat
         /\ Cardinality(OkOnes(results, S)) <= Cardinality(Relevant(results, S))
         /\ Relevant(results, S) # {} => Cardinality(Relevant(results, S)) > 0
<1>1. OkOnes(results, S) \subseteq Relevant(results, S) /\ Relevant(results, S) \subseteq S
  BY DEF OkOnes, Relevant
<1>2. IsFiniteSet(Relevant(results, S)) /\ IsFiniteSet(OkOnes(results, S))
  BY <1>1, FS_Subset
<1> QED BY <1>1, <1>2, FS_Subset, FS_CardinalityType, FS_EmptySet

LEMMA OkPctIs ==
  ASSUME NEW results, NEW S, IsFiniteSet(S)
  PROVE  LET n == Cardinality(Relevant(results, S))
             k == Cardinality(OkOnes(results, S))
         IN /\ S = {} => OkPct(results, S) = 0
            /\ S # {} /\ Relevant(results, S) = {} => OkPct(results, S) = Whole
            /\ Relevant(results, S) # {} => OkPct(results, S) = (Whole * k) \div n
            /\ OkPct(results, S) \in 0..Whole
<1> DEFINE n == Cardinality(Relevant(results, S))
           k == Cardinality(OkOnes(results, S))
<1>1. /\ S = {} => OkPct(results, S) = 0
      /\ S # {} /\ Relevant(results, S) = {} => OkPct(results, S) = Whole
      /\ Relevant(results, S) # {} => OkPct(results, S) = (Whole * k) \div n
  BY DEF OkPct, Relevant, OkOnes
<1>2. ASSUME Relevant(results, S) # {} PROVE (Whole * k) \div n \in 0..Whole
  <2>1. k \in Nat /\ n \in Nat /\ k <= n /\ n > 0
    BY <1>2, Shares
  <2> HIDE DEF k, n
  <2>2. Whole \in Nat /\ k * 1 <= 1 * n
    BY <2>1 DEF Whole
  <2>3. (Whole * k) \div n <= (Whole * 1) \div 1
    BY <2>1, <2>2, RatioRises
  <2>4. (Whole * k) \div n \in Nat
    BY <2>1, <2>2, Quotient
  <2>5. (Whole * 1) \div 1 = Whole
    BY DEF Whole
  <2> QED BY <2>2, <2>3, <2>4, <2>5
<1>3. OkPct(results, S) \in 0..Whole
  <2> DEFINE pct == OkPct(results, S)
             share == (Whole * k) \div n
  <2>1. /\ S = {} => pct = 0
        /\ S # {} /\ Relevant(results, S) = {} => pct = Whole
        /\ Relevant(results, S) # {} => pct = share /\ share \in 0..Whole
    BY <1>1, <1>2
  <2>2. Relevant(results, S) # {} => S # {}
    BY DEF Relevant
  <2> HIDE DEF pct, share
  <2>3. 0 \in 0..Whole /\ Whole \in 0..Whole
    BY DEF Whole
  <2>4. pct \in 0..Whole
    BY <2>1, <2>2, <2>3
  <2> QED BY <2>4 DEF pct
<1> QED BY <1>1, <1>3

\* A better verdict never lowers the share of OK: an OK adds one to it, and
\* what is left out of the scores was none.
LEMMA OkPctRises ==
  ASSUME NEW results, NEW better, NEW i, Improved(results, better, i),
         NEW S \in SUBSET DOMAIN results
  PROVE  /\ OkPct(results, S) \in Nat /\ OkPct(better, S) \in Nat
         /\ OkPct(results, S) <= OkPct(better, S)
<1> DEFINE R == Relevant(results, S)
           K == OkOnes(results, S)
           R2 == Relevant(better, S)
           K2 == OkOnes(better, S)
<1>0. IsFiniteSet(S)
  BY FS_Subset DEF Improved
<1>1. /\ IsFiniteSet(R) /\ IsFiniteSet(K) /\ IsFiniteSet(R2) /\ IsFiniteSet(K2) /\ K \subseteq R
      /\ Cardinality(R) \in Nat /\ Cardinality(K) \in Nat
      /\ Cardinality(R2) \in Nat /\ Cardinality(K2) \in Nat
      /\ Cardinality(K) <= Cardinality(R) /\ Cardinality(K2) <= Cardinality(R2)
      /\ R # {} => Cardinality(R) > 0
      /\ R2 # {} => Cardinality(R2) > 0
  BY <1>0, Shares
<1>2. \/ R2 = R /\ K2 = K
      \/ i \in R /\ i \notin K /\ R2 = R \ {i} /\ K2 = K
      \/ i \in R /\ i \notin K /\ R2 = R /\ K2 = K \cup {i}
      \/ i \in S /\ i \notin R /\ i \notin K /\ R2 = R \cup {i} /\ K2 = K \cup {i}
  <2>1. "OK" \notin NON_SCORING_VERDICTS
    BY DEF NON_SCORING_VERDICTS
  <2>2. \A j \in S : j # i => /\ (j \in R2 <=> j \in R)
                              /\ (j \in K2 <=> j \in K)
    BY DEF Improved, Relevant, OkOnes
  <2>3. R \subseteq S /\ R2 \subseteq S /\ K \subseteq S /\ K2 \subseteq S /\ i \notin K
    BY DEF Improved, Relevant, OkOnes
  <2>4. i \in R2 => i \in K2
    BY DEF Improved, Relevant, OkOnes
  <2>5. i \in S /\ i \notin R => i \in K2
    BY <2>1 DEF Improved, Relevant, OkOnes
  <2>6. K2 \subseteq R2
    BY DEF OkOnes
  <2> HIDE DEF R, K, R2, K2
  <2> QED BY <1>1, <2>2, <2>3, <2>4, <2>5, <2>6
<1>3. /\ S # {} /\ R = {} => OkPct(results, S) = Whole
      /\ R # {} => OkPct(results, S) = (Whole * Cardinality(K)) \div Cardinality(R)
      /\ OkPct(results, S) \in 0..Whole
  BY <1>0, OkPctIs
<1>4. /\ S # {} /\ R2 = {} => OkPct(better, S) = Whole
      /\ R2 # {} => OkPct(better, S) = (Whole * Cardinality(K2)) \div Cardinality(R2)
      /\ OkPct(better, S) \in 0..Whole /\ (S = {} => OkPct(better, S) = 0 /\ OkPct(results, S) = 0)
  BY <1>0, OkPctIs
<1>5. Whole \in Nat /\ R \subseteq S /\ R2 \subseteq S
  BY DEF Whole, Relevant
<1> HIDE DEF R, K, R2, K2
<1>6. ASSUME R # {}, R2 # {},
             Cardinality(K) * Cardinality(R2) <= Cardinality(K2) * Cardinality(R)
      PROVE  OkPct(results, S) <= OkPct(better, S)
  BY <1>1, <1>3, <1>4, <1>5, <1>6, RatioRises
<1>6a. OkPct(results, S) <= Whole /\ OkPct(results, S) \in Nat /\ OkPct(better, S) \in Nat
  <2>1. OkPct(results, S) \in 0..Whole
    BY <1>3
  <2>2. OkPct(better, S) \in 0..Whole
    BY <1>4
  <2> QED BY <1>5, <2>1, <2>2
<1> SUFFICES OkPct(results, S) <= OkPct(better, S)
  BY <1>6a
<1>7. CASE R2 = {}
  <2>1. CASE S = {}
    <3>1. OkPct(better, S) = 0 /\ OkPct(results, S) = 0
      BY <1>4, <2>1
    <3> QED BY <3>1
  <2>2. CASE S # {}
    <3>1. OkPct(better, S) = Whole
      BY <1>4, <1>7, <2>2
    <3> QED BY <1>6a, <3>1
  <2> QED BY <2>1, <2>2
<1>8. CASE R2 # {} /\ R = {}
  <2>1. R2 = {i} /\ K2 = {i} /\ K = {} /\ i \notin {}
    BY <1>1, <1>2, <1>8
  <2>2. Cardinality(R2) = 1 /\ Cardinality(K2) = 1
    BY <2>1, FS_Singleton
  <2>3. OkPct(better, S) = Whole
    <3>1. (Whole * 1) \div 1 = Whole
      BY DEF Whole
    <3> QED BY <1>4, <1>8, <2>2, <3>1
  <2> QED BY <1>6a, <2>3
<1>9. CASE R2 # {} /\ R # {}
  <2>1. CASE R2 = R /\ K2 = K
    BY <1>3, <1>4, <1>9, <2>1
  <2>2. CASE i \in R /\ i \notin K /\ R2 = R \ {i} /\ K2 = K
    <3>1. Cardinality(R2) = Cardinality(R) - 1
      BY <1>1, <2>2, FS_RemoveElement
    <3>2. Cardinality(K) * Cardinality(R2) <= Cardinality(K) * Cardinality(R)
      BY <1>1, <3>1
    <3>3. Cardinality(K) * Cardinality(R2) <= Cardinality(K2) * Cardinality(R)
      BY <2>2, <3>2
    <3> QED BY <1>3, <1>4, <1>5, <1>6, <1>9, <3>3
  <2>3. CASE i \in R /\ i \notin K /\ R2 = R /\ K2 = K \cup {i}
    <3>1. Cardinality(K2) = Cardinality(K) + 1
      BY <1>1, <2>3, OneMore
    <3>2. Cardinality(K) * Cardinality(R) <= (Cardinality(K) + 1) * Cardinality(R)
      BY <1>1
    <3>3. Cardinality(K) * Cardinality(R2) <= Cardinality(K2) * Cardinality(R)
      BY <2>3, <3>1, <3>2
    <3> QED BY <1>3, <1>4, <1>5, <1>6, <1>9, <3>3
  <2>4. CASE i \notin R /\ i \notin K /\ R2 = R \cup {i} /\ K2 = K \cup {i}
    <3>1. Cardinality(K2) = Cardinality(K) + 1 /\ Cardinality(R2) = Cardinality(R) + 1
      BY <1>1, <2>4, OneMore
    <3>2. Cardinality(K) * (Cardinality(R) + 1) <= (Cardinality(K) + 1) * Cardinality(R)
      BY <1>1
    <3>3. Cardinality(K) * Cardinality(R2) <= Cardinality(K2) * Cardinality(R)
      BY <2>4, <3>1, <3>2
    <3> QED BY <1>3, <1>4, <1>5, <1>6, <1>9, <3>3
  <2> QED BY <1>2, <2>1, <2>2, <2>3, <2>4
<1>10. OkPct(results, S) <= OkPct(better, S)
  BY <1>7, <1>8, <1>9
<1> QED BY <1>10

-----------------------------------------------------------------------------
(* The parts of the scores *)

\* The lists that the code selects do not depend on the verdicts.
LEMMA SameSelection ==
  ASSUME NEW results, NEW better, NEW i, Improved(results, better, i), NEW c
  PROVE  /\ OfCategory(better, c) = OfCategory(results, c)
         /\ OfCategory(results, c) \in SUBSET DOMAIN results
         /\ Latency(better) = Latency(results)
<1>1. \A k : OfCategory(better, k) = OfCategory(results, k)
  BY DEF Improved, OfCategory
<1>2. OfCategory(results, c) \in SUBSET DOMAIN results
  BY DEF OfCategory
<1>3. Latency(better) = Latency(results)
  <2> DEFINE timed(f) == {j \in OfCategory(f, "tcp") : f[j].rtt >= 0}
             below(f, ms) == {j \in timed(f) : f[j].rtt < ms}
  <2>1. \A j \in OfCategory(results, "tcp") : better[j].rtt = results[j].rtt
    BY DEF Improved, OfCategory
  <2>2. timed(better) = timed(results)
    BY <1>1, <2>1
  <2>3. \A ms : below(better, ms) = below(results, ms)
    BY <2>1, <2>2
  <2>4. LatencyScore(better, timed(better)) = LatencyScore(results, timed(results))
    <3> HIDE DEF timed
    <3> DEFINE n(f, ms) == Cardinality({j \in timed(f) : f[j].rtt < ms})
    <3>1. /\ n(better, 10) = n(results, 10) /\ n(better, 50) = n(results, 50)
          /\ n(better, 100) = n(results, 100) /\ n(better, 200) = n(results, 200)
          /\ n(better, 500) = n(results, 500)
      BY <2>3
    <3>2. \A f : LatencyScore(f, timed(f)) =
            LET under(ms) == n(f, ms) > Cardinality(timed(f)) \div 2
            IN IF timed(f) = {} THEN 50
               ELSE CASE under(10) -> 100
                      [] under(50) /\ ~ under(10) -> 90
                      [] under(100) /\ ~ under(50) -> 75
                      [] under(200) /\ ~ under(100) -> 50
                      [] under(500) /\ ~ under(200) -> 25
                      [] ~ under(500) -> 0
      BY DEF LatencyScore
    <3> HIDE DEF n
    <3> QED BY <2>2, <3>1, <3>2
  <2> QED BY <2>4 DEF Latency
<1> QED BY <1>1, <1>2, <1>3

\* The score of the times is one of six numbers.
LEMMA LatencyType ==
  ASSUME NEW results
  PROVE  Latency(results) \in Nat
<1> DEFINE timed == {j \in OfCategory(results, "tcp") : results[j].rtt >= 0}
           below(ms) == Cardinality({j \in timed : results[j].rtt < ms}) > Cardinality(timed) \div 2
<1>1. LatencyScore(results, timed) \in {0, 25, 50, 75, 90, 100}
  <2> HIDE DEF timed
  <2>1. CASE below(10)
    BY <2>1 DEF LatencyScore
  <2> QED BY DEF LatencyScore
<1> HIDE DEF timed
<1>2. (Whole * LatencyScore(results, timed)) \div 100 \in Nat
  BY <1>1 DEF Whole
<1> QED BY <1>2 DEF Latency, timed

\* A verdict that gets better is no longer THROTTLED, so the penalty stays
\* away if it was.
LEMMA CensorshipRises ==
  ASSUME NEW results, NEW better, NEW i, Improved(results, better, i)
  PROVE  /\ Uplink(results) \in Nat /\ Uplink(better) \in Nat
         /\ Censorship(results) \in Nat /\ Censorship(better) \in Nat
         /\ Uplink(results) <= Uplink(better) /\ Censorship(results) <= Censorship(better)
<1>1. Uplink(results) \in Nat /\ Uplink(better) \in Nat /\ Uplink(results) <= Uplink(better)
  BY SameSelection, OkPctRises DEF Uplink
<1>2. ThrottlingDetected(better) => ThrottlingDetected(results)
  BY DEF Improved, ThrottlingDetected, NON_SCORING_VERDICTS
<1>3. \A x \in Nat : Max({0, x - 2000}) = IF x <= 2000 THEN 0 ELSE x - 2000
  BY TwoNumbers
<1>4. /\ Censorship(results) = IF ThrottlingDetected(results)
                                 THEN IF Uplink(results) <= 2000 THEN 0 ELSE Uplink(results) - 2000
                                 ELSE Uplink(results)
      /\ Censorship(better) = IF ThrottlingDetected(better)
                                THEN IF Uplink(better) <= 2000 THEN 0 ELSE Uplink(better) - 2000
                                ELSE Uplink(better)
  BY <1>1, <1>3 DEF Censorship
<1> HIDE DEF Uplink, Censorship, ThrottlingDetected
<1> QED BY <1>1, <1>2, <1>4

\* The mean credit of the protocols is a number.
LEMMA ReachabilityType ==
  ASSUME NEW reports, IsFiniteSet(DOMAIN reports),
         \A i \in DOMAIN reports : IsFiniteSet(DOMAIN reports[i])
  PROVE  ProtocolReachability(reports) \in Nat
<1> DEFINE Of(i) == {<<i, p>> : p \in DOMAIN reports[i]}
           All == {Of(i) : i \in DOMAIN reports}
           verdicts == UNION All
           credit == [v \in verdicts |-> ProtocolCredit(reports[v[1]][v[2]])]
<1>1. ASSUME NEW i \in DOMAIN reports PROVE IsFiniteSet(Of(i))
  <2>1. IsFiniteSet(DOMAIN reports[i])
    BY <1>1
  <2> DEFINE pair(p) == <<i, p>>
  <2>2. IsFiniteSet({<<i, p>> : p \in DOMAIN reports[i]})
    <3>1. [p \in DOMAIN reports[i] |-> <<i, p>>] \in Surjection(DOMAIN reports[i], Of(i))
      BY DEF Surjection
    <3> QED BY <2>1, <3>1, FS_Surjection
  <2> QED BY <2>2
<1>2. IsFiniteSet(All)
  <2> DEFINE f == [i \in DOMAIN reports |-> Of(i)]
  <2>1. f \in Surjection(DOMAIN reports, All)
    BY DEF Surjection
  <2> QED BY <2>1, FS_Surjection
<1>3. IsFiniteSet(verdicts)
  <2>1. \A T \in All : IsFiniteSet(T)
    BY <1>1
  <2> HIDE DEF All
  <2> QED BY <1>2, <2>1, FS_UNION
<1> HIDE DEF verdicts, credit
<1>4. \A v \in verdicts : credit[v] \in Nat
  BY DEF credit, ProtocolCredit, Whole
<1>5. SumOver(credit, verdicts) \in Nat
  BY <1>3, <1>4, SumType
<1>6. verdicts # {} => Cardinality(verdicts) \in Nat /\ Cardinality(verdicts) > 0
  BY <1>3, FS_CardinalityType, FS_EmptySet
<1>7. verdicts # {} => SumOver(credit, verdicts) \div Cardinality(verdicts) \in Nat
  BY <1>5, <1>6, Quotient
<1>8. ProtocolReachability(reports) =
        IF verdicts = {} THEN Whole \div 2 ELSE SumOver(credit, verdicts) \div Cardinality(verdicts)
  BY DEF ProtocolReachability, SumOver, credit, verdicts
<1> QED BY <1>7, <1>8 DEF Whole

\* The weights are numbers.
LEMMA Weights ==
  /\ EntryWeights.protocol \in Nat /\ EntryWeights.uplink \in Nat /\ EntryWeights.latency \in Nat
  /\ ExitWeights.uplink \in Nat /\ ExitWeights.censorship \in Nat
  /\ RelayWeights.tcp \in Nat /\ RelayWeights.latency \in Nat
BY ScoringAssumption DEF ScoringAssumption

\* No score falls when one verdict gets better.
LEMMA ScoresRise ==
  ASSUME NEW results, NEW better, NEW i, Improved(results, better, i),
         NEW reports, IsFiniteSet(DOMAIN reports),
         \A j \in DOMAIN reports : IsFiniteSet(DOMAIN reports[j])
  PROVE  /\ ExitScore(better) >= ExitScore(results)
         /\ RelayScore(better) >= RelayScore(results)
         /\ EntryScore(better, reports) >= EntryScore(results, reports)
         /\ Overall(better, reports) >= Overall(results, reports)
<1> DEFINE U == Uplink(results)
           U2 == Uplink(better)
           C == Censorship(results)
           C2 == Censorship(better)
           T == TcpOk(results)
           T2 == TcpOk(better)
           L == Latency(results)
           P == ProtocolReachability(reports)
<1>1. U \in Nat /\ U2 \in Nat /\ U <= U2 /\ C \in Nat /\ C2 \in Nat /\ C <= C2
  BY CensorshipRises
<1>2. T \in Nat /\ T2 \in Nat /\ T <= T2
  BY SameSelection, OkPctRises DEF TcpOk
<1>3. L \in Nat /\ Latency(better) = L /\ P \in Nat
  BY SameSelection, LatencyType, ReachabilityType
<1>4. /\ Clamped(U * ExitWeights.uplink + C * ExitWeights.censorship) = ExitScore(results)
      /\ Clamped(U2 * ExitWeights.uplink + C2 * ExitWeights.censorship) = ExitScore(better)
      /\ Clamped(T * RelayWeights.tcp + L * RelayWeights.latency) = RelayScore(results)
      /\ Clamped(T2 * RelayWeights.tcp + L * RelayWeights.latency) = RelayScore(better)
      /\ Clamped(P * EntryWeights.protocol + U * EntryWeights.uplink + L * EntryWeights.latency)
           = EntryScore(results, reports)
      /\ Clamped(P * EntryWeights.protocol + U2 * EntryWeights.uplink + L * EntryWeights.latency)
           = EntryScore(better, reports)
  BY <1>3 DEF ExitScore, RelayScore, EntryScore
<1> HIDE DEF U, U2, C, C2, T, T2, L, P
<1>5. /\ ExitScore(results) \in 0..100 /\ ExitScore(better) \in 0..100
      /\ ExitScore(results) <= ExitScore(better)
  <2>1. /\ U * ExitWeights.uplink \in Nat /\ U2 * ExitWeights.uplink \in Nat
        /\ U * ExitWeights.uplink <= U2 * ExitWeights.uplink
    BY <1>1, Weights, ProductRises
  <2>2. /\ C * ExitWeights.censorship \in Nat /\ C2 * ExitWeights.censorship \in Nat
        /\ C * ExitWeights.censorship <= C2 * ExitWeights.censorship
    BY <1>1, Weights, ProductRises
  <2>3. /\ U * ExitWeights.uplink + C * ExitWeights.censorship \in Nat
        /\ U2 * ExitWeights.uplink + C2 * ExitWeights.censorship \in Nat
        /\ U * ExitWeights.uplink + C * ExitWeights.censorship
             <= U2 * ExitWeights.uplink + C2 * ExitWeights.censorship
    BY <2>1, <2>2
  <2> QED BY <1>4, <2>3, ClampedRises
<1>6. /\ RelayScore(results) \in 0..100 /\ RelayScore(better) \in 0..100
      /\ RelayScore(results) <= RelayScore(better)
  <2>1. /\ T * RelayWeights.tcp \in Nat /\ T2 * RelayWeights.tcp \in Nat
        /\ T * RelayWeights.tcp <= T2 * RelayWeights.tcp
    BY <1>2, Weights, ProductRises
  <2>2. L * RelayWeights.latency \in Nat
    BY <1>3, Weights, ProductRises
  <2>3. /\ T * RelayWeights.tcp + L * RelayWeights.latency \in Nat
        /\ T2 * RelayWeights.tcp + L * RelayWeights.latency \in Nat
        /\ T * RelayWeights.tcp + L * RelayWeights.latency
             <= T2 * RelayWeights.tcp + L * RelayWeights.latency
    BY <2>1, <2>2
  <2> QED BY <1>4, <2>3, ClampedRises
<1>7. /\ EntryScore(results, reports) \in 0..100 /\ EntryScore(better, reports) \in 0..100
      /\ EntryScore(results, reports) <= EntryScore(better, reports)
  <2>1. /\ U * EntryWeights.uplink \in Nat /\ U2 * EntryWeights.uplink \in Nat
        /\ U * EntryWeights.uplink <= U2 * EntryWeights.uplink
    BY <1>1, Weights, ProductRises
  <2>2. P * EntryWeights.protocol \in Nat /\ L * EntryWeights.latency \in Nat
    BY <1>3, Weights, ProductRises
  <2>3. /\ P * EntryWeights.protocol + U * EntryWeights.uplink + L * EntryWeights.latency \in Nat
        /\ P * EntryWeights.protocol + U2 * EntryWeights.uplink + L * EntryWeights.latency \in Nat
        /\ P * EntryWeights.protocol + U * EntryWeights.uplink + L * EntryWeights.latency
             <= P * EntryWeights.protocol + U2 * EntryWeights.uplink + L * EntryWeights.latency
    BY <2>1, <2>2
  <2> QED BY <1>4, <2>3, ClampedRises
<1>8. Overall(better, reports) >= Overall(results, reports)
  <2> DEFINE a == EntryScore(results, reports)
             b == ExitScore(results)
             c == RelayScore(results)
             x == EntryScore(better, reports)
             y == ExitScore(better)
             z == RelayScore(better)
  <2>1. /\ a \in 0..100 /\ b \in 0..100 /\ c \in 0..100
        /\ x \in 0..100 /\ y \in 0..100 /\ z \in 0..100
        /\ a <= x /\ b <= y /\ c <= z
    BY <1>5, <1>6, <1>7
  <2>2. /\ Overall(results, reports) = IF reports = <<>> THEN (b + c) \div 2 ELSE (a + b + c) \div 3
        /\ Overall(better, reports) = IF reports = <<>> THEN (y + z) \div 2 ELSE (x + y + z) \div 3
    BY DEF Overall
  <2> HIDE DEF a, b, c, x, y, z
  <2>3. /\ (y + z) \div 2 >= (b + c) \div 2
        /\ (x + y + z) \div 3 >= (a + b + c) \div 3
    <3>1. (y + z) \div 2 >= (b + c) \div 2
      BY <2>1
    <3>2. (x + y + z) \div 3 >= (a + b + c) \div 3
      BY <2>1
    <3> QED BY <3>1, <3>2
  <2>4. CASE reports = <<>>
    BY <2>2, <2>3, <2>4
  <2>5. CASE reports # <<>>
    BY <2>2, <2>3, <2>5
  <2> QED BY <2>4, <2>5
<1> QED BY <1>5, <1>6, <1>7, <1>8
=============================================================================
