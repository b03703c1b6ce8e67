------------------------ MODULE EndpointVerdictProofs ------------------------
(***************************************************************************)
(* What EndpointVerdict promises, for windows of any length.  The heart is *)
(* the median, which DetectorCore chooses by counting: the k-th smallest   *)
(* measurement exists and is the only one (KthExists, KthUnique), and it   *)
(* depends on the measurements and not on their order (KthSame).           *)
(***************************************************************************)
EXTENDS EndpointVerdict, FiniteSetTheorems, SequenceTheorems, TLAPS

(* Positions of measurements below, up to, and within some latencies. *)
Below(w, v) == {i \in Measured(w) : w[i].latency_ms < v}
UpTo(w, v) == {i \in Measured(w) : w[i].latency_ms <= v}
Within(w, S) == {i \in Measured(w) : w[i].latency_ms \in S}

Failed(w) == {i \in DOMAIN w : ~ w[i].success}

IsKthSmallest(w, k, v) ==
  /\ \E i \in Measured(w) : v = w[i].latency_ms
  /\ Cardinality(Below(w, v)) < k
  /\ k <= Cardinality(UpTo(w, v))

-----------------------------------------------------------------------------

(* Windows and their positions. *)

(* What perform_check records: a success has a latency. *)
LEMMA SampleFacts ==
  ASSUME NEW c \in Sample
  PROVE  /\ c.success \in BOOLEAN
         /\ c.success => c.latency_ms \in Latency /\ c.latency_ms \in Nat
         /\ c.success => c.latency_ms # NULL
<1>. DEFINE fetches == Checker!Responses({200}, Latency)
                         \cup Checker!Responses({500}, Unexpected) \cup Checker!Exceptions
<1>1. PICK v \in Checker!Validations, f \in fetches :
        LET r == Checker!PerformCheck(v, f, 200) IN
        c = [success |-> r.success, latency_ms |-> r.latency_ms]
  <2>1. Sample = Checker!Samples(fetches, 200)
    BY DEF Sample
  <2>2. \E x \in {Checker!PerformCheck(v, f, 200) : v \in Checker!Validations, f \in fetches} :
          c = [success |-> x.success, latency_ms |-> x.latency_ms]
    <3>. HIDE DEF fetches
    <3>. QED  BY <2>1 DEF Checker!Samples
  <2>. HIDE DEF fetches
  <2>. QED  BY <2>2
<1>. DEFINE r == Checker!PerformCheck(v, f, 200)
<1>2. \A error_type : /\ Checker!Unanswered(error_type).success = FALSE
                      /\ Checker!Unanswered(error_type).latency_ms = NULL
  BY DEF Checker!Unanswered, Checker!CheckResult
<1>3. ASSUME v = "valid", f.ended = "response"
      PROVE  r.success \in BOOLEAN /\ (r.success => r.latency_ms \in Latency)
  <2>1. f \in Checker!Responses({200}, Latency) \cup Checker!Responses({500}, Unexpected)
    BY <1>3 DEF Checker!Exceptions
  <2>2. r = Checker!Answered(f, 200)
    BY <1>3 DEF Checker!PerformCheck, Checker!Requested
  <2>3. f.status_code = 200 => f.latency_ms \in Latency
    BY <2>1 DEF Checker!Responses
  <2>. HIDE DEF r
  <2>4. CASE f.status_code = 200
    BY <2>2, <2>3, <2>4 DEF Checker!Answered, Checker!CheckResult
  <2>5. CASE f.status_code # 200
    <3>1. r.success = FALSE
      BY <2>2, <2>5 DEF Checker!Answered, Checker!CheckResult
    <3>. QED  BY <3>1
  <2>. QED  BY <2>4, <2>5
<1>4. ASSUME ~ (v = "valid" /\ f.ended = "response")
      PROVE  r.success = FALSE
  <2>1. CASE v = "unresolved"
    BY <2>1, <1>2 DEF Checker!PerformCheck
  <2>2. CASE v = "refused"
    BY <2>2, <1>2 DEF Checker!PerformCheck
  <2>3. CASE v = "valid"
    <3>1. r = Checker!Requested(f, 200)
      BY <2>3 DEF Checker!PerformCheck
    <3>2. f.ended \in {"TimeoutException", "ConnectError", "HTTPError"}
      BY <1>4, <2>3 DEF Checker!Responses, Checker!Exceptions
    <3>3. Checker!Requested(f, 200).success = FALSE
      BY <3>2, <1>2 DEF Checker!Requested
    <3>. QED  BY <3>1, <3>3
  <2>. QED  BY <2>1, <2>2, <2>3 DEF Checker!Validations
<1>5. c.success = r.success /\ c.latency_ms = r.latency_ms
  BY <1>1
<1>6. c.success \in BOOLEAN /\ (c.success => c.latency_ms \in Latency)
  BY <1>3, <1>4, <1>5
<1>. QED  BY <1>6, VerdictAssumption

(* A success enters the median, a failure does not. *)
LEMMA WindowFacts ==
  ASSUME NEW w \in Seq(Sample)
  PROVE  /\ DOMAIN w = 1..Len(w) /\ Len(w) \in Nat
         /\ IsFiniteSet(DOMAIN w) /\ Cardinality(DOMAIN w) = Len(w)
         /\ \A i \in DOMAIN w : w[i] \in Sample
         /\ Measured(w) = DOMAIN w \ Failed(w)
         /\ \A i \in Measured(w) :
              w[i].success /\ w[i].latency_ms \in Latency /\ w[i].latency_ms \in Nat
<1>1. DOMAIN w = 1..Len(w) /\ Len(w) \in Nat /\ \A i \in DOMAIN w : w[i] \in Sample
  OBVIOUS
<1>2. IsFiniteSet(DOMAIN w) /\ Cardinality(DOMAIN w) = Len(w)
  BY <1>1, FS_Interval
<1>3. Measured(w) = DOMAIN w \ Failed(w)
  BY <1>1, SampleFacts DEF Measured, Failed
<1>4. \A i \in Measured(w) :
        w[i].success /\ w[i].latency_ms \in Latency /\ w[i].latency_ms \in Nat
  BY <1>1, SampleFacts DEF Measured
<1>. QED  BY <1>1, <1>2, <1>3, <1>4

(* Any set of positions of a window is finite, a smaller one has fewer. *)
LEMMA PositionsFinite ==
  ASSUME NEW w \in Seq(Sample), NEW T \in SUBSET DOMAIN w
  PROVE  /\ IsFiniteSet(T) /\ Cardinality(T) \in Nat /\ Cardinality(T) <= Len(w)
         /\ \A S \in SUBSET T : /\ IsFiniteSet(S) /\ Cardinality(S) \in Nat
                                /\ Cardinality(S) <= Cardinality(T)
                                /\ Cardinality(S) = Cardinality(T) => S = T
<1>1. IsFiniteSet(T) /\ Cardinality(T) <= Len(w)
  BY WindowFacts, FS_Subset
<1>2. Cardinality(T) \in Nat
  BY <1>1, FS_CardinalityType
<1>3. ASSUME NEW S \in SUBSET T
      PROVE  /\ IsFiniteSet(S) /\ Cardinality(S) \in Nat
             /\ Cardinality(S) <= Cardinality(T)
             /\ Cardinality(S) = Cardinality(T) => S = T
  BY <1>1, FS_Subset, FS_CardinalityType
<1>. QED  BY <1>1, <1>2, <1>3

LEMMA CountedIsThere ==
  ASSUME NEW T, Cardinality(T) \in Nat, Cardinality(T) >= 1
  PROVE  T # {}
<1>1. Cardinality({}) = 0
  BY FS_EmptySet
<1>. QED  BY <1>1

(* A window is its failures and its measurements. *)
LEMMA LenIsCounted ==
  ASSUME NEW w \in Seq(Sample)
  PROVE  /\ FailedChecks(w) \in Nat /\ Cardinality(Measured(w)) \in Nat
         /\ Len(w) = FailedChecks(w) + Cardinality(Measured(w))
<1>1. FailedChecks(w) = Cardinality(Failed(w))
  BY DEF FailedChecks, Failed
<1>2. Failed(w) \in SUBSET DOMAIN w /\ Measured(w) \in SUBSET DOMAIN w
  BY DEF Failed, Measured
<1>3. DOMAIN w \cap Failed(w) = Failed(w)
  BY <1>2
<1>4. IsFiniteSet(DOMAIN w) /\ Cardinality(DOMAIN w) = Len(w) /\ Len(w) \in Nat
  BY WindowFacts
<1>5. Cardinality(DOMAIN w \ Failed(w))
        = Cardinality(DOMAIN w) - Cardinality(DOMAIN w \cap Failed(w))
  BY <1>4, FS_Difference
<1>6. Cardinality(Failed(w)) \in Nat
  BY <1>2, PositionsFinite
<1>7. Cardinality(Measured(w)) \in Nat
  BY <1>2, PositionsFinite
<1>8. Cardinality(Measured(w)) = Len(w) - Cardinality(Failed(w))
  BY <1>3, <1>4, <1>5, WindowFacts
<1>. QED  BY <1>1, <1>4, <1>6, <1>7, <1>8

-----------------------------------------------------------------------------

(* Order without induction. *)

(* A set of natural numbers has a least one. *)
LEMMA LeastNatural ==
  ASSUME NEW S \in SUBSET Nat, S # {}
  PROVE  \E n \in S : \A m \in S : n <= m
<1>1. PICK n \in S : \A m \in S : ~ (<<m, n>> \in OpToRel(<, Nat))
  BY NatLessThanWellFounded, WFMin
<1>2. ASSUME NEW m \in S
      PROVE  n <= m
  <2>1. ~ (m < n)
    BY <1>1 DEF OpToRel
  <2>. QED  BY <2>1
<1>. QED  BY <1>2

(* Some positions have a measurement that is greatest among them: the one  *)
(* that leaves the fewest out of those up to it.                           *)
LEMMA GreatestMeasurement ==
  ASSUME NEW w \in Seq(Sample), NEW T \in SUBSET Measured(w), T # {}
  PROVE  \E i \in T : \A j \in T : w[j].latency_ms <= w[i].latency_ms
<1>. DEFINE UpToIn(i) == {j \in T : w[j].latency_ms <= w[i].latency_ms}
            left(i) == Cardinality(T) - Cardinality(UpToIn(i))
<1>1. T \in SUBSET DOMAIN w /\ \A i \in T : w[i].latency_ms \in Nat
  BY WindowFacts DEF Measured
<1>2. \A i \in T : UpToIn(i) \in SUBSET T
  OBVIOUS
<1>3. \A i \in T : left(i) \in Nat /\ Cardinality(UpToIn(i)) \in Nat
  BY <1>1, <1>2, PositionsFinite
<1>4. PICK n \in {left(i) : i \in T} : \A m \in {left(i) : i \in T} : n <= m
  <2>. HIDE DEF left
  <2>1. {left(i) : i \in T} \in SUBSET Nat /\ {left(i) : i \in T} # {}
    BY <1>3
  <2>. QED  BY <2>1, LeastNatural
<1>5. PICK i \in T : n = left(i)
  BY <1>4
<1>6. ASSUME NEW j \in T, ~ (w[j].latency_ms <= w[i].latency_ms)
      PROVE  FALSE
  <2>1. UpToIn(i) \subseteq UpToIn(j)
    BY <1>1, <1>6
  <2>2. j \in UpToIn(j) /\ j \notin UpToIn(i)
    BY <1>1, <1>6
  <2>3. /\ Cardinality(UpToIn(i)) <= Cardinality(UpToIn(j))
        /\ Cardinality(UpToIn(i)) # Cardinality(UpToIn(j))
    <3>. DEFINE A == UpToIn(i)
                B == UpToIn(j)
    <3>1. A \in SUBSET B /\ A # B /\ B \in SUBSET DOMAIN w
      BY <2>1, <2>2, <1>1
    <3>. HIDE DEF A, B
    <3>2. Cardinality(A) <= Cardinality(B) /\ Cardinality(A) # Cardinality(B)
      BY <3>1, PositionsFinite
    <3>. QED  BY <3>2 DEF A, B
  <2>4. left(i) <= left(j)
    BY <1>4, <1>5
  <2>5. Cardinality(T) \in Nat
    BY <1>1, PositionsFinite
  <2>. HIDE DEF UpToIn
  <2>. QED  BY <2>3, <2>4, <2>5, <1>3
<1>. QED  BY <1>6

-----------------------------------------------------------------------------

(* The median. *)

(* Of n measurements, the k-th smallest exists for k of 1 to n. *)
LEMMA KthExists ==
  ASSUME NEW w \in Seq(Sample), NEW k \in 1..Cardinality(Measured(w))
  PROVE  \E v : IsKthSmallest(w, k, v)
<1>. DEFINE n == Cardinality(Measured(w))
            Reached == {v \in {w[i].latency_ms : i \in Measured(w)} :
                          k <= Cardinality(UpTo(w, v))}
<1>1. /\ Measured(w) \in SUBSET DOMAIN w
      /\ \A i \in Measured(w) : w[i].latency_ms \in Nat
      /\ n \in Nat /\ k \in Nat /\ 1 <= k /\ k <= n
  <2>1. Measured(w) \in SUBSET DOMAIN w
    BY DEF Measured
  <2>2. n \in Nat
    BY LenIsCounted
  <2>3. \A i \in Measured(w) : w[i].latency_ms \in Nat
    BY WindowFacts
  <2>. QED  BY <2>1, <2>2, <2>3
<1>2. Measured(w) # {}
  BY <1>1, CountedIsThere
<1>3. PICK top \in Measured(w) : \A j \in Measured(w) : w[j].latency_ms <= w[top].latency_ms
  BY <1>2, GreatestMeasurement
<1>4. UpTo(w, w[top].latency_ms) = Measured(w)
  BY <1>3 DEF UpTo
<1>5. w[top].latency_ms \in Reached
  BY <1>1, <1>4
<1>6. Reached \in SUBSET Nat
  BY <1>1
<1>7. PICK v \in Reached : \A u \in Reached : v <= u
  <2>. HIDE DEF Reached
  <2>. QED  BY <1>5, <1>6, LeastNatural
<1>8. ASSUME ~ (Cardinality(Below(w, v)) < k)
      PROVE  FALSE
  <2>1. Below(w, v) \in SUBSET Measured(w)
    BY DEF Below
  <2>2. Cardinality(Below(w, v)) \in Nat /\ k <= Cardinality(Below(w, v))
    BY <1>1, <1>8, <2>1, PositionsFinite
  <2>3. Below(w, v) # {}
    BY <1>1, <2>2, CountedIsThere
  <2>4. PICK i \in Below(w, v) : \A j \in Below(w, v) : w[j].latency_ms <= w[i].latency_ms
    BY <2>1, <2>3, GreatestMeasurement
  <2>5. i \in Measured(w) /\ w[i].latency_ms < v
    BY <2>4 DEF Below
  <2>6. UpTo(w, w[i].latency_ms) = Below(w, v)
    <3>1. v \in Nat
      BY <1>6, <1>7
    <3>. QED  BY <1>1, <2>4, <2>5, <3>1 DEF UpTo, Below
  <2>7. w[i].latency_ms \in Reached
    BY <2>2, <2>5, <2>6
  <2>. QED  BY <1>1, <1>6, <1>7, <2>5, <2>7
<1>9. IsKthSmallest(w, k, v)
  BY <1>7, <1>8 DEF IsKthSmallest
<1>. QED  BY <1>9

(* There is one only. *)
LEMMA KthUnique ==
  ASSUME NEW w \in Seq(Sample), NEW k \in Nat, NEW u, NEW v,
         IsKthSmallest(w, k, u), IsKthSmallest(w, k, v)
  PROVE  u = v
<1>1. ASSUME NEW x, NEW y, IsKthSmallest(w, k, x), IsKthSmallest(w, k, y)
      PROVE  x \in Nat /\ y \in Nat /\ ~ (x < y)
  <2>1. x \in Nat /\ y \in Nat
    BY <1>1, WindowFacts DEF IsKthSmallest
  <2>2. ASSUME x < y
        PROVE  FALSE
    <3>1. UpTo(w, x) \in SUBSET Below(w, y) /\ Below(w, y) \in SUBSET DOMAIN w
      BY <2>1, <2>2, WindowFacts DEF UpTo, Below, Measured
    <3>2. /\ Cardinality(UpTo(w, x)) <= Cardinality(Below(w, y))
          /\ Cardinality(UpTo(w, x)) \in Nat /\ Cardinality(Below(w, y)) \in Nat
      BY <3>1, PositionsFinite
    <3>. QED  BY <1>1, <3>2 DEF IsKthSmallest
  <2>. QED  BY <2>1, <2>2
<1>2. u \in Nat /\ v \in Nat /\ ~ (u < v)
  BY <1>1
<1>3. ~ (v < u)
  BY <1>1
<1>. QED  BY <1>2, <1>3

(* So KthSmallest is it. *)
LEMMA KthIsKth ==
  ASSUME NEW w \in Seq(Sample), NEW k \in 1..Cardinality(Measured(w))
  PROVE  IsKthSmallest(w, k, KthSmallest(w, k)) /\ KthSmallest(w, k) \in Nat
<1>1. PICK v : IsKthSmallest(w, k, v)
  BY KthExists
<1>2. IsKthSmallest(w, k, KthSmallest(w, k))
  BY <1>1 DEF IsKthSmallest, KthSmallest, Below, UpTo
<1>3. KthSmallest(w, k) \in Nat
  BY <1>2, WindowFacts DEF IsKthSmallest
<1>. QED  BY <1>2, <1>3

(* Which two measurements the median takes. *)
LEMMA MiddleFacts ==
  ASSUME NEW n \in Nat, n # 0
  PROVE  /\ (n + 1) \div 2 \in 1..n /\ n \div 2 + 1 \in 1..n
         /\ 2 * ((n + 1) \div 2) >= n /\ 2 * (n \div 2) <= n
         /\ (n + 1) \div 2 <= n \div 2 + 1
  OBVIOUS

LEMMA MedianType ==
  ASSUME NEW w \in Seq(Sample)
  PROVE  /\ Median(w) \in Nat \cup {NULL}
         /\ Median(w) = NULL <=> Measured(w) = {}
         /\ Median(w) # NULL =>
              LET n == Cardinality(Measured(w)) IN
              /\ n \in Nat \ {0}
              /\ Median(w) = KthSmallest(w, (n + 1) \div 2) + KthSmallest(w, n \div 2 + 1)
<1>. DEFINE n == Cardinality(Measured(w))
<1>1. Measured(w) \in SUBSET DOMAIN w /\ n \in Nat
  BY LenIsCounted DEF Measured
<1>2. n = 0 <=> Measured(w) = {}
  BY <1>1, PositionsFinite, FS_EmptySet
<1>3. ASSUME n # 0
      PROVE  KthSmallest(w, (n + 1) \div 2) + KthSmallest(w, n \div 2 + 1) \in Nat
  <2>1. (n + 1) \div 2 \in 1..n /\ n \div 2 + 1 \in 1..n
    BY <1>1, <1>3, MiddleFacts
  <2>2. KthSmallest(w, (n + 1) \div 2) \in Nat /\ KthSmallest(w, n \div 2 + 1) \in Nat
    BY <2>1, KthIsKth
  <2>. QED  BY <2>2
<1>. QED  BY <1>1, <1>2, <1>3, VerdictAssumption DEF Median

(* Half of the measurements are at most the median and half at least,      *)
(* whatever their number and order: what the code compares is              *)
(* statistics.median (core.py:94), here doubled.                           *)
THEOREM MedianIsMiddle ==
  ASSUME NEW w \in Seq(Sample), Median(w) # NULL
  PROVE  /\ 2 * Cardinality({i \in Measured(w) : 2 * w[i].latency_ms <= Median(w)})
              >= Cardinality(Measured(w))
         /\ 2 * Cardinality({i \in Measured(w) : 2 * w[i].latency_ms >= Median(w)})
              >= Cardinality(Measured(w))
<1>. DEFINE n == Cardinality(Measured(w))
            lower == KthSmallest(w, (n + 1) \div 2)
            upper == KthSmallest(w, n \div 2 + 1)
            Low == {i \in Measured(w) : 2 * w[i].latency_ms <= Median(w)}
            High == {i \in Measured(w) : 2 * w[i].latency_ms >= Median(w)}
<1>1. n \in Nat /\ n # 0 /\ Median(w) = lower + upper
  BY MedianType
<1>2. /\ IsKthSmallest(w, (n + 1) \div 2, lower) /\ lower \in Nat
      /\ IsKthSmallest(w, n \div 2 + 1, upper) /\ upper \in Nat
  <2>1. (n + 1) \div 2 \in 1..n /\ n \div 2 + 1 \in 1..n
    BY <1>1, MiddleFacts
  <2>. QED  BY <2>1, KthIsKth
<1>3. \A i \in Measured(w) : w[i].latency_ms \in Nat
  BY WindowFacts
<1>4. /\ UpTo(w, lower) \in SUBSET DOMAIN w /\ Below(w, upper) \in SUBSET DOMAIN w
      /\ Low \in SUBSET DOMAIN w /\ High \in SUBSET DOMAIN w
      /\ UpTo(w, upper) \in SUBSET DOMAIN w /\ Measured(w) \in SUBSET DOMAIN w
  BY DEF UpTo, Below, Measured
<1>. HIDE DEF n, lower, upper
<1>5. (n + 1) \div 2 <= Cardinality(UpTo(w, lower)) /\ Cardinality(UpTo(w, lower)) \in Nat
  BY <1>2, <1>4, PositionsFinite DEF IsKthSmallest
<1>6. Cardinality(Below(w, upper)) < n \div 2 + 1 /\ Cardinality(Below(w, upper)) \in Nat
  BY <1>2, <1>4, PositionsFinite DEF IsKthSmallest
<1>7. lower <= upper
  <2>1. SUFFICES ASSUME upper < lower
                 PROVE  FALSE
    BY <1>2
  <2>2. UpTo(w, upper) \in SUBSET Below(w, lower) /\ Below(w, lower) \in SUBSET DOMAIN w
    BY <1>2, <1>3, <2>1 DEF UpTo, Below, Measured
  <2>3. /\ Cardinality(UpTo(w, upper)) <= Cardinality(Below(w, lower))
        /\ Cardinality(UpTo(w, upper)) \in Nat /\ Cardinality(Below(w, lower)) \in Nat
    BY <2>2, <1>4, PositionsFinite
  <2>4. Cardinality(Below(w, lower)) < (n + 1) \div 2 /\ n \div 2 + 1 <= Cardinality(UpTo(w, upper))
    BY <1>2 DEF IsKthSmallest
  <2>. QED  BY <2>3, <2>4, <1>1, MiddleFacts
<1>8. 2 * Cardinality(Low) >= n
  <2>1. UpTo(w, lower) \in SUBSET Low
    BY <1>1, <1>2, <1>3, <1>7 DEF UpTo
  <2>2. Cardinality(UpTo(w, lower)) <= Cardinality(Low) /\ Cardinality(Low) \in Nat
    <3>. HIDE DEF Low
    <3>. QED  BY <2>1, <1>4, PositionsFinite
  <2>. QED  BY <2>2, <1>1, <1>5, MiddleFacts
<1>9. 2 * Cardinality(High) >= n
  <2>1. Measured(w) \ Below(w, upper) \in SUBSET High
    BY <1>1, <1>2, <1>3, <1>7 DEF Below
  <2>2. /\ Cardinality(Measured(w) \ Below(w, upper)) <= Cardinality(High)
        /\ Cardinality(High) \in Nat
    <3>. HIDE DEF High
    <3>. QED  BY <2>1, <1>4, PositionsFinite
  <2>3. Cardinality(Measured(w) \ Below(w, upper)) = n - Cardinality(Below(w, upper))
    <3>1. Measured(w) \cap Below(w, upper) = Below(w, upper)
      BY DEF Below
    <3>2. IsFiniteSet(Measured(w))
      BY <1>4, PositionsFinite
    <3>. QED  BY <3>1, <3>2, FS_Difference DEF n
  <2>. QED  BY <2>2, <2>3, <1>1, <1>6, MiddleFacts
<1>. QED  BY <1>8, <1>9 DEF n

-----------------------------------------------------------------------------

(* Windows with the same measurements. *)

(* They have as many within any set of latencies: the measurements of one  *)
(* latency in one window are paired with those in the other.               *)
LEMMA SameCounts ==
  ASSUME NEW v \in Seq(Sample), NEW w \in Seq(Sample), SameMeasurements(v, w),
         NEW S \in SUBSET Latency
  PROVE  Cardinality(Within(v, S)) = Cardinality(Within(w, S))
<1>. DEFINE At(x, l) == {i \in DOMAIN x : x[i].success /\ x[i].latency_ms = l}
            pairs == [l \in Latency |-> CHOOSE h : h \in Bijection(At(v, l), At(w, l))]
            f == [i \in Within(v, S) |-> pairs[v[i].latency_ms][i]]
<1>1. \A i \in Within(v, S) : v[i].latency_ms \in S /\ i \in At(v, v[i].latency_ms)
  BY WindowFacts DEF Within, Measured
<1>2. \A l \in S : \A i \in At(w, l) : i \in Within(w, S)
  <2>1. ASSUME NEW l \in S, NEW i \in At(w, l)
        PROVE  i \in Within(w, S)
    <3>1. i \in DOMAIN w /\ w[i].success /\ w[i].latency_ms = l /\ l \in Nat
      BY VerdictAssumption
    <3>. QED  BY <3>1, VerdictAssumption DEF Within, Measured
  <2>. QED  BY <2>1
<1>3. ASSUME NEW l \in S
      PROVE  pairs[l] \in Bijection(At(v, l), At(w, l))
  <2>1. Cardinality(At(v, l)) = Cardinality(At(w, l))
    BY DEF SameMeasurements, Successes
  <2>2. IsFiniteSet(At(v, l)) /\ IsFiniteSet(At(w, l))
    <3>1. At(v, l) \in SUBSET DOMAIN v /\ At(w, l) \in SUBSET DOMAIN w
      OBVIOUS
    <3>. HIDE DEF At
    <3>. QED  BY <3>1, PositionsFinite
  <2>. HIDE DEF At
  <2>3. \E h : h \in Bijection(At(v, l), At(w, l))
    BY <2>1, <2>2, FS_SameCardinalityBij DEF ExistsBijection
  <2>. QED  BY <2>3
<1>. HIDE DEF pairs
<1>4. ASSUME NEW i \in Within(v, S)
      PROVE  /\ f[i] = pairs[v[i].latency_ms][i]
             /\ f[i] \in At(w, v[i].latency_ms)
             /\ f[i] \in Within(w, S) /\ w[f[i]].latency_ms = v[i].latency_ms
  <2>. DEFINE l == v[i].latency_ms
  <2>1. l \in S /\ i \in At(v, l)
    BY <1>1
  <2>2. f[i] = pairs[l][i]
    OBVIOUS
  <2>3. pairs[l][i] \in At(w, l)
    <3>. HIDE DEF At
    <3>. QED  BY <2>1, <1>3 DEF Bijection, Injection
  <2>4. f[i] \in At(w, l)
    BY <2>2, <2>3
  <2>. HIDE DEF f
  <2>5. w[f[i]].latency_ms = l
    BY <2>4
  <2>6. f[i] \in Within(w, S)
    BY <2>1, <2>4, <1>2
  <2>. QED  BY <2>2, <2>4, <2>5, <2>6
<1>5. f \in [Within(v, S) -> Within(w, S)]
  BY <1>4
<1>. HIDE DEF f
<1>6. ASSUME NEW i \in Within(v, S), NEW j \in Within(v, S), f[i] = f[j]
      PROVE  i = j
  <2>. DEFINE l == v[i].latency_ms
  <2>1. v[j].latency_ms = l
    BY <1>4, <1>6
  <2>2. l \in S /\ i \in At(v, l) /\ j \in At(v, l)
    BY <1>1, <2>1
  <2>3. pairs[l][i] = pairs[l][j]
    BY <1>4, <1>6, <2>1
  <2>. HIDE DEF At
  <2>. QED  BY <2>2, <2>3, <1>3 DEF Bijection, Injection, IsInjective
<1>7. ASSUME NEW j \in Within(w, S)
      PROVE  \E i \in Within(v, S) : f[i] = j
  <2>. DEFINE l == w[j].latency_ms
  <2>1. l \in S /\ j \in At(w, l)
    BY WindowFacts DEF Within, Measured
  <2>2. PICK i \in At(v, l) : pairs[l][i] = j
    <3>. HIDE DEF At
    <3>. QED  BY <2>1, <1>3 DEF Bijection, Surjection
  <2>3. i \in DOMAIN v /\ v[i].success /\ v[i].latency_ms = l
    OBVIOUS
  <2>4. i \in Within(v, S)
    BY <2>1, <2>3, VerdictAssumption DEF Within, Measured
  <2>. QED  BY <2>2, <2>3, <2>4, <1>4
<1>8. f \in Bijection(Within(v, S), Within(w, S))
  BY <1>5, <1>6, <1>7 DEF Bijection, Injection, Surjection, IsInjective
<1>9. IsFiniteSet(Within(v, S))
  <2>1. Within(v, S) \in SUBSET DOMAIN v
    BY DEF Within, Measured
  <2>. QED  BY <2>1, PositionsFinite
<1>. QED  BY <1>8, <1>9, FS_Bijection DEF ExistsBijection

LEMMA KthSame ==
  ASSUME NEW v \in Seq(Sample), NEW w \in Seq(Sample), SameMeasurements(v, w),
         NEW k \in 1..Cardinality(Measured(v))
  PROVE  KthSmallest(v, k) = KthSmallest(w, k)
<1>. DEFINE x == KthSmallest(v, k)
            Under == {l \in Latency : l < x}
            Until == {l \in Latency : l <= x}
<1>1. /\ IsKthSmallest(v, k, x) /\ x \in Nat
      /\ k \in Nat /\ k >= 1
  BY KthIsKth, LenIsCounted
<1>. HIDE DEF x
<1>2. /\ Below(v, x) = Within(v, Under) /\ Below(w, x) = Within(w, Under)
      /\ UpTo(v, x) = Within(v, Until) /\ UpTo(w, x) = Within(w, Until)
      /\ Measured(v) = Within(v, Latency) /\ Measured(w) = Within(w, Latency)
  <2>1. /\ \A i \in Measured(v) : v[i].latency_ms \in Latency
        /\ \A i \in Measured(w) : w[i].latency_ms \in Latency
    BY WindowFacts
  <2>. QED  BY <2>1 DEF Below, UpTo, Within
<1>3. /\ Cardinality(Below(v, x)) = Cardinality(Below(w, x))
      /\ Cardinality(UpTo(v, x)) = Cardinality(UpTo(w, x))
      /\ Cardinality(Measured(v)) = Cardinality(Measured(w))
  <2>. DEFINE L == Latency
  <2>1. Under \in SUBSET Latency /\ Until \in SUBSET Latency /\ Latency \in SUBSET Latency
    OBVIOUS
  <2>. HIDE DEF Under, Until
  <2>. QED  BY <1>2, <2>1, SameCounts
<1>4. \E i \in Measured(w) : x = w[i].latency_ms
  <2>1. PICK j \in Measured(v) : x = v[j].latency_ms
    BY <1>1 DEF IsKthSmallest
  <2>2. x \in Latency
    BY <2>1, WindowFacts
  <2>3. Within(v, {x}) # {} /\ Within(v, {x}) \in SUBSET DOMAIN v /\ Within(w, {x}) \in SUBSET DOMAIN w
    BY <2>1 DEF Within, Measured
  <2>4. Cardinality(Within(v, {x})) = Cardinality(Within(w, {x}))
    BY <2>2, SameCounts
  <2>5. Within(w, {x}) # {}
    BY <2>3, <2>4, PositionsFinite, FS_EmptySet
  <2>. QED  BY <2>5 DEF Within
<1>5. IsKthSmallest(w, k, x)
  BY <1>1, <1>3, <1>4 DEF IsKthSmallest
<1>6. IsKthSmallest(w, k, KthSmallest(w, k))
  BY <1>3, KthIsKth
<1>7. x = KthSmallest(w, k)
  BY <1>1, <1>5, <1>6, KthUnique
<1>. QED  BY <1>7 DEF x

LEMMA SameFacts ==
  ASSUME NEW v \in Seq(Sample), NEW w \in Seq(Sample), SameMeasurements(v, w)
  PROVE  /\ Len(v) = Len(w)
         /\ FailedChecks(v) = FailedChecks(w)
         /\ Median(v) = Median(w)
<1>1. Cardinality(Measured(v)) = Cardinality(Measured(w))
  <2>1. \A x \in {v, w} : Measured(x) = Within(x, Latency)
    BY WindowFacts DEF Within
  <2>2. Latency \in SUBSET Latency
    OBVIOUS
  <2>. QED  BY <2>1, <2>2, SameCounts
<1>2. FailedChecks(v) = FailedChecks(w)
  BY DEF SameMeasurements
<1>3. Len(v) = Len(w)
  BY <1>1, <1>2, LenIsCounted
<1>4. Median(v) = Median(w)
  <2>. DEFINE n == Cardinality(Measured(v))
  <2>1. CASE n = 0
    BY <1>1, <2>1 DEF Median
  <2>2. CASE n # 0
    <3>1. (n + 1) \div 2 \in 1..n /\ n \div 2 + 1 \in 1..n
      BY <2>2, LenIsCounted, MiddleFacts
    <3>2. /\ KthSmallest(v, (n + 1) \div 2) = KthSmallest(w, (n + 1) \div 2)
          /\ KthSmallest(v, n \div 2 + 1) = KthSmallest(w, n \div 2 + 1)
      BY <3>1, KthSame
    <3>. QED  BY <1>1, <2>2, <3>2 DEF Median
  <2>. QED  BY <2>1, <2>2
<1>. QED  BY <1>2, <1>3, <1>4

(* A verdict depends on nothing but how many checks failed and how many    *)
(* succeeded with each latency: not on the order in which the database     *)
(* returns the rows (service.py:187), nor on how a check failed.           *)
THEOREM OrderIsIrrelevant ==
  ASSUME NEW b \in Seq(Sample), NEW c \in Seq(Sample), SameMeasurements(b, c),
         NEW o \in Seq(Sample), NEW p \in Seq(Sample), SameMeasurements(o, p),
         NEW t
  PROVE  EvaluateEndpoint(b, o, t) = EvaluateEndpoint(c, p, t)
<1>1. /\ Len(b) = Len(c) /\ FailedChecks(b) = FailedChecks(c) /\ Median(b) = Median(c)
      /\ Len(o) = Len(p) /\ FailedChecks(o) = FailedChecks(p) /\ Median(o) = Median(p)
  BY SameFacts
<1>2. Outcome(b, o, t) = Outcome(c, p, t)
  BY <1>1 DEF Outcome, LatencyRegressed, LatencyEligible, ErrorRegressed, ErrorEligible,
              RateRisesBy
<1>. QED  BY <1>1, <1>2 DEF EvaluateEndpoint

-----------------------------------------------------------------------------

(* The two rules, as arithmetic. *)

(* Of f failures in n checks and g in m, with a required rise of d. *)
LEMMA OutageRises ==
  ASSUME NEW f \in Nat, NEW n \in Nat, NEW m \in Nat, NEW d \in Nat, NEW limit \in Nat,
         100 * f < limit * n, limit + d <= 100
  PROVE  100 * (m * n - f * m) >= d * n * m
<1>1. d * n <= 100 * n - limit * n
  <2>1. (limit + d) * n <= 100 * n
    OBVIOUS
  <2>2. (limit + d) * n = limit * n + d * n
    OBVIOUS
  <2>. QED  BY <2>1, <2>2
<1>2. d * n <= 100 * n - 100 * f
  BY <1>1
<1>3. \A x, y \in Int : x <= y => x * m <= y * m
  OBVIOUS
<1>4. (d * n) * m <= (100 * n - 100 * f) * m
  BY <1>2, <1>3
<1>5. (100 * n - 100 * f) * m = 100 * (m * n - f * m)
  OBVIOUS
<1>. QED  BY <1>4, <1>5

LEMMA NoChangeIsNoRise ==
  ASSUME NEW f \in Nat, NEW n \in Nat, NEW d \in Nat, n > 0,
         100 * (f * n - f * n) >= d * n * n
  PROVE  d = 0
<1>1. d * n * n <= 0
  OBVIOUS
<1>2. n * n > 0
  OBVIOUS
<1>3. d * n * n = d * (n * n)
  OBVIOUS
<1>4. \A x \in Nat : x > 0 /\ d > 0 => d * x > 0
  OBVIOUS
<1>. QED  BY <1>1, <1>2, <1>3, <1>4

LEMMA SameMedianIsNoRise ==
  ASSUME NEW b \in Nat, NEW t, t.latency_pct \in Nat \ {0}, t.latency_floor_ms \in Nat,
         LatencyRises(b, b, t)
  PROVE  b = 0 /\ t.latency_floor_ms = 0
<1>1. 100 * b >= b * (100 + t.latency_pct) /\ b - b >= 2 * t.latency_floor_ms
  BY DEF LatencyRises
<1>2. b * (100 + t.latency_pct) = 100 * b + b * t.latency_pct
  OBVIOUS
<1>3. \A x, y \in Nat : x > 0 /\ y > 0 => x * y > 0
  OBVIOUS
<1>. QED  BY <1>1, <1>2, <1>3

(* What the thresholds are once an endpoint's overrides are merged. *)
LEMMA EffectiveFacts ==
  ASSUME overrides \in Overrides
  PROVE  /\ Effective.min_samples = Thresholds.min_samples
         /\ Effective.min_successful_baseline = Thresholds.min_successful_baseline
         /\ Effective.baseline_degraded_rate = Thresholds.baseline_degraded_rate
         /\ Effective.min_failures = Thresholds.min_failures
         /\ Effective.latency_pct \in Nat \ {0}
         /\ Effective.latency_floor_ms \in Nat
         /\ Effective.error_delta \in Nat
         /\ "latency_pct" \notin DOMAIN overrides =>
              Effective.latency_pct = Thresholds.latency_pct
         /\ "latency_floor_ms" \in DOMAIN overrides /\ overrides["latency_floor_ms"] = 0 =>
              Effective.latency_floor_ms = 0
         /\ "error_delta" \in DOMAIN overrides /\ overrides["error_delta"] = 0 =>
              Effective.error_delta = 0
<1>. DEFINE over == overrides
            Fields == {"min_samples", "min_successful_baseline", "baseline_degraded_rate",
                       "latency_pct", "latency_floor_ms", "error_delta", "min_failures"}
<1>1. /\ Thresholds \in ThresholdsType /\ Thresholds.latency_pct > 0
      /\ NULL \notin Nat /\ Overridable(Thresholds, overrides)
  BY VerdictAssumption
<1>2. DOMAIN Thresholds = Fields
  BY <1>1 DEF ThresholdsType
<1>3. \A field \in Fields :
        Effective[field] = IF field \in DOMAIN over /\ over[field] # NULL
                             THEN over[field] ELSE Thresholds[field]
  BY <1>2 DEF Effective, MergeThresholds
<1>4. /\ DOMAIN over \subseteq {"latency_pct", "latency_floor_ms", "error_delta"}
      /\ \A field \in DOMAIN over :
           over[field] \in (IF field = "latency_pct" THEN Nat \ {0} ELSE Nat) \cup {NULL}
  BY <1>1 DEF Overridable
<1>5. /\ Effective["min_samples"] = Thresholds["min_samples"]
      /\ Effective["min_successful_baseline"] = Thresholds["min_successful_baseline"]
      /\ Effective["baseline_degraded_rate"] = Thresholds["baseline_degraded_rate"]
      /\ Effective["min_failures"] = Thresholds["min_failures"]
  BY <1>3, <1>4
<1>6. /\ Thresholds.latency_pct \in Nat \ {0} /\ Thresholds.latency_floor_ms \in Nat
      /\ Thresholds.error_delta \in Nat
  BY <1>1 DEF ThresholdsType
<1>7. /\ Effective["latency_pct"] \in Nat \ {0}
      /\ "latency_pct" \notin DOMAIN over => Effective["latency_pct"] = Thresholds["latency_pct"]
  BY <1>3, <1>4, <1>6
<1>8. /\ Effective["latency_floor_ms"] \in Nat
      /\ "latency_floor_ms" \in DOMAIN over /\ over["latency_floor_ms"] = 0 =>
           Effective["latency_floor_ms"] = 0
  BY <1>1, <1>3, <1>4, <1>6
<1>9. /\ Effective["error_delta"] \in Nat
      /\ "error_delta" \in DOMAIN over /\ over["error_delta"] = 0 =>
           Effective["error_delta"] = 0
  BY <1>1, <1>3, <1>4, <1>6
<1>. QED  BY <1>5, <1>7, <1>8, <1>9

-----------------------------------------------------------------------------

(* The invariant: an evaluation is that of the windows. *)
VInv ==
  /\ baseline \in Baselines /\ observation \in Observations /\ overrides \in Overrides
  /\ evaluation # NULL =>
       evaluation = EvaluateEndpoint(baseline, observation, Effective)

LEMMA VerdictInv == Spec => []VInv
<1>1. Init => VInv
  BY DEF Init, VInv
<1>2. VInv /\ [Evaluate]_vars => VInv'
  <2>. SUFFICES ASSUME VInv, [Evaluate]_vars
                PROVE  VInv'
    OBVIOUS
  <2>1. CASE Evaluate
    BY <2>1 DEF VInv, Evaluate, Effective
  <2>2. CASE UNCHANGED vars
    BY <2>2 DEF VInv, vars, Effective
  <2>. QED  BY <2>1, <2>2
<1>. QED  BY <1>1, <1>2, PTL DEF Spec

LEMMA InvFacts ==
  ASSUME VInv
  PROVE  /\ baseline \in Seq(Sample) /\ observation \in Seq(Sample)
         /\ \A w \in {baseline, observation} :
              Len(w) \in Nat /\ FailedChecks(w) \in Nat /\ Median(w) \in Nat \cup {NULL}
         /\ evaluation # NULL =>
              evaluation.outcome = Outcome(baseline, observation, Effective)
<1>1. baseline \in Seq(Sample) /\ observation \in Seq(Sample)
  BY VerdictAssumption DEF VInv
<1>2. \A w \in {baseline, observation} :
        Len(w) \in Nat /\ FailedChecks(w) \in Nat /\ Median(w) \in Nat \cup {NULL}
  BY <1>1, LenIsCounted, MedianType
<1>3. EvaluateEndpoint(baseline, observation, Effective).outcome
        = Outcome(baseline, observation, Effective)
  BY DEF EvaluateEndpoint
<1>. QED  BY <1>1, <1>2, <1>3 DEF VInv

(* Past the guards, the outcome says which of the two rules was met. *)
LEMMA ComparedOutcome ==
  ASSUME VInv, Comparable
  PROVE  LET latency == LatencyRegressed(baseline, observation, Effective)
             error == ErrorRegressed(baseline, observation, Effective)
             outcome == Outcome(baseline, observation, Effective)
         IN  /\ latency => outcome \in {"regressed_latency", "regressed_both"}
             /\ error => outcome \in {"regressed_error", "regressed_both"}
             /\ ~ latency /\ error => outcome = "regressed_error"
<1>1. /\ ~ (Len(baseline) < Effective.min_samples)
      /\ ~ (Len(observation) < Effective.min_samples)
      /\ ~ (Len(baseline) - FailedChecks(baseline) < Effective.min_successful_baseline)
  <2>1. /\ Effective.min_samples = Thresholds.min_samples
        /\ Effective.min_successful_baseline = Thresholds.min_successful_baseline
    BY EffectiveFacts DEF VInv
  <2>2. Thresholds.min_samples \in Nat /\ Thresholds.min_successful_baseline \in Nat
    BY VerdictAssumption DEF ThresholdsType
  <2>. QED  BY <2>1, <2>2, InvFacts DEF Comparable
<1>. DEFINE latency == LatencyRegressed(baseline, observation, Effective)
            error == ErrorRegressed(baseline, observation, Effective)
<1>2. Outcome(baseline, observation, Effective) =
        CASE latency /\ error -> "regressed_both"
          [] latency /\ ~ error -> "regressed_latency"
          [] ~ latency /\ error -> "regressed_error"
          [] ~ latency /\ ~ error ->
               IF LatencyEligible(baseline, observation) \/ ErrorEligible(baseline, Effective)
                 THEN "no_regression" ELSE "baseline_degraded"
  BY <1>1 DEF Outcome
<1>. HIDE DEF latency, error
<1>3. /\ latency => Outcome(baseline, observation, Effective)
                      \in {"regressed_latency", "regressed_both"}
      /\ error => Outcome(baseline, observation, Effective)
                    \in {"regressed_error", "regressed_both"}
      /\ ~ latency /\ error => Outcome(baseline, observation, Effective) = "regressed_error"
  <2>1. CASE latency /\ error
    BY <1>2, <2>1
  <2>2. CASE latency /\ ~ error
    BY <1>2, <2>2
  <2>3. CASE ~ latency /\ error
    BY <1>2, <2>3
  <2>4. CASE ~ latency /\ ~ error
    BY <2>4
  <2>. QED  BY <2>1, <2>2, <2>3, <2>4
<1>. QED  BY <1>3 DEF latency, error

(* A regression was found by one of the rules, past the guards. *)
LEMMA RegressionOutcome ==
  ASSUME VInv, Is(RegressionOutcomes)
  PROVE  /\ LatencyRegressed(baseline, observation, Effective)
            \/ ErrorRegressed(baseline, observation, Effective)
         /\ Len(baseline) >= Thresholds.min_samples
<1>1. Outcome(baseline, observation, Effective)
        \in {"regressed_latency", "regressed_error", "regressed_both"}
  BY InvFacts DEF Is, RegressionOutcomes
<1>2. Effective.min_samples = Thresholds.min_samples /\ Thresholds.min_samples \in Nat
  BY EffectiveFacts, VerdictAssumption DEF VInv, ThresholdsType
<1>3. ~ (Len(baseline) < Effective.min_samples)
  BY <1>1 DEF Outcome
<1>4. \/ LatencyRegressed(baseline, observation, Effective)
      \/ ErrorRegressed(baseline, observation, Effective)
  <2>. DEFINE latency == LatencyRegressed(baseline, observation, Effective)
              error == ErrorRegressed(baseline, observation, Effective)
  <2>1. SUFFICES ASSUME ~ latency, ~ error
                 PROVE  FALSE
    OBVIOUS
  <2>2. Outcome(baseline, observation, Effective)
          \in {"insufficient_baseline", "insufficient_observation",
               "insufficient_successful_baseline", "no_regression", "baseline_degraded"}
    <3>. HIDE DEF latency, error
    <3>1. (CASE latency /\ error -> "regressed_both"
             [] latency /\ ~ error -> "regressed_latency"
             [] ~ latency /\ error -> "regressed_error"
             [] ~ latency /\ ~ error ->
                  IF LatencyEligible(baseline, observation) \/ ErrorEligible(baseline, Effective)
                    THEN "no_regression" ELSE "baseline_degraded")
            \in {"no_regression", "baseline_degraded"}
      BY <2>1
    <3>. QED  BY <3>1 DEF Outcome, latency, error
  <2>. QED  BY <1>1, <2>2
<1>. QED  BY <1>2, <1>3, <1>4, InvFacts

-----------------------------------------------------------------------------

(* A deployment after which every check fails is reported, although an     *)
(* outage leaves no latency to compare (core.py:141).                      *)
THEOREM OutagesAreReported == Spec => []OutageIsReported
<1>1. ASSUME VInv
      PROVE  OutageIsReported
  <2>. SUFFICES ASSUME evaluation # NULL, Comparable, ErrorEligible(baseline, Thresholds),
                       FailedChecks(observation) = Len(observation),
                       Thresholds.min_failures <= Thresholds.min_samples,
                       Thresholds.baseline_degraded_rate + Effective.error_delta <= 100
                PROVE  Is({"regressed_error"})
    BY DEF OutageIsReported
  <2>. DEFINE f == FailedChecks(baseline)
              n == Len(baseline)
              m == Len(observation)
  <2>1. /\ f \in Nat /\ n \in Nat /\ m \in Nat
        /\ baseline \in Seq(Sample) /\ observation \in Seq(Sample)
    BY <1>1, InvFacts
  <2>2. /\ Effective.error_delta \in Nat
        /\ Effective.min_failures = Thresholds.min_failures
        /\ Effective.baseline_degraded_rate = Thresholds.baseline_degraded_rate
        /\ Thresholds \in ThresholdsType
    BY <1>1, EffectiveFacts, VerdictAssumption DEF VInv
  <2>3. ~ LatencyRegressed(baseline, observation, Effective)
    <3>1. Cardinality(Measured(observation)) = 0 /\ Measured(observation) \in SUBSET DOMAIN observation
      BY <2>1, LenIsCounted DEF Measured
    <3>2. Measured(observation) = {}
      BY <2>1, <3>1, PositionsFinite, FS_EmptySet
    <3>3. Median(observation) = NULL
      BY <2>1, <3>2, MedianType
    <3>. QED  BY <3>3 DEF LatencyRegressed, LatencyEligible
  <2>4. ErrorRegressed(baseline, observation, Effective)
    <3>1. 100 * f < Thresholds.baseline_degraded_rate * n
      BY DEF ErrorEligible, RateBelow
    <3>2. Thresholds.baseline_degraded_rate \in Nat /\ Thresholds.min_failures \in Nat
          /\ Thresholds.min_samples \in Nat
      BY <2>2 DEF ThresholdsType
    <3>. HIDE DEF f, n, m
    <3>3. 100 * (m * n - f * m) >= Effective.error_delta * n * m
      BY <2>1, <2>2, <3>1, <3>2, OutageRises
    <3>4. RateRisesBy(observation, baseline, Effective.error_delta)
      BY <3>3 DEF RateRisesBy, f, n, m
    <3>5. FailedChecks(observation) >= Effective.min_failures
      BY <2>1, <2>2, <3>2 DEF Comparable, m
    <3>6. ErrorEligible(baseline, Effective)
      BY <2>2 DEF ErrorEligible
    <3>. QED  BY <3>4, <3>5, <3>6 DEF ErrorRegressed
  <2>5. Outcome(baseline, observation, Effective) = "regressed_error"
    BY <1>1, <2>3, <2>4, ComparedOutcome
  <2>. QED  BY <1>1, <2>5, InvFacts DEF Is
<1>. QED  BY <1>1, VerdictInv, PTL

(* A deployment that changed nothing is never blamed, but for thresholds   *)
(* that no rise at all can meet.                                           *)
THEOREM NoBlameWithoutChange == Spec => []UnchangedIsNotBlamed
<1>1. ASSUME VInv
      PROVE  UnchangedIsNotBlamed
  <2>. SUFFICES ASSUME Is(RegressionOutcomes), SameMeasurements(baseline, observation)
                PROVE  \/ Effective.error_delta = 0
                       \/ Effective.latency_floor_ms = 0 /\ Median(baseline) = 0
    BY DEF UnchangedIsNotBlamed
  <2>1. /\ baseline \in Seq(Sample) /\ observation \in Seq(Sample)
        /\ Len(baseline) \in Nat /\ FailedChecks(baseline) \in Nat
        /\ Median(baseline) \in Nat \cup {NULL}
    BY <1>1, InvFacts
  <2>2. /\ Len(baseline) = Len(observation)
        /\ FailedChecks(baseline) = FailedChecks(observation)
        /\ Median(baseline) = Median(observation)
    BY <2>1, SameFacts
  <2>3. /\ Effective.latency_pct \in Nat \ {0} /\ Effective.latency_floor_ms \in Nat
        /\ Effective.error_delta \in Nat
    BY <1>1, EffectiveFacts DEF VInv
  <2>4. Len(baseline) > 0
    BY <1>1, <2>1, RegressionOutcome, VerdictAssumption DEF ThresholdsType
  <2>5. CASE LatencyRegressed(baseline, observation, Effective)
    <3>1. Median(baseline) \in Nat /\ LatencyRises(Median(baseline), Median(baseline), Effective)
      BY <2>1, <2>2, <2>5 DEF LatencyRegressed, LatencyEligible
    <3>. QED  BY <2>3, <3>1, SameMedianIsNoRise
  <2>6. CASE ErrorRegressed(baseline, observation, Effective)
    <3>. DEFINE f == FailedChecks(baseline)
                n == Len(baseline)
    <3>1. 100 * (f * n - f * n) >= Effective.error_delta * n * n
      BY <2>2, <2>6 DEF ErrorRegressed, RateRisesBy
    <3>. HIDE DEF f, n
    <3>2. f \in Nat /\ n \in Nat /\ n > 0
      BY <2>1, <2>4 DEF f, n
    <3>. QED  BY <2>3, <3>1, <3>2, NoChangeIsNoRise
  <2>. QED  BY <1>1, <2>5, <2>6, RegressionOutcome
<1>. QED  BY <1>1, VerdictInv, PTL

(* A threshold overridden with 0 is 0 (core.py:66 tests for None).         *)
THEOREM ZeroIsAThreshold == Spec => []ZeroOverridesReport
<1>1. ASSUME VInv
      PROVE  ZeroOverridesReport
  <2>. SUFFICES ASSUME evaluation # NULL, Comparable
                PROVE  ZeroOverridesReport
    BY DEF ZeroOverridesReport
  <2>. DEFINE f == FailedChecks(baseline)
              n == Len(baseline)
              g == FailedChecks(observation)
              m == Len(observation)
  <2>1. f \in Nat /\ n \in Nat /\ g \in Nat /\ m \in Nat
    BY <1>1, InvFacts
  <2>2. ASSUME "error_delta" \in DOMAIN overrides, overrides["error_delta"] = 0,
               ErrorEligible(baseline, Thresholds), g >= Thresholds.min_failures,
               g * n > f * m
        PROVE  Is({"regressed_error", "regressed_both"})
    <3>1. /\ Effective.error_delta = 0
          /\ Effective.min_failures = Thresholds.min_failures
          /\ Effective.baseline_degraded_rate = Thresholds.baseline_degraded_rate
      BY <1>1, <2>2, EffectiveFacts DEF VInv
    <3>2. RateRisesBy(observation, baseline, Effective.error_delta)
      <4>. HIDE DEF f, n, g, m
      <4>1. 100 * (g * n - f * m) >= 0 /\ 0 * n * m = 0
        BY <2>1, <2>2
      <4>. QED  BY <3>1, <4>1 DEF RateRisesBy, f, n, g, m
    <3>3. ErrorRegressed(baseline, observation, Effective)
      BY <2>2, <3>1, <3>2 DEF ErrorRegressed, ErrorEligible
    <3>4. Outcome(baseline, observation, Effective) \in {"regressed_error", "regressed_both"}
      BY <1>1, <3>3, ComparedOutcome
    <3>. QED  BY <1>1, <3>4, InvFacts DEF Is
  <2>3. ASSUME "latency_floor_ms" \in DOMAIN overrides, overrides["latency_floor_ms"] = 0,
               "latency_pct" \notin DOMAIN overrides,
               LatencyEligible(baseline, observation),
               100 * (Median(observation) - Median(baseline))
                 >= Thresholds.latency_pct * Median(baseline)
        PROVE  Is({"regressed_latency", "regressed_both"})
    <3>1. /\ Effective.latency_floor_ms = 0
          /\ Effective.latency_pct = Thresholds.latency_pct /\ Effective.latency_pct \in Nat
      BY <1>1, <2>3, EffectiveFacts DEF VInv
    <3>2. Median(baseline) \in Nat /\ Median(observation) \in Nat
      BY <1>1, <2>3, InvFacts DEF LatencyEligible
    <3>3. \A b, o, pct \in Nat :
            100 * (o - b) >= pct * b => 100 * o >= b * (100 + pct) /\ o - b >= 2 * 0
      <4>1. \A b, pct \in Nat : pct * b >= 0 /\ b * (100 + pct) = 100 * b + pct * b
        OBVIOUS
      <4>. QED  BY <4>1
    <3>4. LatencyRises(Median(baseline), Median(observation), Effective)
      BY <2>3, <3>1, <3>2, <3>3 DEF LatencyRises
    <3>5. LatencyRegressed(baseline, observation, Effective)
      BY <2>3, <3>4 DEF LatencyRegressed
    <3>6. Outcome(baseline, observation, Effective) \in {"regressed_latency", "regressed_both"}
      BY <1>1, <3>5, ComparedOutcome
    <3>. QED  BY <1>1, <3>6, InvFacts DEF Is
  <2>. QED  BY <2>2, <2>3 DEF ZeroOverridesReport
<1>. QED  BY <1>1, VerdictInv, PTL
=============================================================================
