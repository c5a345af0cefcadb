-------------------------- MODULE MeasurementProofs -------------------------
(***************************************************************************)
(* Theorems about the script that measures rerank scores, for any scores   *)
(* and any account that allows at least the 10 calls a minute the script   *)
(* is paced for.                                                           *)
(***************************************************************************)
EXTENDS Measurement, FoldLemmas

-----------------------------------------------------------------------------
(* The threshold it prints.                                                *)

\* The nearest hundredth to a quarter of the way up lies between the two
\* scores when there are more than two hundredths between them (_report).
THEOREM SuggestionsSeparate == MeasurementSpec => []SuggestionSeparates
<1>1. MeasurementInit => SuggestionSeparates
  BY DEF MeasurementInit, SuggestionSeparates
<1>2. SuggestionSeparates /\ [MeasurementNext]_mvars => SuggestionSeparates'
  <2> SUFFICES ASSUME SuggestionSeparates, [MeasurementNext]_mvars, step' = "done",
                      top'.a_top - top'.u_max > 20
               PROVE  /\ top'.u_max < 10 * top'.suggested
                      /\ 10 * top'.suggested <= top'.a_top
    BY DEF SuggestionSeparates
  <2>1. CASE UNCHANGED mvars
    BY <2>1 DEF mvars, SuggestionSeparates
  <2>2. CASE Report
    <3>1. PICK a \in Scores, u \in Scores :
            IF u < a
              THEN \E h \in Printed(Suggest(a, u)) :
                     top' = [a_top |-> a, u_max |-> u, suggested |-> h]
              ELSE top' = [a_top |-> a, u_max |-> u, suggested |-> 0]
      BY <2>2 DEF Report
    <3>2. a \in Int /\ u \in Int
      BY MeasurementAssumption DEF MeasurementAssumption
    <3>3. top'.a_top = a /\ top'.u_max = u
      BY <3>1
    <3>4. a - u > 20 /\ u < a
      BY <3>2, <3>3
    <3>5. PICK h \in Printed(Suggest(a, u)) :
            top' = [a_top |-> a, u_max |-> u, suggested |-> h]
      BY <3>1, <3>4
    <3>6. h \in Int /\ 40 * h - (3 * u + a) >= -20 /\ 40 * h - (3 * u + a) <= 20
      BY <3>2, <3>5 DEF Printed, Suggest
    <3>7. u < 10 * h /\ 10 * h <= a
      BY <3>2, <3>4, <3>6
    <3> QED
      BY <3>3, <3>5, <3>7
  <2>3. CASE MeasurementNext /\ ~Report
    BY <2>3 DEF MeasurementNext, RefuseCorpus, Begin, Retrieve, RetrieveRaises,
      SearchVectors, FetchCandidates, NoCandidates, Rerank, RerankRaises, BackOff, Pause,
      StoreRaises, CohereMalformed, Ended, mvars, SuggestionSeparates
  <2> QED
    BY <2>1, <2>2, <2>3
<1> QED
  BY <1>1, <1>2, PTL DEF MeasurementSpec

-----------------------------------------------------------------------------
(* The calls it spends.                                                    *)

\* Two calls at each pause the last minute holds.
Slots == {14, 28, 42, 56}

\* ... and those of the probe it is at.
Latest(s) ==
    CASE s \in {"search", "fetch", "rerank"} -> 1 [] s = "pause" -> 2 [] OTHER -> 0

Load(latest) ==
    [age \in Ages |-> IF age \in Slots THEN 2 ELSE IF age = 0 THEN latest ELSE 0]

LEMMA AgesFinite == IsFiniteSet(Ages) /\ Ages \subseteq Nat
<1>1. PICK n \in Int : n = 59
  OBVIOUS
<1>2. PICK z \in Int : z = 0
  OBVIOUS
<1>3. IsFiniteSet(z..n)
  BY FS_Interval
<1> QED
  BY <1>1, <1>2, <1>3 DEF Ages

LEMMA LoadSum ==
    ASSUME NEW latest \in Nat
    PROVE  SumOf(Load(latest), Ages) = latest + 8
<1> DEFINE f == Load(latest)
           R == {0} \cup Slots
<1>1. /\ \A age \in Ages : f[age] \in Nat
      /\ \A age \in Slots : f[age] = 2
      /\ f[0] = latest
      /\ \A age \in Ages \ R : f[age] = 0
  BY DEF Load, Slots, Ages
<1>2. R \in SUBSET Ages
  BY DEF Slots, Ages
<1>3. PICK g : g = f
  OBVIOUS
<1>4. IsFiniteSet(R)
  BY <1>2, AgesFinite, FS_Subset
<1> HIDE DEF f
<1>5. SumOf(f, Ages) = SumOf(g, R)
  <2> HIDE DEF R
  <2>1. \A x \in R : g[x] = f[x]
    BY <1>3
  <2>2. \A age \in Ages : f[age] \in Nat
    BY <1>1
  <2>3. \A age \in Ages \ R : f[age] = 0
    BY <1>1 DEF R
  <2>4. IsFiniteSet(Ages)
    BY AgesFinite
  <2>5. PICK S : S = Ages
    OBVIOUS
  <2>6. PICK Q : Q = R
    OBVIOUS
  <2>7. PICK h : h = f
    OBVIOUS
  <2>8. IsFiniteSet(S) /\ Q \in SUBSET S
    BY <1>2, <2>4, <2>5, <2>6
  <2>9. \A x \in S : h[x] \in Nat
    BY <2>2, <2>5, <2>7
  <2>10. \A x \in S \ Q : h[x] = 0
    BY <2>3, <2>5, <2>6, <2>7
  <2>11. \A x \in Q : g[x] = h[x]
    BY <2>1, <2>6, <2>7
  <2>12. SumOf(h, S) = SumOf(g, Q)
    BY <2>8, <2>9, <2>10, <2>11, SumRelevant
  <2> QED
    BY <2>5, <2>6, <2>7, <2>12
<1>6. \A s \in SUBSET R : IsFiniteSet(s) /\ \A x \in s : g[x] \in Nat
  BY <1>1, <1>2, <1>3, <1>4, FS_Subset
<1>7. ASSUME NEW s \in SUBSET R, NEW x \in s
      PROVE  SumOf(g, s) = g[x] + SumOf(g, s \ {x})
  BY <1>6, SumTake
<1> DEFINE R1 == R \ {0}
           R2 == R1 \ {14}
           R3 == R2 \ {28}
           R4 == R3 \ {42}
           R5 == R4 \ {56}
<1>8. /\ R1 = Slots /\ R2 = {28, 42, 56} /\ R3 = {42, 56} /\ R4 = {56} /\ R5 = {}
      /\ 0 \in R /\ 14 \in R1 /\ 28 \in R2 /\ 42 \in R3 /\ 56 \in R4
  BY DEF Slots
<1>9. R1 \in SUBSET R /\ R2 \in SUBSET R /\ R3 \in SUBSET R /\ R4 \in SUBSET R
  OBVIOUS
<1>10. g[0] = latest /\ g[14] = 2 /\ g[28] = 2 /\ g[42] = 2 /\ g[56] = 2
  BY <1>1, <1>3 DEF Slots
<1>11. SumOf(g, R5) = 0
  <2>1. SumOf(g, {}) = 0
    BY FS_EmptySet, SumFirst
  <2> HIDE DEF R5
  <2> QED
    BY <1>8, <2>1
<1> DEFINE total(s) == SumOf(g, s)
<1>12. /\ total(R) = g[0] + total(R1)
       /\ total(R1) = g[14] + total(R2)
       /\ total(R2) = g[28] + total(R3)
       /\ total(R3) = g[42] + total(R4)
       /\ total(R4) = g[56] + total(R5)
  <2>1. ASSUME NEW s \in SUBSET R, NEW x \in s
        PROVE  total(s) = g[x] + total(s \ {x})
    BY <1>7
  <2> HIDE DEF total, R
  <2>2. total(R) = g[0] + total(R \ {0})
    BY <1>8, <2>1
  <2>3. total(R1) = g[14] + total(R1 \ {14})
    BY <1>8, <1>9, <2>1
  <2>4. total(R2) = g[28] + total(R2 \ {28})
    BY <1>8, <1>9, <2>1
  <2>5. total(R3) = g[42] + total(R3 \ {42})
    BY <1>8, <1>9, <2>1
  <2>6. total(R4) = g[56] + total(R4 \ {56})
    BY <1>8, <1>9, <2>1
  <2> QED
    BY <2>2, <2>3, <2>4, <2>5, <2>6
<1> HIDE DEF R, R1, R2, R3, R4, R5
<1>13. SumOf(g, R) = latest + 8
  BY <1>10, <1>11, <1>12
<1> QED
  BY <1>3, <1>5, <1>13 DEF f

LEMMA CallsAreSum == Calls = SumOf(spent, Ages)
BY DEF Calls, SumOf

\* The load, and one call more at some age.
Loaded(calls, latest, extra) ==
    \E x \in Ages : \A age \in Ages :
        calls[age] <= Load(latest)[age] + IF age = x THEN extra ELSE 0

LEMMA LoadedCalls ==
    ASSUME NEW calls \in [Ages -> Nat], NEW latest \in Nat, NEW extra \in {0, 1},
           Loaded(calls, latest, extra)
    PROVE  SumOf(calls, Ages) \in Nat /\ SumOf(calls, Ages) <= latest + 8 + extra
<1>1. PICK S : S = Ages
  OBVIOUS
<1>2. PICK f : f = Load(latest)
  OBVIOUS
<1>3. PICK x \in S : \A age \in S :
        calls[age] <= f[age] + IF age = x THEN extra ELSE 0
  BY <1>1, <1>2 DEF Loaded
<1>4. IsFiniteSet(S) /\ S \in SUBSET S
  BY <1>1, AgesFinite
<1>5. f \in [S -> Nat]
  BY <1>1, <1>2 DEF Load
<1>6. calls \in [S -> Nat]
  BY <1>1
<1>7. SumOf(f, S) = latest + 8
  BY <1>1, <1>2, LoadSum
<1>8. SumOf(calls, S) \in Nat
  BY <1>4, <1>6, SumFirst
<1>9. CASE extra = 0
  <2>1. \A age \in S : calls[age] \in Nat /\ calls[age] <= f[age]
    BY <1>3, <1>5, <1>6, <1>9
  <2>2. SumOf(calls, S) <= SumOf(f, S)
    BY <1>4, <1>5, <2>1, SumMonotone
  <2> QED
    BY <1>1, <1>7, <1>8, <1>9, <2>2
<1>10. CASE extra = 1
  <2>1. PICK g : g = [f EXCEPT ![x] = @ + 1]
    OBVIOUS
  <2>2. g[x] = f[x] + 1 /\ (\A age \in S \ {x} : g[age] = f[age]) /\ g \in [S -> Nat]
    BY <1>5, <2>1
  <2>3. SumOf(g, S) = SumOf(f, S) + 1
    BY <1>4, <1>5, <2>2, SumRaised
  <2>4. \A age \in S : calls[age] \in Nat /\ calls[age] <= g[age]
    BY <1>3, <1>5, <1>6, <1>10, <2>2
  <2>5. SumOf(calls, S) <= SumOf(g, S)
    BY <1>4, <2>2, <2>4, SumMonotone
  <2> QED
    BY <1>1, <1>7, <1>8, <1>10, <2>3, <2>5
<1> QED
  BY <1>9, <1>10

-----------------------------------------------------------------------------
(* The run, as long as at most one request to Cohere fails.                *)

Working == {"start", "retrieve", "search", "fetch", "rerank", "pause"}

MeasurementTypes ==
    /\ spent \in [Ages -> Nat]
    /\ blips \in Nat
    /\ attempt \in Nat
    /\ step \in Working \cup {"backoff", "report", "done", "aborted", "raised", "fault"}

\* The run goes on, by the pace; and where the account had no room left for a
\* rerank, there is room for all of it after the backoff.
Steady ==
    /\ step # "raised"
    /\ step = "backoff" => attempt = 1
    /\ step = "rerank" => attempt \in {1, 2}
    /\ step = "rerank" /\ attempt = 2 => \A age \in Ages : spent[age] = 0
    /\ step \in Working => Loaded(spent, Latest(step), blips)
    /\ step = "backoff" => blips = 1

MeasurementInv == MeasurementTypes /\ (blips <= 1 => Steady)

\* The script sleeps between two probes.
LEMMA SleptLoad ==
    ASSUME MeasurementTypes, Loaded(spent, 2, blips), Sleep(ProbeDelay), blips \in {0, 1}
    PROVE  Loaded(spent', 0, blips)
<1>1. PICK x \in Ages : \A age \in Ages :
        spent[age] <= Load(2)[age] + IF age = x THEN blips ELSE 0
  BY DEF Loaded
<1> DEFINE y == IF x + 14 \in Ages THEN x + 14 ELSE x
<1>2. y \in Ages
  OBVIOUS
<1>3. ASSUME NEW age \in Ages
      PROVE  spent'[age] <= Load(0)[age] + IF age = y THEN blips ELSE 0
  <2>1. age \in Int /\ x \in Int /\ age >= 0 /\ x >= 0 /\ age <= 59
    BY DEF Ages
  <2>2. CASE age < 14
    <3>1. spent'[age] = 0 /\ Load(0)[age] = 0
      BY <2>1, <2>2 DEF Sleep, ProbeDelay, Load, Slots
    <3> QED
      BY <3>1
  <2>3. CASE age >= 14
    <3> DEFINE b == age - 14
    <3>1. b \in Ages /\ b \in Int
      BY <2>1, <2>3 DEF Ages
    <3>2. spent'[age] = spent[b]
      BY <2>1, <2>3 DEF Sleep, ProbeDelay
    <3>3. spent[b] <= Load(2)[b] + IF b = x THEN blips ELSE 0
      BY <1>1, <3>1
    <3>4. Load(2)[b] <= Load(0)[age] /\ Load(2)[b] \in Nat /\ Load(0)[age] \in Nat
      BY <2>1, <2>3, <3>1 DEF Load, Slots
    <3>5. b = x => age = y
      BY <2>1, <3>1 DEF Ages
    <3>6. spent[b] \in Nat
      BY <3>1 DEF MeasurementTypes
    <3> HIDE DEF b, y
    <3> QED
      BY <3>2, <3>3, <3>4, <3>5, <3>6
  <2> QED
    BY <2>1, <2>2, <2>3
<1> QED
  BY <1>2, <1>3 DEF Loaded

\* A call is made, and perhaps another that failed.
LEMMA SpentLoad ==
    ASSUME MeasurementTypes, NEW latest \in {0, 1}, Loaded(spent, latest, blips),
           NEW n \in Nat, Answers(n), blips + n <= 1
    PROVE  Loaded(spent', latest + 1, blips')
<1>1. PICK x \in Ages : \A age \in Ages :
        spent[age] <= Load(latest)[age] + IF age = x THEN blips ELSE 0
  BY DEF Loaded
<1>2. /\ spent' = [spent EXCEPT ![0] = @ + (n + 1)] /\ blips' = blips + n
      /\ blips \in Nat /\ spent \in [Ages -> Nat]
  BY DEF Answers, Spend, MeasurementTypes
<1>3. 0 \in Ages
  BY DEF Ages
<1>4. /\ Load(latest + 1)[0] = Load(latest)[0] + 1
      /\ \A age \in Ages : Load(latest)[age] \in Nat /\ Load(latest + 1)[age] \in Nat
      /\ \A age \in Ages \ {0} : Load(latest + 1)[age] = Load(latest)[age]
  <2>1. latest \in Nat /\ latest + 1 \in Nat /\ 0 \notin Slots
    BY DEF Slots
  <2>2. ASSUME NEW l \in Nat
        PROVE  /\ Load(l)[0] = l
               /\ \A age \in Ages : Load(l)[age] \in Nat
               /\ \A age \in Ages \ {0} : Load(l)[age] = IF age \in Slots THEN 2 ELSE 0
    BY <1>3, <2>1 DEF Load
  <2> QED
    BY <2>1, <2>2
<1> DEFINE y == IF n = 1 THEN 0 ELSE x
<1>5. n \in {0, 1} /\ (n = 1 => blips = 0)
  BY <1>2
<1>6. y \in Ages
  BY <1>3
<1>7. ASSUME NEW age \in Ages
      PROVE  spent'[age] <= Load(latest + 1)[age] + IF age = y THEN blips' ELSE 0
  <2>1. spent[age] <= Load(latest)[age] + IF age = x THEN blips ELSE 0
    BY <1>1
  <2>2. CASE age = 0
    BY <1>2, <1>4, <1>5, <2>1, <2>2
  <2>3. CASE age # 0
    <3>1. spent'[age] = spent[age] /\ Load(latest + 1)[age] = Load(latest)[age]
      BY <1>2, <1>4, <2>3
    <3> QED
      BY <1>2, <1>4, <1>5, <2>1, <3>1
  <2> QED
    BY <2>2, <2>3
<1> QED
  BY <1>6, <1>7 DEF Loaded

LEMMA NothingSpent ==
    ASSUME NEW calls, \A age \in Ages : calls[age] = 0, NEW latest \in Nat, NEW extra \in Nat
    PROVE  Loaded(calls, latest, extra)
<1>1. 0 \in Ages
  BY DEF Ages
<1>2. ASSUME NEW age \in Ages
      PROVE  calls[age] <= Load(latest)[age] + IF age = 0 THEN extra ELSE 0
  <2>1. Load(latest)[age] \in Nat /\ calls[age] = 0
    BY DEF Load
  <2> QED
    BY <2>1
<1> QED
  BY <1>1, <1>2 DEF Loaded

LEMMA MeasurementInvInit == MeasurementInit => MeasurementInv
<1> SUFFICES ASSUME MeasurementInit PROVE MeasurementInv
  OBVIOUS
<1>1. \A age \in Ages : spent[age] = 0
  BY DEF MeasurementInit
<1>2. blips = 0 /\ step = "start" /\ Latest(step) = 0
  BY DEF MeasurementInit, Latest
<1>3. Loaded(spent, 0, 0)
  BY <1>1, NothingSpent
<1> QED
  BY <1>2, <1>3 DEF MeasurementInit, MeasurementInv, MeasurementTypes, Steady, Working

LEMMA MeasurementTypesStep == MeasurementTypes /\ [MeasurementNext]_mvars => MeasurementTypes'
<1> SUFFICES ASSUME MeasurementTypes, [MeasurementNext]_mvars PROVE MeasurementTypes'
  OBVIOUS
<1>1. 0 \in Ages
  BY DEF Ages
<1>2. ASSUME NEW n \in Nat, Spend(n) PROVE spent' \in [Ages -> Nat]
  BY <1>1, <1>2 DEF Spend, MeasurementTypes
<1>3. ASSUME NEW n \in Tries, Answers(n) \/ Raises(n)
      PROVE  spent' \in [Ages -> Nat] /\ blips' \in Nat
  <2>1. n \in Nat /\ n + 1 \in Nat
    BY MeasurementAssumption DEF Tries, MeasurementAssumption
  <2>2. Spend(n) \/ Spend(n + 1)
    BY <1>3 DEF Answers, Raises
  <2>3. blips' = blips + n
    BY <1>3 DEF Answers, Raises
  <2> QED
    BY <1>2, <2>1, <2>2, <2>3 DEF MeasurementTypes
<1>4. ASSUME NEW n \in {ProbeDelay, RateLimitBackoff}, Sleep(n) PROVE spent' \in [Ages -> Nat]
  <2>1. ASSUME NEW age \in Ages PROVE (IF age < n THEN 0 ELSE spent[age - n]) \in Nat
    <3>1. n \in Nat /\ age \in Nat /\ age <= 59
      BY DEF ProbeDelay, RateLimitBackoff, Ages
    <3>2. ~(age < n) => age - n \in Ages
      BY <3>1 DEF Ages
    <3> QED
      BY <3>2 DEF MeasurementTypes
  <2> QED
    BY <1>4, <2>1 DEF Sleep
<1>5. CASE UNCHANGED mvars
  BY <1>5 DEF mvars, MeasurementTypes
<1>6. CASE Retrieve \/ RetrieveRaises \/ Rerank \/ RerankRaises \/ CohereMalformed
  <2>1. spent' \in [Ages -> Nat] /\ blips' \in Nat
    BY <1>3, <1>6 DEF Retrieve, RetrieveRaises, Rerank, RerankRaises, CohereMalformed
  <2> QED
    BY <1>6, <2>1 DEF Retrieve, RetrieveRaises, Rerank, RerankRaises, CohereMalformed,
                      MeasurementTypes, Working
<1>7. CASE BackOff \/ Pause
  <2>1. spent' \in [Ages -> Nat]
    BY <1>4, <1>7 DEF BackOff, Pause
  <2> QED
    BY <1>7, <2>1 DEF BackOff, Pause, MeasurementTypes, Working
<1>8. CASE \/ RefuseCorpus \/ Begin \/ SearchVectors \/ FetchCandidates
           \/ NoCandidates \/ StoreRaises \/ Report \/ Ended
  BY <1>8 DEF RefuseCorpus, Begin, SearchVectors, FetchCandidates, NoCandidates,
              StoreRaises, Report, Ended, mvars, MeasurementTypes, Working
<1> QED
  BY <1>5, <1>6, <1>7, <1>8 DEF MeasurementNext

\* The account has room when the calls of the last minute are those of the
\* pace and at most one more.
LEMMA CallsInPace ==
    ASSUME MeasurementTypes, Steady, step \in {"retrieve", "rerank"}, blips <= 1
    PROVE  /\ Calls \in Nat
           /\ Calls <= Latest(step) + 8 + blips
           /\ step = "rerank" /\ attempt = 2 => Calls = 0
<1>1. /\ Latest(step) \in Nat /\ blips \in {0, 1} /\ spent \in [Ages -> Nat]
      /\ Loaded(spent, Latest(step), blips)
  BY DEF Latest, MeasurementTypes, Steady, Working
<1>2. Calls \in Nat /\ Calls <= Latest(step) + 8 + blips
  BY <1>1, LoadedCalls, CallsAreSum
<1>3. ASSUME step = "rerank", attempt = 2 PROVE Calls = 0
  <2>1. \A age \in Ages : spent[age] = 0
    BY <1>3 DEF Steady
  <2>2. SumOf(spent, Ages) = 0
    BY <2>1, AgesFinite, SumOfZeros
  <2> QED
    BY <2>2, CallsAreSum
<1> QED
  BY <1>2, <1>3

LEMMA MeasurementInvStep ==
    ASSUME PerMinute >= 10, SdkRetries >= 1, MeasurementInv, [MeasurementNext]_mvars
    PROVE  MeasurementInv'
<1>1. MeasurementTypes /\ MeasurementTypes' /\ PerMinute \in Nat /\ SdkRetries \in Nat
  BY MeasurementTypesStep, MeasurementAssumption DEF MeasurementInv, MeasurementAssumption
<1>2. SUFFICES ASSUME blips' <= 1 PROVE Steady'
  BY <1>1 DEF MeasurementInv
<1>3. ASSUME NEW n \in Tries, Answers(n) \/ Raises(n)
      PROVE  n \in Nat /\ blips' = blips + n /\ blips + n <= 1 /\ Steady
  <2>1. n \in Nat /\ blips' = blips + n /\ blips \in Nat
    BY <1>1, <1>3 DEF Tries, Answers, Raises, MeasurementTypes
  <2> QED
    BY <1>2, <2>1 DEF MeasurementInv
<1>4. ASSUME NEW n \in Tries, Raises(n), step \in {"retrieve", "rerank"}
      PROVE  step = "rerank" /\ attempt = 1 /\ blips' = 1
  <2>1. n \in Nat /\ blips' = blips + n /\ blips + n <= 1 /\ Steady /\ blips \in Nat
    BY <1>1, <1>3, <1>4 DEF MeasurementTypes
  <2>2. n # SdkRetries + 1
    BY <1>1, <2>1
  <2>3. Calls + n = PerMinute
    BY <1>4, <2>2 DEF Raises
  <2>4. /\ Calls \in Nat /\ Calls <= Latest(step) + 8 + blips
        /\ step = "rerank" /\ attempt = 2 => Calls = 0
    BY <1>1, <1>4, <2>1, CallsInPace
  <2>5. step = "rerank" /\ attempt # 2
    <3>1. Latest("retrieve") = 0
      BY DEF Latest
    <3>2. step # "retrieve"
      BY <2>1, <2>3, <2>4, <3>1
    <3>3. step = "rerank"
      BY <1>4, <3>2
    <3> QED
      BY <1>1, <2>1, <2>3, <2>4, <3>3
  <2>6. Latest(step) = 1
    BY <2>5 DEF Latest
  <2>7. blips + n = 1
    BY <2>1, <2>3, <2>4, <2>6
  <2> QED
    BY <2>1, <2>5, <2>7 DEF Steady
<1>5. CASE UNCHANGED mvars \/ Ended
  <2>1. UNCHANGED mvars
    BY <1>5 DEF Ended
  <2> QED
    BY <1>2, <2>1 DEF mvars, MeasurementInv, Steady, Latest, Loaded
<1>6. CASE RefuseCorpus \/ NoCandidates \/ StoreRaises \/ CohereMalformed \/ Report
  BY <1>6 DEF RefuseCorpus, NoCandidates, StoreRaises, CohereMalformed, Report, Steady, Working
<1>7. CASE Begin
  <2>1. step = "start" /\ step' = "retrieve" /\ spent' = spent /\ blips' = blips
    BY <1>7 DEF Begin
  <2>2. Loaded(spent, 0, blips)
    BY <1>2, <2>1 DEF MeasurementInv, Steady, Working, Latest
  <2>3. Loaded(spent', 0, blips')
    BY <2>1, <2>2
  <2> QED
    BY <2>1, <2>3 DEF Steady, Working, Latest
<1>8. CASE Retrieve
  <2>1. PICK n \in Tries : Answers(n)
    BY <1>8 DEF Retrieve
  <2>2. step = "retrieve" /\ step' = "search"
    BY <1>8 DEF Retrieve
  <2>3. n \in Nat /\ blips + n <= 1 /\ Steady
    BY <1>3, <2>1
  <2>4. Loaded(spent, 0, blips)
    BY <2>2, <2>3 DEF Steady, Working, Latest
  <2>5. Loaded(spent', 0 + 1, blips')
    BY <1>1, <2>1, <2>3, <2>4, SpentLoad
  <2> QED
    BY <2>2, <2>5 DEF Steady, Working, Latest
<1>9. CASE RetrieveRaises
  BY <1>4, <1>9 DEF RetrieveRaises
<1>10. CASE Rerank
  <2>1. PICK n \in Tries : Answers(n)
    BY <1>10 DEF Rerank
  <2>2. step = "rerank" /\ step' \in {"pause", "report"}
    BY <1>10 DEF Rerank
  <2>3. n \in Nat /\ blips + n <= 1 /\ Steady
    BY <1>3, <2>1
  <2>4. Loaded(spent, 1, blips)
    BY <2>2, <2>3 DEF Steady, Working, Latest
  <2>5. Loaded(spent', 1 + 1, blips')
    BY <1>1, <2>1, <2>3, <2>4, SpentLoad
  <2>6. 1 + 1 = 2
    OBVIOUS
  <2> QED
    BY <2>2, <2>5, <2>6 DEF Steady, Working, Latest
<1>11. CASE RerankRaises
  <2>1. step = "rerank" /\ attempt = 1 /\ blips' = 1
    BY <1>4, <1>11 DEF RerankRaises
  <2>2. step' = "backoff" /\ attempt' = attempt
    BY <1>11, <2>1 DEF RerankRaises, MeasureAttempts
  <2> QED
    BY <2>1, <2>2 DEF Steady, Working
<1>12. CASE BackOff
  <2>1. /\ step = "backoff" /\ Sleep(RateLimitBackoff) /\ step' = "rerank"
        /\ attempt' = attempt + 1 /\ blips' = blips
    BY <1>12 DEF BackOff
  <2>2. attempt = 1
    BY <1>2, <2>1 DEF MeasurementInv, Steady
  <2>3. \A age \in Ages : spent'[age] = 0
    BY <2>1 DEF Sleep, RateLimitBackoff, Ages
  <2>4. Loaded(spent', 1, blips')
    BY <1>1, <2>3, NothingSpent DEF MeasurementTypes
  <2> QED
    BY <2>1, <2>2, <2>3, <2>4 DEF Steady, Working, Latest
<1>13. CASE Pause
  <2>1. step = "pause" /\ Sleep(ProbeDelay) /\ step' = "retrieve" /\ blips' = blips
    BY <1>13 DEF Pause
  <2>2. Loaded(spent, 2, blips)
    BY <1>2, <2>1 DEF MeasurementInv, Steady, Working, Latest
  <2>3. Loaded(spent', 0, blips)
    BY <1>1, <1>2, <2>1, <2>2, SleptLoad DEF MeasurementTypes
  <2>4. Loaded(spent', 0, blips')
    BY <2>1, <2>3
  <2> QED
    BY <2>1, <2>4 DEF Steady, Working, Latest
<1>14. CASE SearchVectors \/ FetchCandidates
  <2>1. /\ step \in {"search", "fetch"} /\ step' \in {"fetch", "rerank"}
        /\ step' = "rerank" => attempt' = 1
        /\ spent' = spent /\ blips' = blips
    BY <1>14 DEF SearchVectors, FetchCandidates
  <2>2. Loaded(spent, 1, blips)
    BY <1>2, <2>1 DEF MeasurementInv, Steady, Working, Latest
  <2>3. Loaded(spent', 1, blips')
    BY <2>1, <2>2
  <2> QED
    BY <2>1, <2>3 DEF Steady, Working, Latest
<1> QED
  BY <1>5, <1>6, <1>7, <1>8, <1>9, <1>10, <1>11, <1>12, <1>13, <1>14 DEF MeasurementNext

LEMMA MeasurementInvariant ==
    ASSUME PerMinute >= 10, SdkRetries >= 1
    PROVE  MeasurementSpec => []MeasurementInv
<1>1. MeasurementInv /\ [MeasurementNext]_mvars => MeasurementInv'
  BY MeasurementInvStep
<1> QED
  BY <1>1, MeasurementInvInit, PTL DEF MeasurementSpec

\* Two calls a probe, a probe every 14 seconds: an account that allows 10
\* calls a minute or more has room for each, at any moment of the run
\* (PROBE_DELAY_SECONDS).
THEOREM ProbesArePaced ==
    ASSUME PerMinute >= 10, SdkRetries >= 1
    PROVE  MeasurementSpec => []PacedUnderTheCeiling
<1>1. ASSUME MeasurementInv PROVE PacedUnderTheCeiling
  <2> SUFFICES ASSUME Calling, blips = 0 PROVE Calls < PerMinute
    BY DEF PacedUnderTheCeiling
  <2>1. step \in {"retrieve", "rerank"} /\ Latest(step) \in {0, 1}
    BY DEF Calling, Latest
  <2>2. Calls \in Nat /\ Calls <= Latest(step) + 8 + blips
    BY <1>1, <2>1, CallsInPace DEF MeasurementInv
  <2> QED
    BY <2>1, <2>2, MeasurementAssumption DEF MeasurementAssumption
<1>2. MeasurementInv => PacedUnderTheCeiling
  BY <1>1
<1> QED
  BY <1>2, MeasurementInvariant, PTL

\* A request to Cohere that fails in passing, at any call of the run, does not
\* end it: the client repeats it, or the script backs off until the account's
\* minute is over (_rerank_with_retry).  Nothing repeats what the stores are
\* asked for.
THEOREM CohereBlipIsAbsorbed ==
    ASSUME PerMinute >= 10, SdkRetries >= 1
    PROVE  MeasurementSpec => []OneCohereBlipIsAbsorbed
<1>1. MeasurementInv => OneCohereBlipIsAbsorbed
  BY DEF MeasurementInv, Steady, OneCohereBlipIsAbsorbed
<1> QED
  BY <1>1, MeasurementInvariant, PTL
=============================================================================
