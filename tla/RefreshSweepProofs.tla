-------------------------- MODULE RefreshSweepProofs --------------------------
(***************************************************************************)
(* Proofs about RefreshSweep, for any servers, in any order of the         *)
(* configuration, and any times: what the lead has to cover so that no     *)
(* token of a server that answers runs out.                                *)
(***************************************************************************)
EXTENDS RefreshSweep, FiniteSetTheorems, TLAPS

N == Len(Order)

\* Servers of which the sweep has to renew the token in time.
Cared == Reliable \cap WithOAuth

-----------------------------------------------------------------------------
\* The inductive invariant.

\* Where the sweep is, and that a server that answers is neither dropped nor put off.
SweepInv ==
    /\ due \subseteq WithOAuth
    /\ pc # "waiting" => misses = 0
    /\ pc # "refreshing" => busy = 0
    /\ pc = "refreshing" => pos <= N /\ Order[pos] \in due
    /\ Reliable \subseteq stored
    /\ \A s \in Reliable : retryIn[s] = 0

\* The longest it can take until the sweep has refreshed the server at p, if its token is
\* due by then, in a state of the loop given by where it is (at, i), what it found due
\* (d), the time to the next tick (wake), the ticks missed and the time spent on a refresh.
\* The next sweep refreshes it if the loop sleeps, the present one if it is due there,
\* else the one after the present, which spends nothing on it.
TimeTo(p, at, i, d, wake, missed, spent) ==
    CASE at = "waiting" -> wake + (MaxMisses - missed) * Interval + Cost(1, p)
      [] at # "waiting" /\ Order[p] \in d /\ i <= p -> Cost(i, p) - spent
      [] OTHER -> Longest(wake, Cost(i, N) - (IF i <= p THEN MaxRefresh ELSE 0) - spent)
                  + MaxMisses * Interval + Cost(1, p)

\* The token of the server at p lasts until then.
Lasts(p) == left[Order[p]] > TimeTo(p, pc, pos, due, wakeIn, misses, busy)

IInv == TypeOK /\ SweepInv /\ \A p \in 1 .. N : Order[p] \in Cared => Lasts(p)

-----------------------------------------------------------------------------
\* What a sweep costs.

LEMMA Times ==
    /\ Interval \in Nat /\ Interval > 0 /\ Base \in Nat /\ Cap \in Nat
    /\ MaxRefresh \in Nat /\ MaxRefresh > 0
    /\ Lead \in Nat /\ MaxMisses \in Nat /\ MaxExponent \in Nat /\ MaxJitter \in Nat
    /\ MaxLeft \in Nat /\ N \in Nat
    /\ \A i \in 1 .. N : Order[i] \in Servers
  BY TimesAssumption, SweepAssumption DEF N

\* The product is monotonic, and distributes over a sum with one.
LEMMA Products ==
  ASSUME NEW c \in Nat, NEW d \in Nat, NEW r \in Nat
  PROVE  /\ c * r \in Nat
         /\ (c + 1) * r = c * r + r
         /\ c <= d => c * r <= d * r
  OBVIOUS

Places(i, j) == {k \in i .. j : Order[k] \in WithOAuth}

LEMMA PlacesFinite ==
  ASSUME NEW i \in Nat, NEW j \in Nat
  PROVE  IsFiniteSet(Places(i, j)) /\ Cardinality(Places(i, j)) \in Nat
<1>1. IsFiniteSet(i .. j)
  BY FS_Interval
<1>2. Places(i, j) \subseteq i .. j
  BY DEF Places
<1> QED
  BY <1>1, <1>2, FS_Subset, FS_CardinalityType

LEMMA CostMonotonic ==
  ASSUME NEW i \in Nat, NEW j \in Nat, NEW k \in Nat, NEW l \in Nat, k <= i, j <= l
  PROVE  Cost(i, j) \in Nat /\ Cost(i, j) <= Cost(k, l)
<1>1. Places(i, j) \subseteq Places(k, l)
  BY DEF Places
<1>2. Cardinality(Places(i, j)) <= Cardinality(Places(k, l))
  BY <1>1, PlacesFinite, FS_Subset
<1> QED
  BY <1>2, PlacesFinite, Products, Times DEF Cost, Places

\* Passing the places up to p costs at most as much as passing all of them.
LEMMA CostToEnd ==
  ASSUME NEW i \in Nat, NEW p \in 1 .. N
  PROVE  Cost(i, p) \in Nat /\ Cost(i, N) \in Nat /\ Cost(i, p) <= Cost(i, N)
<1>1. p \in Nat /\ N \in Nat /\ p <= N /\ i <= i
  BY Times
<1>2. Cost(i, p) \in Nat /\ Cost(i, p) <= Cost(i, N)
  BY <1>1, CostMonotonic
<1>3. Cost(i, N) \in Nat
  BY <1>1, CostMonotonic
<1> QED
  BY <1>2, <1>3

LEMMA CostType == ASSUME NEW i \in Nat, NEW j \in Nat PROVE Cost(i, j) \in Nat
  BY CostMonotonic

\* Passing a place costs a refresh if its server has an oauth block.
LEMMA CostOfPlace ==
  ASSUME NEW i \in 1 .. N, NEW j \in 1 .. N, i <= j
  PROVE  Cost(i, j) = Cost(i + 1, j) + (IF Order[i] \in WithOAuth THEN MaxRefresh ELSE 0)
<1>1. i \in Nat /\ j \in Nat /\ i + 1 \in Nat
  BY Times
<1>2. CASE Order[i] \in WithOAuth
  <2>1. Places(i, j) = Places(i + 1, j) \cup {i} /\ i \notin Places(i + 1, j)
    BY <1>2, Times DEF Places
  <2>2. Cardinality(Places(i, j)) = Cardinality(Places(i + 1, j)) + 1
    BY <1>1, <2>1, PlacesFinite, FS_AddElement
  <2>3. QED
    BY <1>1, <1>2, <2>2, PlacesFinite, Products, Times DEF Cost, Places
<1>3. CASE Order[i] \notin WithOAuth
  <2>1. Places(i, j) = Places(i + 1, j)
    BY <1>3, Times DEF Places
  <2>2. Cost(i, j) = Cost(i + 1, j)
    BY <2>1 DEF Cost, Places
  <2>3. Cost(i + 1, j) \in Nat
    BY <1>1, CostType
  <2>4. QED
    BY <1>3, <2>2, <2>3
<1> QED
  BY <1>2, <1>3

LEMMA CostOfNone ==
  ASSUME NEW i \in Nat, NEW j \in Nat, i > j
  PROVE  Cost(i, j) = 0
<1>1. Places(i, j) = {}
  BY DEF Places
<1>2. Cardinality(Places(i, j)) = 0
  BY <1>1, FS_EmptySet
<1> QED
  BY <1>2, Times DEF Cost, Places

\* What a place with an oauth block adds.
LEMMA CostWithPlace ==
  ASSUME NEW p \in 1 .. N, Order[p] \in WithOAuth
  PROVE  /\ \A i \in 1 .. N : i <= p => Cost(i, p) >= MaxRefresh /\ Cost(i, N) >= MaxRefresh
         /\ \A i \in 1 .. N : i < p /\ Order[i] \in WithOAuth =>
              Cost(i, N) >= MaxRefresh + MaxRefresh
         /\ \A i \in 1 .. N + 1 : p < i => Cost(i, N) + MaxRefresh <= FullCost
<1>0. p \in Nat /\ N \in Nat /\ p <= N /\ p + 1 \in Nat /\ MaxRefresh \in Nat
  BY Times
<1>1. Cost(p, p) >= MaxRefresh /\ Cost(p, N) = Cost(p + 1, N) + MaxRefresh
  <2>1. Cost(p + 1, p) \in Nat /\ Cost(p + 1, N) \in Nat
    BY <1>0, CostType
  <2>2. Cost(p, p) = Cost(p + 1, p) + MaxRefresh /\ Cost(p, N) = Cost(p + 1, N) + MaxRefresh
    BY <1>0, CostOfPlace
  <2>3. QED
    BY <1>0, <2>1, <2>2
<1>2. ASSUME NEW i \in 1 .. N, i <= p
      PROVE  Cost(i, p) >= MaxRefresh /\ Cost(i, N) >= MaxRefresh
  <2>1. /\ Cost(p, p) \in Nat /\ Cost(p, p) <= Cost(i, p) /\ Cost(p, p) <= Cost(i, N)
        /\ Cost(i, p) \in Nat /\ Cost(i, N) \in Nat
    <3>1. i \in Nat /\ p <= p
      BY <1>0
    <3>2. Cost(p, p) \in Nat /\ Cost(p, p) <= Cost(i, p)
      BY <1>0, <1>2, <3>1, CostMonotonic
    <3>3. Cost(i, p) \in Nat /\ Cost(i, N) \in Nat /\ Cost(i, p) <= Cost(i, N)
      BY <3>1, CostToEnd
    <3>4. QED
      BY <3>2, <3>3
  <2>2. QED
    BY <1>0, <1>1, <2>1
<1>3. ASSUME NEW i \in 1 .. N, i < p, Order[i] \in WithOAuth
      PROVE  Cost(i, N) >= MaxRefresh + MaxRefresh
  <2>1. Cost(i, N) = Cost(i + 1, N) + MaxRefresh
    BY <1>0, <1>3, CostOfPlace
  <2>2. i + 1 \in 1 .. N /\ i + 1 <= p
    BY <1>0, <1>3
  <2>3. Cost(i + 1, N) >= MaxRefresh
    BY <1>2, <2>2
  <2>4. Cost(i + 1, N) \in Nat
    BY <1>0, <2>2, CostType, i + 1 \in Nat
  <2>5. QED
    BY <1>0, <2>1, <2>3, <2>4
<1>4. ASSUME NEW i \in 1 .. N + 1, p < i
      PROVE  Cost(i, N) + MaxRefresh <= FullCost
  <2>1. i \in Nat /\ p + 1 <= i
    BY <1>0, <1>4
  <2>2. Cost(i, N) \in Nat /\ Cost(i, N) <= Cost(p + 1, N)
    BY <1>0, <2>1, CostMonotonic
  <2>3. Cost(p, N) \in Nat /\ Cost(p, N) <= Cost(1, N)
    BY <1>0, CostMonotonic
  <2>4. Cost(p + 1, N) \in Nat /\ Cost(1, N) \in Nat
    BY <1>0, CostType
  <2>5. QED
    BY <1>0, <1>1, <2>2, <2>3, <2>4 DEF FullCost, N
<1> QED
  BY <1>2, <1>3, <1>4
\* Ticks that miss the store.
LEMMA Misses ==
  ASSUME NEW m \in 0 .. MaxMisses
  PROVE  /\ (MaxMisses - m) * Interval \in Nat
         /\ (MaxMisses - m) * Interval <= MaxMisses * Interval
         /\ MaxMisses * Interval \in Nat
         /\ (MaxMisses - 0) * Interval = MaxMisses * Interval
         /\ m < MaxMisses =>
              (MaxMisses - m) * Interval = (MaxMisses - (m + 1)) * Interval + Interval
<1>1. MaxMisses - m \in Nat /\ MaxMisses - m <= MaxMisses /\ MaxMisses - 0 = MaxMisses
  BY Times
<1>2. ASSUME m < MaxMisses
      PROVE  (MaxMisses - m) * Interval = (MaxMisses - (m + 1)) * Interval + Interval
  <2>1. MaxMisses - (m + 1) \in Nat /\ MaxMisses - m = (MaxMisses - (m + 1)) + 1
    BY <1>2, Times
  <2>2. QED
    BY <2>1, Products, Times
<1> QED
  BY <1>1, <1>2, Products, Times

\* Wherever the loop is, a token that lives longer than the lead lasts.
LEMMA LeadCovers ==
  ASSUME EnoughLead, NEW p \in 1 .. N, Order[p] \in WithOAuth,
         NEW at, NEW d, NEW i \in 1 .. N + 1, NEW wake \in 0 .. Interval,
         NEW missed \in 0 .. MaxMisses, NEW spent \in Nat
  PROVE  /\ TimeTo(p, at, i, d, wake, missed, spent) \in Int
         /\ TimeTo(p, at, i, d, wake, missed, spent) <= Lead
<1>1. p \in Nat /\ i \in Nat /\ N \in Nat /\ p <= N /\ 1 <= i /\ 1 <= p
  BY Times
<1>2. /\ Cost(1, p) \in Nat /\ Cost(1, p) <= FullCost /\ FullCost \in Nat
  <2>1. Cost(1, p) \in Nat /\ Cost(1, N) \in Nat /\ Cost(1, p) <= Cost(1, N)
    BY CostToEnd
  <2>2. QED
    BY <2>1 DEF FullCost, N
<1>3. /\ Cost(i, N) \in Nat /\ Cost(i, N) <= FullCost
  <2>1. Cost(i, N) \in Nat /\ Cost(i, N) <= Cost(1, N)
    <3>1. N <= N
      BY <1>1
    <3>2. QED
      BY <1>1, <3>1, CostMonotonic
  <2>2. QED
    BY <2>1 DEF FullCost, N
<1>4. /\ Cost(i, p) \in Nat /\ Cost(i, p) <= FullCost
  <2>1. Cost(i, p) \in Nat /\ Cost(i, N) \in Nat /\ Cost(i, p) <= Cost(i, N)
    BY <1>1, CostToEnd
  <2>2. QED
    BY <1>2, <1>3, <2>1
<1>5. i > p => Cost(i, N) + MaxRefresh <= FullCost
  BY <1>1, CostWithPlace
<1> DEFINE missing == (MaxMisses - missed) * Interval
           all     == MaxMisses * Interval
<1>6. missing \in Nat /\ all \in Nat /\ missing <= all
  BY Misses
<1>7. /\ Interval <= Longest(Interval, FullCost - MaxRefresh)
      /\ FullCost - MaxRefresh <= Longest(Interval, FullCost - MaxRefresh)
      /\ Longest(Interval, FullCost - MaxRefresh) \in Int
  BY <1>2, Times DEF Longest
<1>8. Longest(Interval, FullCost - MaxRefresh) + all + FullCost <= Lead
  BY DEF EnoughLead
<1> HIDE DEF missing, all
<1>9. wake + missing + Cost(1, p) \in Int /\ wake + missing + Cost(1, p) <= Lead
  BY <1>2, <1>6, <1>7, <1>8, Times
<1>10. Cost(i, p) - spent \in Int /\ Cost(i, p) - spent <= Lead
  BY <1>2, <1>4, <1>6, <1>7, <1>8, Times
<1>11. ASSUME NEW x \in Int, x <= FullCost - MaxRefresh
       PROVE  /\ Longest(wake, x) + all + Cost(1, p) \in Int
              /\ Longest(wake, x) + all + Cost(1, p) <= Lead
  <2>1. Longest(wake, x) <= Longest(Interval, FullCost - MaxRefresh)
    BY <1>2, <1>11, Times DEF Longest
  <2>2. Longest(wake, x) \in Int
    BY DEF Longest
  <2>3. QED
    BY <1>2, <1>6, <1>7, <1>8, <2>1, <2>2, Times
<1> DEFINE x == Cost(i, N) - (IF i <= p THEN MaxRefresh ELSE 0) - spent
<1>12. x \in Int /\ x <= FullCost - MaxRefresh
  BY <1>1, <1>2, <1>3, <1>5, Times
<1>13. /\ Longest(wake, x) + all + Cost(1, p) \in Int
       /\ Longest(wake, x) + all + Cost(1, p) <= Lead
  BY <1>11, <1>12
<1> QED
  BY <1>9, <1>10, <1>13 DEF TimeTo, missing, all

-----------------------------------------------------------------------------
\* Types.

LEMMA DelayType ==
  ASSUME NEW n \in 1 .. MaxFailures, NEW jitter \in 0 .. MaxJitter
  PROVE  Delay(n, jitter) \in 0 .. Cap
<1> DEFINE power == 2 ^ Least(n - 1, MaxExponent)
<1>1. Least(n - 1, MaxExponent) \in 0 .. MaxExponent
  BY Times DEF Least, MaxFailures
<1>2. power \in Nat
  BY <1>1, PowersAssumption
<1>3. Delay(n, jitter) = Least(Base * power + jitter, Cap)
  BY DEF Delay
<1> HIDE DEF power
<1>4. Base * power \in Nat
  BY <1>2, Times, Products
<1>5. Cap \in Nat /\ Base * power + jitter \in Nat
  <2>1. jitter \in Nat /\ Cap \in Nat
    BY Times
  <2>2. QED
    BY <1>4, <2>1
<1>6. ASSUME NEW x \in Nat PROVE Least(x, Cap) \in 0 .. Cap
  BY <1>5 DEF Least
<1> QED
  BY <1>3, <1>5, <1>6

LEMMA TypeInit == Init => TypeOK
  BY Times, TimesAssumption DEF Init, TypeOK, MaxFailures, N

LEMMA ClearRetryType ==
  ASSUME TypeOK, NEW s \in Servers, ClearRetry(s) \/ UNCHANGED retryVars
  PROVE  failures' \in [Servers -> 0 .. MaxFailures] /\ retryIn' \in [Servers -> 0 .. Cap]
<1>1. 0 \in 0 .. MaxFailures /\ 0 \in 0 .. Cap
  BY Times DEF MaxFailures
<1>2. failures \in [Servers -> 0 .. MaxFailures] /\ retryIn \in [Servers -> 0 .. Cap]
  BY DEF TypeOK
<1>3. CASE ClearRetry(s)
  BY <1>1, <1>2, <1>3 DEF ClearRetry
<1>4. CASE UNCHANGED retryVars
  BY <1>2, <1>4 DEF retryVars
<1> QED
  BY <1>3, <1>4

LEMMA RecordFailureType ==
  ASSUME TypeOK, NEW s \in Servers, RecordFailure(s)
  PROVE  /\ failures' \in [Servers -> 0 .. MaxFailures] /\ retryIn' \in [Servers -> 0 .. Cap]
         /\ stored' \in SUBSET Servers
<1> DEFINE n == Least(failures[s] + 1, MaxFailures)
<1>1. n \in 1 .. MaxFailures
  BY Times DEF TypeOK, Least, MaxFailures
<1>2. PICK jitter \in 0 .. MaxJitter : retryIn' = [retryIn EXCEPT ![s] = Delay(n, jitter)]
  BY DEF RecordFailure
<1>3. Delay(n, jitter) \in 0 .. Cap
  BY <1>1, DelayType
<1> HIDE DEF n
<1>4. retryIn' \in [Servers -> 0 .. Cap]
  BY <1>2, <1>3 DEF TypeOK
<1>5. failures' = [failures EXCEPT ![s] = n]
  BY DEF RecordFailure, n
<1>6. failures' \in [Servers -> 0 .. MaxFailures]
  BY <1>1, <1>5, Times DEF TypeOK, MaxFailures
<1>7. stored' \in SUBSET Servers
  BY DEF RecordFailure, TypeOK
<1> QED
  BY <1>4, <1>6, <1>7

LEMMA TypeStep == TypeOK /\ [Next]_vars => TypeOK'
<1> SUFFICES ASSUME TypeOK, [Next]_vars PROVE TypeOK'
  OBVIOUS
<1>1. CASE BeginSweep
  BY <1>1, Times DEF BeginSweep, TypeOK, tokenVars, retryVars, N
<1>2. CASE LoadFails
  BY <1>2, Times DEF LoadFails, TypeOK, tokenVars, retryVars
<1>3. CASE EndSweep
  BY <1>3, Times DEF EndSweep, TypeOK, tokenVars, retryVars, N
<1>4. ASSUME NEW s \in Servers, Skip(s) PROVE TypeOK'
  BY <1>4, Times DEF Skip, AtServer, TypeOK, tokenVars, retryVars, N
<1>5. ASSUME NEW s \in Servers, BeginRefresh(s) PROVE TypeOK'
  BY <1>5, Times DEF BeginRefresh, AtServer, TypeOK, tokenVars, retryVars
<1>6. ASSUME NEW s \in Servers, RefreshSucceeds(s) PROVE TypeOK'
  <2>1. /\ failures' \in [Servers -> 0 .. MaxFailures] /\ retryIn' \in [Servers -> 0 .. Cap]
    BY <1>6, ClearRetryType DEF RefreshSucceeds
  <2>2. left' \in [Servers -> 0 .. MaxLeft]
    BY <1>6, TimesAssumption DEF RefreshSucceeds, TypeOK
  <2>3. QED
    BY <1>6, <2>1, <2>2, Times DEF RefreshSucceeds, AtServer, TypeOK, N
<1>7. ASSUME NEW s \in Servers, RefreshFails(s) PROVE TypeOK'
  <2>1. /\ failures' \in [Servers -> 0 .. MaxFailures] /\ retryIn' \in [Servers -> 0 .. Cap]
        /\ stored' \in SUBSET Servers
    BY <1>7, RecordFailureType DEF RefreshFails
  <2>2. QED
    BY <1>7, <2>1, Times DEF RefreshFails, AtServer, TypeOK, N
<1>8. ASSUME NEW s \in Servers, RefreshElsewhere(s) \/ Login(s) PROVE TypeOK'
  <2>1. /\ failures' \in [Servers -> 0 .. MaxFailures] /\ retryIn' \in [Servers -> 0 .. Cap]
    BY <1>8, ClearRetryType DEF RefreshElsewhere, Login, HereOrElsewhere
  <2>2. left' \in [Servers -> 0 .. MaxLeft] /\ stored' \in SUBSET Servers
    BY <1>8, TimesAssumption DEF RefreshElsewhere, Login, NewToken, TypeOK
  <2>3. QED
    BY <1>8, <2>1, <2>2 DEF RefreshElsewhere, Login, TypeOK
<1>9. ASSUME NEW s \in Servers, MarkHealthy(s) PROVE TypeOK'
  <2>1. /\ failures' \in [Servers -> 0 .. MaxFailures] /\ retryIn' \in [Servers -> 0 .. Cap]
    BY <1>9, ClearRetryType DEF MarkHealthy, HereOrElsewhere
  <2>2. QED
    BY <1>9, <2>1 DEF MarkHealthy, TypeOK, tokenVars
<1>10. CASE Tick
  <2>1. /\ left' \in [Servers -> 0 .. MaxLeft] /\ retryIn' \in [Servers -> 0 .. Cap]
        /\ wakeIn' \in 0 .. Interval
    BY <1>10, Times DEF Tick, TypeOK, Less
  <2>2. busy' \in 0 .. MaxRefresh
    BY <1>10, Times DEF Tick, TypeOK
  <2>3. QED
    BY <1>10, <2>1, <2>2 DEF Tick, TypeOK
<1>11. CASE UNCHANGED vars
  BY <1>11 DEF vars, TypeOK
<1> QED
  BY <1>1, <1>2, <1>3, <1>4, <1>5, <1>6, <1>7, <1>8, <1>9, <1>10, <1>11
     DEF Next, Sweep, Visit, Others

\* Every variable keeps its type, whatever the constants; a backoff never exceeds its cap.
THEOREM TypeCorrect == Spec => []TypeOK
  BY TypeInit, TypeStep, PTL DEF Spec

-----------------------------------------------------------------------------
\* The sweep.

LEMMA SweepInit == Init => SweepInv
  BY SweepAssumption DEF Init, SweepInv

LEMMA SweepStep == TypeOK /\ SweepInv /\ [Next]_vars => SweepInv'
<1> SUFFICES ASSUME TypeOK, SweepInv, [Next]_vars PROVE SweepInv'
  OBVIOUS
<1>1. CASE BeginSweep
  BY <1>1 DEF BeginSweep, SweepInv, tokenVars, retryVars
<1>2. CASE LoadFails
  BY <1>2 DEF LoadFails, SweepInv, tokenVars, retryVars
<1>3. CASE EndSweep
  BY <1>3 DEF EndSweep, SweepInv, tokenVars, retryVars
<1>4. ASSUME NEW s \in Servers, Skip(s) PROVE SweepInv'
  BY <1>4 DEF Skip, SweepInv, tokenVars, retryVars
<1>5. ASSUME NEW s \in Servers, BeginRefresh(s) PROVE SweepInv'
  BY <1>5 DEF BeginRefresh, AtServer, SweepInv, tokenVars, retryVars, N
<1>6. ASSUME NEW s \in Servers, ClearRetry(s) \/ UNCHANGED retryVars
      PROVE  \A r \in Reliable : retryIn'[r] = 0
  BY <1>6, SweepAssumption DEF ClearRetry, SweepInv, TypeOK, retryVars
<1>7. ASSUME NEW s \in Servers, RefreshSucceeds(s) PROVE SweepInv'
  BY <1>6, <1>7 DEF RefreshSucceeds, SweepInv
<1>8. ASSUME NEW s \in Servers, RefreshFails(s) PROVE SweepInv'
  <2>1. Reliable \subseteq stored'
    BY <1>8 DEF RefreshFails, RecordFailure, SweepInv
  <2>2. \A r \in Reliable : retryIn'[r] = 0
    BY <1>8, SweepAssumption DEF RefreshFails, RecordFailure, SweepInv, TypeOK
  <2>3. QED
    BY <1>8, <2>1, <2>2 DEF RefreshFails, SweepInv
<1>9. ASSUME NEW s \in Servers, RefreshElsewhere(s) \/ Login(s) \/ MarkHealthy(s)
      PROVE  SweepInv'
  <2>1. \A r \in Reliable : retryIn'[r] = 0
    BY <1>6, <1>9 DEF RefreshElsewhere, Login, MarkHealthy, HereOrElsewhere
  <2>2. Reliable \subseteq stored'
    BY <1>9 DEF RefreshElsewhere, Login, MarkHealthy, NewToken, tokenVars, SweepInv
  <2>3. QED
    BY <1>9, <2>1, <2>2 DEF RefreshElsewhere, Login, MarkHealthy, SweepInv
<1>10. CASE Tick
  <2>1. \A r \in Reliable : retryIn'[r] = 0
    BY <1>10, SweepAssumption DEF Tick, Less, SweepInv
  <2>2. QED
    BY <1>10, <2>1 DEF Tick, SweepInv
<1>11. CASE UNCHANGED vars
  BY <1>11 DEF vars, SweepInv
<1> QED
  BY <1>1, <1>2, <1>3, <1>4, <1>5, <1>7, <1>8, <1>9, <1>10, <1>11
     DEF Next, Sweep, Visit, Others

-----------------------------------------------------------------------------
\* The token of one server, whose place is p, in every step.

\* A server that answers, and what the other parts of the invariant say of it.
LEMMA CaredFacts ==
  ASSUME TypeOK, SweepInv, NEW p \in 1 .. N, Order[p] \in Cared
  PROVE  /\ Order[p] \in Servers /\ Order[p] \in WithOAuth /\ Order[p] \in stored
         /\ Order[p] \in Reliable
         /\ retryIn[Order[p]] = 0 /\ left[Order[p]] \in Nat
         /\ p \in Nat /\ 1 <= p /\ p <= N /\ N \in Nat
         /\ pos \in Nat /\ 1 <= pos /\ pos <= N + 1
         /\ busy \in Nat /\ busy <= MaxRefresh /\ wakeIn \in Nat /\ wakeIn <= Interval
         /\ misses \in 0 .. MaxMisses
  BY Times DEF Cared, TypeOK, SweepInv, N

\* A token that lives longer than the lead lasts, whatever else the step does.
LEMMA FreshLasts ==
  ASSUME EnoughLead, TypeOK', NEW p \in 1 .. N, Order[p] \in Cared,
         left'[Order[p]] \in Nat, left'[Order[p]] > Lead
  PROVE  Lasts(p)'
<1> DEFINE t == TimeTo(p, pc', pos', due', wakeIn', misses', busy')
<1>1. t \in Int /\ t <= Lead
  <2>1. /\ pos' \in 1 .. N + 1 /\ wakeIn' \in 0 .. Interval /\ misses' \in 0 .. MaxMisses
        /\ busy' \in Nat /\ Order[p] \in WithOAuth
    BY Times DEF TypeOK, N, Cared
  <2>2. QED
    BY <2>1, LeadCovers
<1> QED
  BY <1>1, Times DEF Lasts
LEMMA BeginSweepLasts ==
  ASSUME EnoughLead, TypeOK, SweepInv, NEW p \in 1 .. N, Order[p] \in Cared, Lasts(p),
         BeginSweep
  PROVE  Lasts(p)'
<1> DEFINE q == Order[p]
           missing == (MaxMisses - misses) * Interval
           all     == MaxMisses * Interval
<1>1. /\ q \in WithOAuth /\ q \in stored /\ left[q] \in Nat
      /\ p \in Nat /\ 1 <= p /\ p <= N /\ N \in Nat /\ misses \in 0 .. MaxMisses
  BY CaredFacts
<1>2. /\ pc = "waiting" /\ wakeIn = 0 /\ wakeIn' = Interval /\ misses' = 0 /\ pos' = 1
      /\ due' = {s \in WithOAuth \cap stored : left[s] <= Lead} /\ pc' = "scanning"
      /\ left' = left /\ busy' = 0
  BY DEF BeginSweep, SweepInv, tokenVars
<1>3. Cost(1, p) \in Nat /\ Cost(1, N) \in Nat /\ Cost(1, p) <= Cost(1, N)
  BY CostToEnd
<1>4. missing \in Nat /\ all \in Nat
  BY <1>1, Misses
<1> HIDE DEF missing, all
<1>5. CASE left[q] <= Lead
  <2>1. left[q] > 0 + missing + Cost(1, p)
    BY <1>2 DEF Lasts, TimeTo, missing
  <2>2. left[q] > Cost(1, p) - 0
    BY <1>1, <1>3, <1>4, <2>1
  <2>3. q \in due' /\ pos' <= p
    BY <1>1, <1>2, <1>5
  <2>4. QED
    BY <1>2, <2>2, <2>3 DEF Lasts, TimeTo
<1>6. CASE ~ (left[q] <= Lead)
  <2>1. q \notin due' /\ pos' <= p
    BY <1>1, <1>2, <1>6
  <2>2. Longest(Interval, FullCost - MaxRefresh) + all + FullCost <= Lead
    BY DEF EnoughLead, all
  <2>3. Longest(Interval, FullCost - MaxRefresh) \in Int
    BY <1>3, Times DEF Longest, FullCost, N
  <2>4. left[q] > Longest(Interval, Cost(1, N) - MaxRefresh) + all + Cost(1, p)
    <3> DEFINE longest == Longest(Interval, Cost(1, N) - MaxRefresh)
    <3>1. longest \in Int /\ longest + all + Cost(1, N) <= Lead
      BY <2>2, <2>3 DEF FullCost, N
    <3> HIDE DEF longest
    <3>2. left[q] > longest + all + Cost(1, p)
      BY <1>1, <1>3, <1>4, <1>6, <3>1, Times
    <3>3. QED
      BY <3>2 DEF longest
  <2>5. Cost(1, N) - MaxRefresh - 0 = Cost(1, N) - MaxRefresh
    BY <1>3, Times
  <2>6. QED
    BY <1>2, <2>1, <2>4, <2>5 DEF Lasts, TimeTo, all
<1> QED
  BY <1>5, <1>6

LEMMA LoadFailsLasts ==
  ASSUME TypeOK, SweepInv, NEW p \in 1 .. N, Order[p] \in Cared, Lasts(p), LoadFails
  PROVE  Lasts(p)'
<1> DEFINE left0 == left[Order[p]]
           more == (MaxMisses - (misses + 1)) * Interval
<1>1. left0 \in Nat /\ misses \in 0 .. MaxMisses /\ p \in Nat
  BY CaredFacts
<1>2. /\ pc = "waiting" /\ pc' = pc /\ left' = left /\ wakeIn = 0 /\ wakeIn' = Interval
      /\ misses < MaxMisses /\ misses' = misses + 1
  BY DEF LoadFails, tokenVars
<1>3. (MaxMisses - misses) * Interval = more + Interval
  BY <1>1, <1>2, Misses
<1>4. misses + 1 \in 0 .. MaxMisses
  BY <1>1, <1>2, Times
<1>5. more \in Nat
  BY <1>4, Misses
<1>6. left0 > 0 + (more + Interval) + Cost(1, p)
  BY <1>2, <1>3 DEF Lasts, TimeTo
<1>7. Cost(1, p) \in Nat
  BY <1>1, CostType
<1> HIDE DEF more
<1>8. left0 > Interval + more + Cost(1, p)
  BY <1>1, <1>5, <1>6, <1>7, Times
<1> QED
  BY <1>2, <1>8 DEF Lasts, TimeTo, more

\* The sweep goes on to the next place, at p or before or after it, without having
\* refreshed the token there: because it is at another place, or it is not due.
LEMMA NextPlaceLasts ==
  ASSUME TypeOK, SweepInv, NEW p \in 1 .. N, Order[p] \in Cared, Lasts(p),
         pc # "waiting", pc' = "scanning", pos <= N, pos' = pos + 1, busy' = 0,
         UNCHANGED <<wakeIn, misses, due>>, left'[Order[p]] = left[Order[p]],
         busy = 0 \/ Order[pos] \in WithOAuth, pos = p => Order[p] \notin due /\ busy = 0
  PROVE  Lasts(p)'
<1> DEFINE q == Order[p]
           all == MaxMisses * Interval
           rest == Cost(pos, N) - (IF pos <= p THEN MaxRefresh ELSE 0) - busy
           rest1 == Cost(pos + 1, N) - (IF pos + 1 <= p THEN MaxRefresh ELSE 0) - 0
<1>1. /\ q \in WithOAuth /\ left[q] \in Nat
      /\ p \in Nat /\ 1 <= p /\ p <= N /\ N \in Nat /\ misses \in 0 .. MaxMisses
      /\ pos \in Nat /\ 1 <= pos /\ pos <= N /\ pos + 1 \in Nat
      /\ busy \in Nat /\ busy <= MaxRefresh /\ wakeIn \in Nat
  BY CaredFacts
<1>2. Cost(1, p) \in Nat /\ Cost(pos, N) \in Nat /\ Cost(pos + 1, N) \in Nat
  BY <1>1, CostType
<1>3. Cost(pos, N) = Cost(pos + 1, N) + (IF Order[pos] \in WithOAuth THEN MaxRefresh ELSE 0)
  BY <1>1, CostOfPlace
<1>4. CASE q \in due /\ pos <= p
  <2>1. pos < p
    BY <1>1, <1>4
  <2>2. Cost(pos, p) = Cost(pos + 1, p) + (IF Order[pos] \in WithOAuth THEN MaxRefresh ELSE 0)
    BY <1>1, <2>1, CostOfPlace
  <2>3. Cost(pos + 1, p) \in Nat /\ Cost(pos, p) \in Nat
    BY <1>1, CostType
  <2>4. left[q] > Cost(pos, p) - busy
    BY <1>4 DEF Lasts, TimeTo
  <2>5. left[q] > Cost(pos + 1, p) - 0
    BY <1>1, <2>2, <2>3, <2>4, Times
  <2>6. pos + 1 <= p
    BY <1>1, <2>1
  <2>7. QED
    BY <1>4, <2>5, <2>6 DEF Lasts, TimeTo
<1>5. CASE ~ (q \in due /\ pos <= p)
  <2>1. left[q] > Longest(wakeIn, rest) + all + Cost(1, p)
    BY <1>5 DEF Lasts, TimeTo
  <2>2. rest1 <= rest /\ rest \in Int /\ rest1 \in Int
    <3>1. CASE pos = p
      BY <1>1, <1>2, <1>3, <3>1, Times
    <3>2. CASE pos # p
      <4>1. pos <= p <=> pos + 1 <= p
        BY <1>1, <3>2
      <4>2. Cost(pos + 1, N) <= Cost(pos, N) - busy
        BY <1>1, <1>2, <1>3, Times
      <4>3. QED
        BY <1>1, <1>2, <4>1, <4>2, Times
    <3>3. QED
      BY <3>1, <3>2
  <2> HIDE DEF rest, rest1
  <2>3. Longest(wakeIn, rest1) <= Longest(wakeIn, rest)
        /\ Longest(wakeIn, rest) \in Int /\ Longest(wakeIn, rest1) \in Int
    BY <1>1, <2>2 DEF Longest
  <2>4. all \in Nat
    BY <1>1, Misses
  <2> HIDE DEF all
  <2>5. left[q] > Longest(wakeIn, rest1) + all + Cost(1, p)
    BY <1>1, <1>2, <2>1, <2>3, <2>4
  <2>6. ~ (q \in due /\ pos + 1 <= p)
    BY <1>1, <1>5
  <2>7. QED
    BY <2>5, <2>6 DEF Lasts, TimeTo, rest1, all
<1> QED
  BY <1>4, <1>5

LEMMA SkipLasts ==
  ASSUME TypeOK, SweepInv, NEW p \in 1 .. N, Order[p] \in Cared, Lasts(p),
         NEW s \in Servers, Skip(s)
  PROVE  Lasts(p)'
<1>1. retryIn[Order[p]] = 0
  BY CaredFacts
<1>2. /\ pc = "scanning" /\ pos <= N /\ Order[pos] = s /\ pos' = pos + 1 /\ pc' = pc
      /\ busy = 0 /\ busy' = busy /\ left' = left /\ UNCHANGED <<wakeIn, misses, due>>
  BY DEF Skip, AtServer, SweepInv, tokenVars, N
<1>3. pos = p => Order[p] \notin due
  BY <1>1, <1>2 DEF Skip
<1> QED
  BY <1>2, <1>3, NextPlaceLasts

LEMMA BeginRefreshLasts ==
  ASSUME SweepInv, NEW p \in 1 .. N, Lasts(p), NEW s \in Servers, BeginRefresh(s)
  PROVE  Lasts(p)'
<1>1. /\ pc = "scanning" /\ pc' = "refreshing" /\ busy = 0 /\ busy' = 0
      /\ left' = left /\ UNCHANGED <<wakeIn, misses, due, pos>>
  BY DEF BeginRefresh, SweepInv, tokenVars
<1>2. TimeTo(p, "refreshing", pos, due, wakeIn, misses, 0)
        = TimeTo(p, "scanning", pos, due, wakeIn, misses, 0)
  BY Zenon DEF TimeTo
<1>3. left[Order[p]] > TimeTo(p, "refreshing", pos, due, wakeIn, misses, 0)
  BY <1>1, <1>2, Zenon DEF Lasts
<1> QED
  BY <1>1, <1>3, Zenon DEF Lasts

\* The refresh of another server ends.
LEMMA OtherRefreshLasts ==
  ASSUME TypeOK, SweepInv, NEW p \in 1 .. N, Order[p] \in Cared, Lasts(p),
         NEW s \in Servers, RefreshSucceeds(s) \/ RefreshFails(s), Order[p] # s
  PROVE  Lasts(p)'
<1>1. /\ pc = "refreshing" /\ pos <= N /\ Order[pos] = s /\ pos' = pos + 1
      /\ pc' = "scanning" /\ busy' = 0 /\ UNCHANGED <<wakeIn, misses, due>>
  BY DEF RefreshSucceeds, RefreshFails, AtServer, N
<1>2. left'[Order[p]] = left[Order[p]]
  BY CaredFacts DEF RefreshSucceeds, RefreshFails, TypeOK
<1>3. Order[pos] \in WithOAuth /\ pos # p
  BY <1>1 DEF SweepInv
<1> QED
  BY <1>1, <1>2, <1>3, NextPlaceLasts

LEMMA EndSweepLasts ==
  ASSUME TypeOK, SweepInv, NEW p \in 1 .. N, Order[p] \in Cared, Lasts(p), EndSweep
  PROVE  Lasts(p)'
<1> DEFINE all == MaxMisses * Interval
           rest == Cost(pos, N) - 0 - busy
<1>1. /\ left[Order[p]] \in Nat /\ p \in Nat /\ p <= N /\ N \in Nat /\ pos \in Nat
      /\ wakeIn \in Nat /\ misses \in 0 .. MaxMisses
  BY CaredFacts
<1>2. /\ pc = "scanning" /\ pos > N /\ pc' = "waiting" /\ left' = left /\ busy = 0
      /\ misses = 0 /\ UNCHANGED <<wakeIn, misses>>
  BY DEF EndSweep, SweepInv, tokenVars, N
<1>3. ~ (pos <= p)
  BY <1>1, <1>2
<1>4. left[Order[p]] > Longest(wakeIn, rest) + all + Cost(1, p)
  BY <1>2, <1>3 DEF Lasts, TimeTo
<1>5. wakeIn <= Longest(wakeIn, rest) /\ Longest(wakeIn, rest) \in Int
  <2>1. rest \in Int
    BY <1>1, <1>2, CostMonotonic
  <2>2. QED
    BY <1>1, <2>1 DEF Longest
<1>6. Cost(1, p) \in Nat
  BY <1>1, CostType
<1>7. all \in Nat /\ (MaxMisses - 0) * Interval = all
  BY <1>1, Misses
<1> HIDE DEF all
<1>8. left[Order[p]] > wakeIn + all + Cost(1, p)
  BY <1>1, <1>4, <1>5, <1>6, <1>7
<1> QED
  BY <1>2, <1>7, <1>8 DEF Lasts, TimeTo

\* Time passes while the loop sleeps, or while it refreshes: what is left to do shrinks
\* with the token's life, because the refresh under way has not taken its longest yet.
LEMMA TickLasts ==
  ASSUME TypeOK, SweepInv, NEW p \in 1 .. N, Order[p] \in Cared, Lasts(p), Tick
  PROVE  Lasts(p)'
<1> DEFINE q == Order[p]
           all == MaxMisses * Interval
           missing == (MaxMisses - misses) * Interval
           rest == Cost(pos, N) - (IF pos <= p THEN MaxRefresh ELSE 0) - busy
<1>1. /\ q \in Servers /\ q \in WithOAuth /\ left[q] \in Nat
      /\ p \in Nat /\ 1 <= p /\ p <= N /\ N \in Nat /\ misses \in 0 .. MaxMisses
      /\ pos \in Nat /\ 1 <= pos
      /\ busy \in Nat /\ busy <= MaxRefresh /\ wakeIn \in Nat
  BY CaredFacts
<1>2. /\ left'[q] = Less(left[q]) /\ wakeIn' = Less(wakeIn)
      /\ UNCHANGED <<misses, due, pos, pc>>
  BY <1>1 DEF Tick
<1>3. Cost(1, p) \in Nat /\ Cost(pos, p) \in Nat /\ Cost(pos, N) \in Nat
  BY <1>1, CostType
<1>4. missing \in Nat /\ all \in Nat
  BY <1>1, Misses
<1>5. CASE pc = "waiting"
  <2>1. wakeIn > 0 /\ left[q] > wakeIn + missing + Cost(1, p)
    BY <1>5 DEF Tick, Lasts, TimeTo
  <2> HIDE DEF missing
  <2>2. left'[q] > wakeIn' + missing + Cost(1, p)
    BY <1>1, <1>2, <1>3, <1>4, <2>1 DEF Less
  <2>3. QED
    BY <1>2, <1>5, <2>2 DEF Lasts, TimeTo, missing
<1>6. CASE pc # "waiting"
  <2>1. pc = "refreshing" /\ busy < MaxRefresh /\ busy' = busy + 1
    BY <1>6 DEF Tick
  <2>2. pos <= N /\ Order[pos] \in due /\ Order[pos] \in WithOAuth /\ pos \in 1 .. N
    BY <1>1, <2>1 DEF SweepInv
  <2>3. CASE q \in due /\ pos <= p
    <3>1. left[q] > Cost(pos, p) - busy
      BY <1>6, <2>3 DEF Lasts, TimeTo
    <3>2. Cost(pos, p) >= MaxRefresh
      BY <1>1, <2>2, <2>3, CostWithPlace
    <3>3. left'[q] > Cost(pos, p) - (busy + 1)
      BY <1>1, <1>2, <1>3, <2>1, <3>1, <3>2, Times DEF Less
    <3>4. QED
      BY <1>2, <1>6, <2>1, <2>3, <3>3 DEF Lasts, TimeTo
  <2>4. CASE ~ (q \in due /\ pos <= p)
    <3>1. left[q] > Longest(wakeIn, rest) + all + Cost(1, p)
      BY <1>6, <2>4 DEF Lasts, TimeTo
    <3>2. rest \in Int /\ rest > 0
      <4>1. CASE pos <= p
        <5>1. pos < p
          BY <1>1, <2>2, <2>4, <4>1
        <5>2. Cost(pos, N) >= MaxRefresh + MaxRefresh
          BY <1>1, <2>2, <5>1, CostWithPlace
        <5>3. QED
          BY <1>1, <1>3, <2>1, <4>1, <5>2, Times
      <4>2. CASE ~ (pos <= p)
        <5>1. Cost(pos, N) >= MaxRefresh
          BY <1>1, <2>2, CostWithPlace
        <5>2. QED
          BY <1>1, <1>3, <2>1, <4>2, <5>1, Times
      <4>3. QED
        BY <4>1, <4>2
    <3> DEFINE rest1 == Cost(pos, N) - (IF pos <= p THEN MaxRefresh ELSE 0) - (busy + 1)
    <3>3. rest1 = rest - 1
      BY <1>1, <1>3, Times
    <3> HIDE DEF rest, rest1, all
    <3>4. Longest(wakeIn', rest1) = Longest(wakeIn, rest) - 1 /\ Longest(wakeIn, rest) \in Nat
          /\ Longest(wakeIn, rest) > 0
      BY <1>1, <1>2, <3>2, <3>3 DEF Longest, Less
    <3>5. left'[q] > Longest(wakeIn', rest1) + all + Cost(1, p)
      BY <1>1, <1>2, <1>3, <1>4, <3>1, <3>4 DEF Less
    <3>6. QED
      BY <1>2, <1>6, <2>1, <2>4, <3>5 DEF Lasts, TimeTo, rest1, all
  <2>5. QED
    BY <2>3, <2>4
<1> QED
  BY <1>5, <1>6

-----------------------------------------------------------------------------
LEMMA IInvInit == EnoughLead /\ Init => IInv
<1> SUFFICES ASSUME EnoughLead, Init PROVE IInv
  OBVIOUS
<1>1. TypeOK /\ SweepInv
  BY TypeInit, SweepInit
<1>2. ASSUME NEW p \in 1 .. N, Order[p] \in Cared PROVE Lasts(p)
  <2>1. p \in Nat /\ p <= N /\ N \in Nat /\ left[Order[p]] \in Nat /\ Order[p] \in Servers
    BY <1>1, <1>2, CaredFacts
  <2>2. left[Order[p]] > MaxMisses * Interval + FullCost
    BY <2>1 DEF Init, EnoughLead
  <2>3. Cost(1, p) \in Nat /\ Cost(1, p) <= Cost(1, N) /\ Cost(1, N) \in Nat
    BY CostToEnd
  <2> DEFINE all == MaxMisses * Interval
  <2>4. all \in Nat /\ (MaxMisses - 0) * Interval = all
    BY Misses, Times
  <2>5. left[Order[p]] > 0 + all + Cost(1, p)
    <3> HIDE DEF all
    <3>1. left[Order[p]] > all + FullCost
      BY <2>2 DEF all
    <3>2. QED
      BY <2>1, <2>3, <2>4, <3>1 DEF FullCost, N
  <2>6. QED
    BY <2>4, <2>5 DEF Init, Lasts, TimeTo
<1> QED
  BY <1>1, <1>2 DEF IInv

LEMMA IInvNext == EnoughLead /\ IInv /\ [Next]_vars => IInv'
<1> SUFFICES ASSUME EnoughLead, IInv, [Next]_vars PROVE IInv'
  OBVIOUS
<1>1. TypeOK /\ SweepInv /\ TypeOK' /\ SweepInv'
  BY TypeStep, SweepStep DEF IInv
<1>2. ASSUME NEW p \in 1 .. N, Order[p] \in Cared PROVE Lasts(p)'
  <2>1. Lasts(p) /\ Order[p] \in Servers /\ Order[p] \in Reliable
    BY <1>1, <1>2, CaredFacts DEF IInv
  <2>2. ASSUME NEW life \in Lifetimes, left' = [left EXCEPT ![Order[p]] = life]
        PROVE  Lasts(p)'
    <3>1. left'[Order[p]] = life /\ life \in Nat /\ life > Lead
      <4>1. left'[Order[p]] = life
        BY <1>1, <2>1, <2>2 DEF TypeOK
      <4>2. life \in Nat /\ life > Lead
        BY TimesAssumption, Times DEF EnoughLead
      <4>3. QED
        BY <4>1, <4>2
    <3>2. QED
      BY <1>1, <1>2, <3>1, FreshLasts
  <2>3. ASSUME NEW s \in Servers, RefreshSucceeds(s) PROVE Lasts(p)'
    <3>1. CASE s = Order[p]
      BY <2>2, <2>3, <3>1 DEF RefreshSucceeds
    <3>2. CASE s # Order[p]
      BY <1>1, <1>2, <2>1, <2>3, <3>2, OtherRefreshLasts
    <3>3. QED
      BY <3>1, <3>2
  <2>4. ASSUME NEW s \in Servers, RefreshFails(s) PROVE Lasts(p)'
    <3>1. s # Order[p]
      BY <2>1, <2>4 DEF RefreshFails
    <3>2. QED
      BY <1>1, <1>2, <2>1, <2>4, <3>1, OtherRefreshLasts
  <2>5. ASSUME NEW s \in Servers, RefreshElsewhere(s) \/ Login(s) PROVE Lasts(p)'
    <3>1. CASE s = Order[p]
      BY <2>2, <2>5, <3>1 DEF RefreshElsewhere, Login, NewToken
    <3>2. CASE s # Order[p]
      <4>1. left'[Order[p]] = left[Order[p]] /\ UNCHANGED <<wakeIn, misses, due, pos, pc, busy>>
        BY <1>1, <2>1, <2>5, <3>2 DEF RefreshElsewhere, Login, NewToken, TypeOK
      <4>2. QED
        BY <2>1, <4>1 DEF Lasts, TimeTo
    <3>3. QED
      BY <3>1, <3>2
  <2>6. ASSUME NEW s \in Servers, MarkHealthy(s) PROVE Lasts(p)'
    BY <2>1, <2>6 DEF MarkHealthy, tokenVars, Lasts, TimeTo
  <2>7. CASE UNCHANGED vars
    BY <2>1, <2>7 DEF vars, Lasts, TimeTo
  <2>8. ASSUME NEW s \in Servers, Skip(s) \/ BeginRefresh(s) PROVE Lasts(p)'
    BY <1>1, <1>2, <2>1, <2>8, SkipLasts, BeginRefreshLasts
  <2>9. CASE BeginSweep \/ LoadFails \/ EndSweep \/ Tick
    BY <1>1, <1>2, <2>1, <2>9, BeginSweepLasts, LoadFailsLasts, EndSweepLasts, TickLasts
  <2> QED
    BY <2>3, <2>4, <2>5, <2>6, <2>7, <2>8, <2>9 DEF Next, Sweep, Visit, Others
<1> QED
  BY <1>1, <1>2 DEF IInv

-----------------------------------------------------------------------------
\* If the lead is as EnoughLead says, for however many servers the configuration has with
\* an oauth block, in whatever order, no token of a server that answers runs out: not
\* behind servers that hang or fail, not after ticks that miss the store.
THEOREM TokensRenewedInTime == EnoughLead => (Spec => []ReliableInTime)
<1> SUFFICES ASSUME EnoughLead PROVE Spec => []ReliableInTime
  OBVIOUS
<1>1. ASSUME IInv, NEW s \in Cared PROVE left[s] > 0
  <2>1. PICK p \in 1 .. N : Order[p] = s
    BY SweepAssumption DEF Cared, N
  <2>2. Lasts(p) /\ TypeOK /\ SweepInv
    BY <1>1, <2>1 DEF IInv
  <2>3. /\ left[s] \in Nat /\ s \in WithOAuth
        /\ p \in Nat /\ pos \in Nat /\ 1 <= pos /\ p <= N /\ N \in Nat
        /\ busy \in Nat /\ busy <= MaxRefresh /\ wakeIn \in Nat
        /\ misses \in 0 .. MaxMisses
    BY <2>1, <2>2, CaredFacts
  <2>4. Cost(1, p) \in Nat /\ Cost(pos, p) \in Nat /\ Cost(pos, N) \in Nat
    BY <2>3, CostType
  <2> DEFINE all == MaxMisses * Interval
             missing == (MaxMisses - misses) * Interval
             rest == Cost(pos, N) - (IF pos <= p THEN MaxRefresh ELSE 0) - busy
  <2>5. all \in Nat /\ missing \in Nat
    BY <2>3, Misses
  <2>6. CASE pc = "waiting"
    <3>1. left[s] > wakeIn + missing + Cost(1, p)
      BY <2>1, <2>2, <2>6 DEF Lasts, TimeTo
    <3> HIDE DEF missing
    <3>2. QED
      BY <2>3, <2>4, <2>5, <3>1
  <2>7. CASE pc # "waiting" /\ s \in due /\ pos <= p
    <3>1. left[s] > Cost(pos, p) - busy
      BY <2>1, <2>2, <2>7 DEF Lasts, TimeTo
    <3>2. Cost(pos, p) >= MaxRefresh
      BY <2>1, <2>3, <2>7, CostWithPlace
    <3>3. QED
      BY <2>3, <2>4, <3>1, <3>2, Times
  <2>8. CASE pc # "waiting" /\ ~ (s \in due /\ pos <= p)
    <3>1. left[s] > Longest(wakeIn, rest) + all + Cost(1, p)
      BY <2>1, <2>2, <2>8 DEF Lasts, TimeTo
    <3>2. rest \in Int
      BY <2>3, <2>4, Times
    <3> HIDE DEF rest, all
    <3>3. Longest(wakeIn, rest) \in Nat
      BY <2>3, <3>2 DEF Longest
    <3>4. QED
      BY <2>3, <2>4, <2>5, <3>1, <3>3
  <2> QED
    BY <2>6, <2>7, <2>8
<1>2. IInv => ReliableInTime
  BY <1>1 DEF ReliableInTime, InTime, Cared
<1>3. Init => IInv
  BY IInvInit
<1>4. IInv /\ [Next]_vars => IInv'
  BY IInvNext
<1> QED
  BY <1>2, <1>3, <1>4, PTL DEF Spec
================================================================================
