--------------------------- MODULE LimiterProofs ----------------------------
(***************************************************************************)
(* Theorems about the rate limiter and the gateway, for any number of      *)
(* threads, callers and requests allowed, any window and any wait for the  *)
(* lock.                                                                   *)
(***************************************************************************)
EXTENDS Gateway, FoldLemmas

-----------------------------------------------------------------------------
(* What check does to the table.                                           *)

Moments == 0..MaxTime
Times == Seq(Moments)
Table == [Keys -> Times \cup {None}]

\* The requests that are left are the last ones, from the first that is
\* still in the window.
LEMMA UnexpiredIsSuffix ==
    ASSUME NEW h \in Times, NEW cutoff \in Int
    PROVE  /\ Unexpired(h, cutoff) \in Times
           /\ Len(Unexpired(h, cutoff)) > 0 => Unexpired(h, cutoff)[1] > cutoff
           /\ \E d \in 0..Len(h) :
                /\ Len(Unexpired(h, cutoff)) = Len(h) - d
                /\ \A i \in 1..(Len(h) - d) : Unexpired(h, cutoff)[i] = h[i + d]
                /\ \A i \in 1..d : h[i] <= cutoff
<1> DEFINE live == {i \in 1..Len(h) : h[i] > cutoff}
           u == Unexpired(h, cutoff)
<1>1. Len(h) \in Nat /\ \A i \in 1..Len(h) : h[i] \in 0..MaxTime
  <2>1. Len(h) \in Nat /\ h \in [1..Len(h) -> Moments]
    BY DEF Times
  <2> QED
    BY <2>1 DEF Moments
<1>2. CASE live = {}
  <2>1. u = <<>>
    BY <1>2 DEF Unexpired
  <2>2. \A i \in 1..Len(h) : h[i] <= cutoff
    BY <1>1, <1>2, RateLimiterAssumption DEF RateLimiterAssumption
  <2>3. u \in Times /\ Len(u) = 0
    BY <2>1 DEF Times
  <2> DEFINE d == Len(h)
  <2>4. d \in 0..Len(h) /\ Len(u) = Len(h) - d /\ Len(h) - d = 0
    BY <1>1, <2>3
  <2> HIDE DEF u, d
  <2>5. \A i \in 1..(Len(h) - d) : u[i] = h[i + d]
    BY <2>4
  <2>6. \A i \in 1..d : h[i] <= cutoff
    BY <2>2 DEF d
  <2> QED
    BY <2>3, <2>4, <2>5, <2>6 DEF u
<1>3. CASE live # {}
  <2>1. live \in SUBSET Nat
    BY <1>1
  <2>2. PICK n \in live : \A m \in live : n <= m
    BY <1>3, <2>1, Least
  <2>3. Min(live) \in live /\ \A m \in live : Min(live) <= m
    BY <2>2 DEF Min
  <2>4. u = SubSeq(h, Min(live), Len(h))
    BY <1>3 DEF Unexpired
  <2> DEFINE f == Min(live)
  <2>5. f \in 1..Len(h) /\ h[f] > cutoff
    BY <2>3
  <2>6. \A i \in 1..(f - 1) : h[i] <= cutoff
    <3> SUFFICES ASSUME NEW i \in 1..(f - 1) PROVE h[i] <= cutoff
      OBVIOUS
    <3>1. i \in 1..Len(h) /\ ~(f <= i) /\ h[i] \in Int /\ cutoff \in Int
      BY <1>1, <2>5
    <3>2. i \notin live
      BY <2>3, <3>1
    <3> QED
      BY <3>1, <3>2
  <2> HIDE DEF f, live, u
  <2>7. /\ u \in Times /\ Len(u) = Len(h) - (f - 1)
        /\ \A i \in 1..(Len(h) - (f - 1)) : u[i] = h[i + (f - 1)]
    BY <1>1, <2>4, <2>5 DEF f, Times
  <2>8. f - 1 \in 0..Len(h) /\ u[1] > cutoff
    BY <1>1, <2>5, <2>7
  <2> QED
    BY <2>6, <2>7, <2>8 DEF u
<1> HIDE DEF live, u
<1> QED
  BY <1>2, <1>3
\* Only callers with nothing in the window make room for a new one.
LEMMA LookupIs ==
    ASSUME hits \in Table, NEW k \in Keys, NEW cutoff \in Int
    PROVE  /\ Lookup(k, cutoff) \in Table
           /\ Lookup(k, cutoff)[k] \in Times
           /\ hits[k] # None => Lookup(k, cutoff)[k] = hits[k]
           /\ hits[k] = None => Lookup(k, cutoff)[k] = <<>>
           /\ \A c \in Keys \ {k} :
                \/ Lookup(k, cutoff)[c] = hits[c]
                \/ /\ Lookup(k, cutoff)[c] = None
                   /\ hits[c] = <<>> \/ hits[c][Len(hits[c])] <= cutoff
<1> DEFINE room == IF Cardinality(Tracked) >= MaxTrackedKeys
                     THEN Pruned(hits, cutoff) ELSE hits
<1>1. <<>> \in Times
  BY DEF Times
<1>2. /\ room \in Table
      /\ \A c \in Keys : \/ room[c] = hits[c]
                        \/ /\ room[c] = None
                           /\ hits[c] = <<>> \/ hits[c][Len(hits[c])] <= cutoff
  <2>1. Pruned(hits, cutoff) \in Table
    BY DEF Pruned, Table
  <2>2. \A c \in Keys : \/ Pruned(hits, cutoff)[c] = hits[c]
                       \/ /\ Pruned(hits, cutoff)[c] = None
                          /\ hits[c] = <<>> \/ hits[c][Len(hits[c])] <= cutoff
    BY DEF Pruned
  <2> QED
    BY <2>1, <2>2
<1>3. CASE hits[k] # None
  <2>1. Lookup(k, cutoff) = hits /\ hits[k] \in Times
    BY <1>3 DEF Lookup, Table
  <2> QED
    BY <1>3, <2>1
<1>4. CASE hits[k] = None
  <2>1. Lookup(k, cutoff) = [room EXCEPT ![k] = <<>>]
    BY <1>4 DEF Lookup
  <2> HIDE DEF room
  <2> QED
    BY <1>1, <1>2, <1>4, <2>1 DEF Table
<1> HIDE DEF room
<1> QED
  BY <1>3, <1>4

-----------------------------------------------------------------------------
(* What holds of the table and of the threads that wait to look at it.     *)

LimiterTypes ==
    /\ clock \in Moments
    /\ hits \in Table
    /\ now \in [Threads -> Moments \cup {None}]
    /\ key \in [Threads -> Keys \cup {None}]
    /\ answer \in [Threads -> 1..(Window + MaxStall) \cup {None}]

\* The clock a thread has read is at most MaxStall behind.
Current(t) ==
    /\ answer[t] = None
    /\ key[t] \in Keys
    /\ now[t] \in Moments
    /\ now[t] <= clock
    /\ clock <= now[t] + MaxStall

\* Times are appended in the order in which the threads come to the lock, so
\* none is further than MaxStall from the order of the clock.
Sound(h) ==
    /\ Len(h) <= MaxRequests
    /\ \A i \in 1..Len(h) :
         h[i] <= clock /\ \A j \in i..Len(h) : h[i] <= h[j] + MaxStall

LimiterInv ==
    /\ LimiterTypes
    /\ \A t \in Threads : Waiting(t) => Current(t)
    /\ \A k \in Keys : hits[k] # None => Sound(hits[k])
    /\ IsFiniteSet(Tracked)

Table1(t) == Lookup(key[t], Cutoff(t))
Left(t) == Unexpired(Table1(t)[key[t]], Cutoff(t))

\* Under the lock.
LEMMA LeftIsSound ==
    ASSUME LimiterInv, NEW t \in Threads, Waiting(t)
    PROVE  /\ Current(t)
           /\ Cutoff(t) \in Int
           /\ Left(t) \in Times
           /\ Sound(Left(t))
           /\ Len(Left(t)) > 0 => Left(t)[1] > Cutoff(t)
<1>1. Current(t) /\ hits \in Table /\ clock \in Moments
  BY DEF LimiterInv, LimiterTypes
<1>2. Cutoff(t) \in Int
  BY <1>1, RateLimiterAssumption DEF Current, Cutoff, Moments, RateLimiterAssumption
<1> DEFINE k == key[t]
           h == Table1(t)[k]
<1>3. k \in Keys
  BY <1>1 DEF Current
<1> HIDE DEF k
<1>4. h \in Times /\ Sound(h)
  <2>1. h \in Times /\ ((h = hits[k] /\ hits[k] # None) \/ h = <<>>)
    BY <1>1, <1>2, <1>3, LookupIs DEF Table1, k
  <2> HIDE DEF h
  <2>2. CASE h = <<>>
    <3>1. Len(h) = 0
      BY <2>2
    <3> QED
      BY <2>1, <3>1, RateLimiterAssumption DEF Sound, RateLimiterAssumption
  <2>3. CASE h = hits[k] /\ hits[k] # None
    BY <1>3, <2>1, <2>3 DEF LimiterInv
  <2> QED
    BY <2>1, <2>2, <2>3
<1> DEFINE u == Unexpired(h, Cutoff(t))
<1>5. u = Left(t)
  BY DEF Left, k
<1> HIDE DEF h
<1>6. /\ u \in Times
      /\ Len(u) > 0 => u[1] > Cutoff(t)
  BY <1>2, <1>4, UnexpiredIsSuffix
<1>7. PICK d \in 0..Len(h) : /\ Len(u) = Len(h) - d
                             /\ \A i \in 1..(Len(h) - d) : u[i] = h[i + d]
  BY <1>2, <1>4, UnexpiredIsSuffix
<1> HIDE DEF u
<1>8. Sound(u)
  <2>1. Len(h) \in Nat
    BY <1>4 DEF Times
  <2>2. Len(u) <= MaxRequests
    BY <1>4, <1>7, <2>1, RateLimiterAssumption DEF Sound, RateLimiterAssumption
  <2>3. ASSUME NEW i \in 1..Len(u), NEW j \in i..Len(u)
        PROVE  u[i] <= clock /\ u[i] <= u[j] + MaxStall
    <3>1. u[i] = h[i + d] /\ u[j] = h[j + d]
      BY <1>7, <2>1, <2>3
    <3>2. i + d \in 1..Len(h) /\ j + d \in (i + d)..Len(h)
      BY <1>7, <2>1, <2>3
    <3> QED
      BY <1>4, <3>1, <3>2 DEF Sound
  <2>4. \A i \in 1..Len(u) : i \in i..Len(u)
    BY <1>7, <2>1
  <2> QED
    BY <2>2, <2>3, <2>4 DEF Sound
<1> QED
  BY <1>1, <1>2, <1>5, <1>6, <1>8

\* The request that is let in goes last.
LEMMA AppendedIsSound ==
    ASSUME LimiterInv, NEW t \in Threads, Waiting(t), Len(Left(t)) < MaxRequests
    PROVE  Append(Left(t), now[t]) \in Times /\ Sound(Append(Left(t), now[t]))
<1> DEFINE u == Left(t)
           h == Append(u, now[t])
<1>1. u \in Times /\ Sound(u) /\ Current(t) /\ Len(u) < MaxRequests
  BY LeftIsSound
<1> HIDE DEF u
<1>2. now[t] \in Moments
  BY <1>1 DEF Current
<1>3. /\ h \in Times
      /\ Len(u) \in Nat /\ u \in [1..Len(u) -> Moments]
      /\ Len(h) = Len(u) + 1
      /\ h[Len(u) + 1] = now[t]
      /\ \A i \in 1..Len(u) : h[i] = u[i]
  BY <1>1, <1>2 DEF Times
<1> HIDE DEF h
<1>4. Len(h) <= MaxRequests
  BY <1>1, <1>3, RateLimiterAssumption DEF RateLimiterAssumption
<1>5. ASSUME NEW i \in 1..Len(h), NEW j \in i..Len(h)
      PROVE  h[i] <= clock /\ h[i] <= h[j] + MaxStall
  <2>1. clock \in Nat /\ MaxStall \in Nat /\ now[t] \in Nat
    BY <1>2, RateLimiterAssumption DEF LimiterInv, LimiterTypes, Moments, RateLimiterAssumption
  <2>2. CASE j \in 1..Len(u)
    <3>1. i \in 1..Len(u) /\ j \in i..Len(u)
      BY <1>3, <1>5, <2>2
    <3> QED
      BY <1>1, <1>3, <2>2, <3>1 DEF Sound
  <2>3. CASE j = Len(u) + 1 /\ i \in 1..Len(u)
    <3>1. u[i] <= clock /\ u[i] \in Nat
      BY <1>1, <1>3, <2>3 DEF Sound, Moments
    <3>2. h[i] = u[i] /\ h[j] = now[t]
      BY <1>3, <2>3
    <3> QED
      BY <1>1, <2>1, <3>1, <3>2 DEF Current
  <2>4. CASE j = Len(u) + 1 /\ i = Len(u) + 1
    <3>1. h[i] = now[t] /\ h[j] = now[t]
      BY <1>3, <2>4
    <3> QED
      BY <1>1, <2>1, <3>1 DEF Current
  <2> QED
    BY <1>3, <1>5, <2>2, <2>3, <2>4
<1>6. ASSUME NEW i \in 1..Len(h) PROVE h[i] <= clock
  <2>1. i \in i..Len(h)
    BY <1>3
  <2> QED
    BY <1>5, <2>1
<1>7. Sound(h)
  BY <1>4, <1>5, <1>6 DEF Sound
<1> QED
  BY <1>3, <1>7 DEF h, u

\* What both outcomes of check have in common.
LEMMA ServedInv ==
    ASSUME LimiterInv, NEW t \in Threads, Waiting(t),
           NEW h \in Times, Sound(h),
           hits' = [Table1(t) EXCEPT ![key[t]] = h],
           now' = [now EXCEPT ![t] = None],
           key' = [key EXCEPT ![t] = None],
           answer' \in [Threads -> 1..(Window + MaxStall) \cup {None}],
           \A r \in Threads \ {t} : answer'[r] = answer[r],
           clock' = clock
    PROVE  LimiterInv'
<1>1. /\ clock \in Moments /\ hits \in Table
      /\ now \in [Threads -> Moments \cup {None}]
      /\ key \in [Threads -> Keys \cup {None}]
  BY DEF LimiterInv, LimiterTypes
<1>2. key[t] \in Keys /\ Cutoff(t) \in Int
  BY LeftIsSound DEF Current
<1>3. /\ Table1(t) \in Table
      /\ \A c \in Keys \ {key[t]} : Table1(t)[c] \in {hits[c], None}
  BY <1>1, <1>2, LookupIs DEF Table1
<1>4. /\ hits' \in Table
      /\ hits'[key[t]] = h
      /\ \A c \in Keys \ {key[t]} : hits'[c] \in {hits[c], None}
  BY <1>2, <1>3 DEF Table
<1>5. LimiterTypes'
  BY <1>1, <1>4 DEF LimiterTypes
<1>6. \A r \in Threads : (Waiting(r) => Current(r))'
  BY <1>1 DEF LimiterInv, Waiting, Current
<1>7. ASSUME NEW k \in Keys, hits'[k] # None
      PROVE  Sound(hits[k])'
  <2>1. CASE k = key[t]
    BY <1>4, <2>1 DEF Sound
  <2>2. CASE k # key[t]
    <3>1. hits'[k] = hits[k] /\ Sound(hits[k])
      BY <1>4, <1>7, <2>2 DEF LimiterInv
    <3> QED
      BY <3>1 DEF Sound
  <2> QED
    BY <2>1, <2>2
<1>8. IsFiniteSet(Tracked)'
  <2>1. Tracked' \subseteq Tracked \cup {key[t]}
    BY <1>4 DEF Tracked
  <2> QED
    BY <2>1, FS_AddElement, FS_Subset DEF LimiterInv
<1> QED
  BY <1>5, <1>6, <1>7, <1>8 DEF LimiterInv

\* What a rejected caller is told, and in whose favour it is rounded.
LEMMA RejectAnswers ==
    ASSUME LimiterInv, NEW t \in Threads, Reject(t)
    PROVE  /\ Len(Left(t)) >= MaxRequests
           /\ Left(t)[1] \in Moments
           /\ answer'[t] = Left(t)[1] + Window - now[t]
           /\ answer'[t] \in 1..(Window + MaxStall)
           /\ answer' \in [Threads -> 1..(Window + MaxStall) \cup {None}]
           /\ \A r \in Threads \ {t} : answer'[r] = answer[r]
           /\ hits' = [Table1(t) EXCEPT ![key[t]] = Left(t)]
           /\ clock' = clock
<1> DEFINE u == Left(t)
           v == u[1] + Window - now[t]
<1>1. /\ Waiting(t)
      /\ Len(u) >= MaxRequests
      /\ hits' = [Table1(t) EXCEPT ![key[t]] = u]
      /\ answer' = [answer EXCEPT ![t] = v]
      /\ clock' = clock
  BY DEF Reject, Table1, Left
<1>2. /\ u \in Times /\ Sound(u) /\ Current(t)
      /\ Len(u) > 0 => u[1] > Cutoff(t)
  BY <1>1, LeftIsSound
<1> HIDE DEF u
<1>3. 1 \in 1..Len(u) /\ u[1] \in Moments
  <2>1. Len(u) \in Nat /\ u \in [1..Len(u) -> Moments]
    BY <1>2 DEF Times
  <2> QED
    BY <1>1, <2>1, RateLimiterAssumption DEF RateLimiterAssumption
<1>4. u[1] <= clock /\ u[1] > now[t] - Window
  BY <1>2, <1>3 DEF Sound, Cutoff
<1>5. /\ clock \in Nat /\ now[t] \in Nat /\ u[1] \in Nat
      /\ Window \in Nat /\ MaxStall \in Nat
  BY <1>2, <1>3, RateLimiterAssumption
    DEF LimiterInv, LimiterTypes, Current, Moments, RateLimiterAssumption
<1>6. v \in 1..(Window + MaxStall)
  BY <1>2, <1>4, <1>5 DEF Current
<1> HIDE DEF v
<1>7. /\ answer'[t] = v
      /\ answer' \in [Threads -> 1..(Window + MaxStall) \cup {None}]
      /\ \A r \in Threads \ {t} : answer'[r] = answer[r]
  BY <1>1, <1>6 DEF LimiterInv, LimiterTypes
<1> QED
  BY <1>1, <1>3, <1>6, <1>7 DEF v, u

-----------------------------------------------------------------------------
(* The invariant, step by step.                                            *)

LEMMA LimiterInvInit == Init => LimiterInv
<1> SUFFICES ASSUME Init PROVE LimiterInv
  OBVIOUS
<1>1. Tracked = {}
  BY DEF Init, Tracked
<1> QED
  BY <1>1, FS_EmptySet, RateLimiterAssumption
    DEF Init, LimiterInv, LimiterTypes, Moments, Table, Waiting, RateLimiterAssumption

LEMMA TickInv == LimiterInv /\ Tick => LimiterInv'
<1> SUFFICES ASSUME LimiterInv, Tick PROVE LimiterInv'
  OBVIOUS
<1>1. /\ clock \in Nat /\ clock + 1 \in Moments
      /\ clock' = clock + 1
      /\ MaxStall \in Nat /\ MaxTime \in Nat
      /\ UNCHANGED <<hits, now, key, answer>>
  BY RateLimiterAssumption
    DEF LimiterInv, LimiterTypes, Moments, Tick, RateLimiterAssumption
<1>2. LimiterTypes'
  BY <1>1 DEF LimiterInv, LimiterTypes
<1>3. ASSUME NEW t \in Threads, Waiting(t)'
      PROVE  Current(t)'
  <2>1. Current(t) /\ clock - now[t] < MaxStall
    BY <1>1, <1>3 DEF LimiterInv, Tick, Waiting
  <2> QED
    BY <1>1, <2>1 DEF Current, Moments
<1>4. ASSUME NEW k \in Keys, hits'[k] # None
      PROVE  Sound(hits[k])'
  <2> DEFINE h == hits[k]
  <2>1. Sound(h) /\ h \in Times /\ h' = h
    BY <1>1, <1>4 DEF LimiterInv, LimiterTypes, Table
  <2> HIDE DEF h
  <2>2. \A i \in 1..Len(h) : h[i] \in Nat /\ h[i] <= clock
    <3>1. h \in [1..Len(h) -> Moments]
      BY <2>1 DEF Times
    <3> QED
      BY <2>1, <3>1 DEF Moments, Sound
  <2>3. \A i \in 1..Len(h) : h[i] <= clock'
    BY <1>1, <2>2
  <2>4. Sound(h)'
    BY <2>1, <2>3 DEF Sound
  <2> QED
    BY <2>4 DEF h
<1>5. IsFiniteSet(Tracked)'
  BY <1>1 DEF LimiterInv, Tracked
<1> QED
  BY <1>2, <1>3, <1>4, <1>5 DEF LimiterInv

LEMMA ReadClockInv ==
    ASSUME LimiterInv, NEW t \in Threads, NEW k \in Keys, ReadClock(t, k)
    PROVE  LimiterInv'
<1>1. /\ now' = [now EXCEPT ![t] = clock]
      /\ key' = [key EXCEPT ![t] = k]
      /\ answer' = [answer EXCEPT ![t] = None]
      /\ clock' = clock /\ hits' = hits
  BY DEF ReadClock
<1>2. /\ clock \in Moments
      /\ now \in [Threads -> Moments \cup {None}]
      /\ key \in [Threads -> Keys \cup {None}]
      /\ answer \in [Threads -> 1..(Window + MaxStall) \cup {None}]
  BY DEF LimiterInv, LimiterTypes
<1>3. LimiterTypes'
  BY <1>1, <1>2 DEF LimiterInv, LimiterTypes
<1>4. ASSUME NEW r \in Threads, Waiting(r)'
      PROVE  Current(r)'
  <2>1. CASE r = t
    <3>1. now'[r] = clock' /\ key'[r] = k /\ answer'[r] = None
      BY <1>1, <1>2, <2>1
    <3>2. clock' \in Nat /\ clock' <= clock' /\ clock' <= clock' + MaxStall
      BY <1>1, <1>2, RateLimiterAssumption DEF Moments, RateLimiterAssumption
    <3> QED
      BY <1>1, <1>2, <3>1, <3>2 DEF Current
  <2>2. CASE r # t
    <3>1. now'[r] = now[r] /\ key'[r] = key[r] /\ answer'[r] = answer[r]
      BY <1>1, <1>2, <2>2
    <3> QED
      BY <1>1, <1>4, <3>1 DEF LimiterInv, Current, Waiting
  <2> QED
    BY <2>1, <2>2
<1>5. ASSUME NEW c \in Keys, hits'[c] # None
      PROVE  Sound(hits[c])'
  BY <1>1, <1>5 DEF LimiterInv, Sound
<1>6. IsFiniteSet(Tracked)'
  BY <1>1 DEF LimiterInv, Tracked
<1> QED
  BY <1>3, <1>4, <1>5, <1>6 DEF LimiterInv

LEMMA AllowInv ==
    ASSUME LimiterInv, NEW t \in Threads, Allow(t)
    PROVE  LimiterInv'
<1> DEFINE h == Append(Left(t), now[t])
<1>1. /\ Waiting(t)
      /\ Len(Left(t)) < MaxRequests
      /\ hits' = [Table1(t) EXCEPT ![key[t]] = h]
      /\ now' = [now EXCEPT ![t] = None]
      /\ key' = [key EXCEPT ![t] = None]
      /\ answer' = answer /\ clock' = clock
  BY DEF Allow, Table1, Left
<1>2. h \in Times /\ Sound(h)
  BY <1>1, AppendedIsSound
<1>3. answer' \in [Threads -> 1..(Window + MaxStall) \cup {None}]
  BY <1>1 DEF LimiterInv, LimiterTypes
<1> HIDE DEF h
<1> QED
  BY <1>1, <1>2, <1>3, ServedInv

LEMMA RejectInv ==
    ASSUME LimiterInv, NEW t \in Threads, Reject(t)
    PROVE  LimiterInv'
<1> DEFINE h == Left(t)
<1>1. /\ Waiting(t)
      /\ now' = [now EXCEPT ![t] = None]
      /\ key' = [key EXCEPT ![t] = None]
  BY DEF Reject
<1>2. h \in Times /\ Sound(h)
  BY <1>1, LeftIsSound
<1>3. /\ hits' = [Table1(t) EXCEPT ![key[t]] = h]
      /\ answer' \in [Threads -> 1..(Window + MaxStall) \cup {None}]
      /\ \A r \in Threads \ {t} : answer'[r] = answer[r]
      /\ clock' = clock
  BY RejectAnswers
<1> HIDE DEF h
<1> QED
  BY <1>1, <1>2, <1>3, ServedInv

LEMMA LimiterInvStep == LimiterInv /\ [Next]_vars => LimiterInv'
<1> SUFFICES ASSUME LimiterInv, [Next]_vars PROVE LimiterInv'
  OBVIOUS
<1>1. CASE UNCHANGED vars
  BY <1>1 DEF vars, LimiterInv, LimiterTypes, Waiting, Current, Sound, Tracked
<1>2. CASE Next
  BY <1>2, TickInv, ReadClockInv, AllowInv, RejectInv DEF Next
<1> QED
  BY <1>1, <1>2

LEMMA LimiterInvariant == Spec => []LimiterInv
BY LimiterInvInit, LimiterInvStep, PTL DEF Spec

\* Types, which take the allowance of each caller and the seconds a caller
\* can be told to wait into account (RateLimiter.check).
THEOREM LimiterTypeCorrect == Spec => []TypeOK
<1>1. LimiterInv => TypeOK
  BY DEF LimiterInv, LimiterTypes, TypeOK, Table, Times, Moments, Tracked, Sound
<1> QED
  BY <1>1, LimiterInvariant, PTL

-----------------------------------------------------------------------------
(* What a step may do.                                                     *)

\* Only the thread that holds the lock finishes, by one of the two outcomes.
LEMMA WhoFinishes ==
    ASSUME LimiterInv, [Next]_vars, NEW t \in Threads, Finishes(t)
    PROVE  Allow(t) \/ Reject(t)
<1>1. /\ clock \in Moments /\ now \in [Threads -> Moments \cup {None}]
      /\ now[t] # None /\ now'[t] = None
  BY DEF LimiterInv, LimiterTypes, Finishes, Waiting
<1>2. CASE Tick \/ UNCHANGED vars
  BY <1>1, <1>2 DEF Tick, vars
<1>3. CASE \E r \in Threads, k \in Keys : ReadClock(r, k)
  BY <1>1, <1>3 DEF ReadClock, Waiting
<1>4. CASE \E r \in Threads : Allow(r) \/ Reject(r)
  BY <1>1, <1>4 DEF Allow, Reject
<1> QED
  BY <1>2, <1>3, <1>4 DEF Next

LEMMA RetryStep ==
    ASSUME LimiterInv, [Next]_vars, NEW t \in Threads, Finishes(t), answer'[t] # None,
           NEW i \in 1..Len(hits'[key[t]])
    PROVE  answer'[t] <= hits'[key[t]][i] + Window - now[t] + MaxStall
<1>1. Waiting(t) /\ Current(t)
  BY DEF Finishes, LimiterInv
<1>2. Reject(t)
  <2>1. ~Allow(t)
    BY <1>1 DEF Allow, Current
  <2> QED
    BY <2>1, WhoFinishes
<1> DEFINE u == Left(t)
<1>3. /\ u \in Times /\ Sound(u)
      /\ answer'[t] = u[1] + Window - now[t]
      /\ hits' = [Table1(t) EXCEPT ![key[t]] = u]
  BY <1>1, <1>2, LeftIsSound, RejectAnswers
<1> HIDE DEF u
<1>4. Table1(t) \in Table
  BY <1>1, LeftIsSound, LookupIs DEF Table1, Current, LimiterInv, LimiterTypes
<1>5. hits'[key[t]] = u
  BY <1>1, <1>3, <1>4 DEF Table, Current
<1>6. Len(u) \in Nat /\ u \in [1..Len(u) -> Moments] /\ i \in 1..Len(u)
  BY <1>3, <1>5 DEF Times
<1>7. 1 \in 1..Len(u) /\ i \in 1..Len(u)
  BY <1>6
<1>8. u[1] <= u[i] + MaxStall
  BY <1>3, <1>7 DEF Sound
<1>9. u[1] \in Nat /\ u[i] \in Nat /\ now[t] \in Nat /\ Window \in Nat /\ MaxStall \in Nat
  BY <1>1, <1>6, <1>7, RateLimiterAssumption DEF Moments, Current, RateLimiterAssumption
<1> QED
  BY <1>3, <1>5, <1>8, <1>9

\* What a rejected caller is told to wait exceeds what any request still in
\* the window has left by no more than a thread may have waited, in whatever
\* order the times were appended (RateLimiter.check).
THEOREM RetryIsForTheOldest == Spec => RetryIsOldest
<1>1. LimiterInv /\ [Next]_vars =>
        \A t \in Threads : Finishes(t) /\ answer'[t] # None =>
          \A i \in 1..Len(hits'[key[t]]) :
            answer'[t] <= hits'[key[t]][i] + Window - now[t] + MaxStall
  BY RetryStep
<1> QED
  BY <1>1, LimiterInvariant, PTL DEF Spec, RetryIsOldest

\* A step that takes a new caller in serves that caller.
LEMMA CapStep ==
    ASSUME LimiterInv, [Next]_vars, NEW k \in Keys, hits[k] = None, hits'[k] # None,
           Cardinality({c \in Keys : hits'[c] # None}) > MaxTrackedKeys
    PROVE  \E t \in Threads :
             /\ Finishes(t)
             /\ \A c \in Keys \ {key[t]} : hits'[c] # None =>
                  \E i \in 1..Len(hits'[c]) : hits'[c][i] > Cutoff(t)
<1>1. hits \in Table /\ now \in [Threads -> Moments \cup {None}]
  BY DEF LimiterInv, LimiterTypes
<1>2. PICK t \in Threads : Allow(t) \/ Reject(t)
  BY DEF Next, Tick, ReadClock, vars
<1> DEFINE room == IF Cardinality(Tracked) >= MaxTrackedKeys
                     THEN Pruned(hits, Cutoff(t)) ELSE hits
<1>3. Waiting(t) /\ now' = [now EXCEPT ![t] = None]
  BY <1>2 DEF Allow, Reject
<1>4. Finishes(t) /\ Current(t) /\ Cutoff(t) \in Int
  BY <1>1, <1>3, LeftIsSound DEF Finishes
<1>5. PICK h : hits' = [Table1(t) EXCEPT ![key[t]] = h]
  BY <1>2 DEF Allow, Reject, Table1
<1>6. key[t] \in Keys /\ Table1(t) \in Table
  BY <1>1, <1>4, LookupIs DEF Current, Table1
<1>7. \A c \in Keys \ {key[t]} : hits'[c] = Table1(t)[c]
  BY <1>5, <1>6 DEF Table
<1>8. k = key[t] /\ Table1(t) = [room EXCEPT ![k] = <<>>]
  <2>1. \A c \in Keys \ {key[t]} : Table1(t)[c] \in {hits[c], None}
    BY <1>1, <1>4, <1>6, LookupIs DEF Table1
  <2>2. k = key[t]
    BY <1>7, <2>1
  <2> QED
    BY <2>2 DEF Table1, Lookup
<1>9. room = Pruned(hits, Cutoff(t))
  <2> DEFINE after == {c \in Keys : hits'[c] # None}
  <2>1. SUFFICES ASSUME ~(Cardinality(Tracked) >= MaxTrackedKeys)
                 PROVE  Cardinality(after) <= MaxTrackedKeys
    <3>1. IsFiniteSet(after)
      <4>1. after \subseteq Tracked \cup {key[t]}
        <5>1. \A c \in Keys \ {key[t]} : Table1(t)[c] \in {hits[c], None}
          BY <1>1, <1>4, <1>6, LookupIs DEF Table1
        <5> QED
          BY <1>7, <5>1 DEF Tracked
      <4> QED
        BY <4>1, FS_AddElement, FS_Subset DEF LimiterInv
    <3>2. Cardinality(after) \in Nat
      BY <3>1, FS_CardinalityType
    <3>3. MaxTrackedKeys \in Nat
      BY RateLimiterAssumption DEF RateLimiterAssumption
    <3>4. ~(Cardinality(after) <= MaxTrackedKeys)
      BY <3>2, <3>3
    <3> QED
      BY <2>1, <3>4
  <2>2. room = hits
    BY <2>1
  <2>3. after \subseteq Tracked \cup {k}
    BY <1>6, <1>7, <1>8, <2>2 DEF Tracked, Table
  <2>4. k \notin Tracked /\ IsFiniteSet(Tracked)
    BY DEF Tracked, LimiterInv
  <2>5. /\ IsFiniteSet(Tracked \cup {k})
        /\ Cardinality(Tracked \cup {k}) = Cardinality(Tracked) + 1
    BY <2>4, FS_AddElement
  <2>6. Cardinality(after) <= Cardinality(Tracked \cup {k})
    BY <2>3, <2>5, FS_Subset
  <2>7. Cardinality(Tracked) \in Nat /\ Cardinality(after) \in Nat
    BY <2>3, <2>4, <2>5, FS_Subset, FS_CardinalityType
  <2> HIDE DEF after
  <2> QED
    BY <2>1, <2>5, <2>6, <2>7, RateLimiterAssumption DEF RateLimiterAssumption
<1>10. ASSUME NEW c \in Keys \ {key[t]}, hits'[c] # None
       PROVE  \E i \in 1..Len(hits'[c]) : hits'[c][i] > Cutoff(t)
  <2>1. hits'[c] = Pruned(hits, Cutoff(t))[c]
    BY <1>6, <1>7, <1>8, <1>9, <1>10 DEF Pruned
  <2>2. hits'[c] = hits[c] /\ hits[c] # <<>> /\ ~(hits[c][Len(hits[c])] <= Cutoff(t))
    BY <1>10, <2>1 DEF Pruned
  <2>3. hits[c] \in Times
    BY <1>1, <1>10, <2>2 DEF Table
  <2>4. Len(hits[c]) \in 1..Len(hits[c]) /\ hits[c] \in [1..Len(hits[c]) -> Moments]
    BY <2>2, <2>3 DEF Times
  <2>5. hits[c][Len(hits[c])] \in Int
    BY <2>4 DEF Moments
  <2> QED
    BY <1>4, <2>2, <2>4, <2>5
<1> QED
  BY <1>4, <1>10

\* The table grows past its cap only by callers that each have a request in
\* the window, however many callers there are and however far past it the
\* table has grown before (RateLimiter._prune).
THEOREM CapYieldsToTheLive == Spec => CapGrowsOnlyWhenLive
<1>1. LimiterInv /\ [Next]_vars =>
        (/\ \E k \in Keys : hits[k] = None /\ hits'[k] # None
         /\ Cardinality({k \in Keys : hits'[k] # None}) > MaxTrackedKeys
         => \E t \in Threads :
              /\ Finishes(t)
              /\ \A k \in Keys \ {key[t]} : hits'[k] # None =>
                   \E i \in 1..Len(hits'[k]) : hits'[k][i] > Cutoff(t))
  BY CapStep
<1> QED
  BY <1>1, LimiterInvariant, PTL DEF Spec, CapGrowsOnlyWhenLive

-----------------------------------------------------------------------------
(* What the times in the table say about the requests that were let in.    *)

Since(c) == {m \in Moments : m >= c}
Total(g, c) == SumOf(g, Since(c))

\* The last n of h are at least b.
LastOnes(h, n, b) ==
    n <= Len(h) /\ \A i \in 1..Len(h) : i > Len(h) - n => h[i] >= b

\* As long as a request of h can count, it and those after it were let in at
\* its time or later: h never counts a request twice.
Backed(h, g, T) ==
    \A i \in 1..Len(h) :
        h[i] + Window + MaxStall > T => Len(h) - i + 1 <= Total(g, h[i])

\* Those let in at c or later are the last ones of h, by times that cannot be
\* far before c: h has not forgotten one, whatever was dropped.
Remembered(h, g, T) ==
    \A c \in Int : c + Window - MaxStall > T => LastOnes(h, Total(g, c), c - MaxStall)

Matches(h, g, T) ==
    /\ g \in [Moments -> Nat]
    /\ \A m \in Moments : m > T => g[m] = 0
    /\ Backed(h, g, T)
    /\ Remembered(h, g, T)

LEMMA SinceIsFinite ==
    /\ IsFiniteSet(Moments) /\ Moments \subseteq Nat
    /\ \A c \in Int : IsFiniteSet(Since(c)) /\ Since(c) \subseteq Moments
<1>1. IsFiniteSet(Moments) /\ Moments \subseteq Nat
  BY FS_Interval, RateLimiterAssumption DEF Moments, RateLimiterAssumption
<1> QED
  BY <1>1, FS_Subset DEF Since

LEMMA TotalIsNat ==
    ASSUME NEW g \in [Moments -> Nat], NEW c \in Int
    PROVE  Total(g, c) \in Nat
BY SinceIsFinite, SumFirst DEF Total

\* Time passes.
LEMMA MatchesLater ==
    ASSUME NEW h \in Times, NEW g, NEW T \in Nat, Matches(h, g, T),
           NEW f, f = [m \in Moments |-> IF m + Window + MaxStall <= T + 1 THEN 0 ELSE g[m]]
    PROVE  Matches(h, f, T + 1)
<1>1. /\ Window \in Nat /\ MaxStall \in Nat /\ Moments \subseteq Nat
      /\ g \in [Moments -> Nat]
  BY SinceIsFinite, RateLimiterAssumption DEF Matches, RateLimiterAssumption
<1>2. f \in [Moments -> Nat]
  BY <1>1
<1>3. \A m \in Moments : m > T + 1 => f[m] = 0
  BY <1>1 DEF Matches
<1>4. ASSUME NEW c \in Int, c + Window + MaxStall > T + 1
      PROVE  Total(f, c) = Total(g, c)
  <2>1. ASSUME NEW m \in Since(c) PROVE f[m] = g[m] /\ g[m] \in Nat
    <3>1. m \in Moments /\ m \in Nat /\ m >= c
      BY <1>1 DEF Since
    <3>2. ~(m + Window + MaxStall <= T + 1)
      BY <1>1, <1>4, <3>1
    <3> QED
      BY <1>1, <3>1, <3>2
  <2>2. IsFiniteSet(Since(c))
    BY SinceIsFinite
  <2> DEFINE R == Since(c)
  <2>3. R \in SUBSET R /\ \A m \in R \ R : g[m] = 0
    OBVIOUS
  <2> HIDE DEF R
  <2>4. SumOf(g, R) = SumOf(f, R)
    BY <2>1, <2>2, <2>3, SumRelevant DEF R
  <2> QED
    BY <2>4 DEF Total, R
<1>5. Len(h) \in Nat /\ h \in [1..Len(h) -> Moments]
  BY DEF Times
<1>6. ASSUME NEW i \in 1..Len(h), h[i] + Window + MaxStall > T + 1
      PROVE  Len(h) - i + 1 <= Total(f, h[i])
  <2>1. h[i] \in Int /\ h[i] + Window + MaxStall > T
    <3> DEFINE a == h[i]
    <3>1. a \in Moments
      BY <1>5
    <3>2. a + Window + MaxStall > T + 1
      BY <1>6
    <3> HIDE DEF a
    <3>3. a \in Nat /\ a + Window + MaxStall > T
      BY <1>1, <3>1, <3>2
    <3> QED
      BY <3>3 DEF a
  <2>2. Total(f, h[i]) = Total(g, h[i])
    BY <1>4, <1>6, <2>1
  <2> QED
    BY <2>1, <2>2 DEF Matches, Backed
<1>7. ASSUME NEW c \in Int, c + Window - MaxStall > T + 1
      PROVE  LastOnes(h, Total(f, c), c - MaxStall)
  <2>1. c + Window + MaxStall > T + 1 /\ c + Window - MaxStall > T
    BY <1>1, <1>7
  <2>2. Total(f, c) = Total(g, c)
    BY <1>4, <2>1
  <2> QED
    BY <2>1, <2>2 DEF Matches, Remembered
<1> QED
  BY <1>2, <1>3, <1>6, <1>7 DEF Matches, Backed, Remembered

\* Requests out of the window are taken off at the front.
LEMMA MatchesFewer ==
    ASSUME NEW h \in Times, NEW g, NEW T \in Nat, Matches(h, g, T),
           NEW cutoff \in Int, cutoff <= T - Window
    PROVE  Matches(Unexpired(h, cutoff), g, T)
<1> DEFINE u == Unexpired(h, cutoff)
<1>1. PICK d \in 0..Len(h) : /\ Len(u) = Len(h) - d
                             /\ \A i \in 1..(Len(h) - d) : u[i] = h[i + d]
                             /\ \A i \in 1..d : h[i] <= cutoff
  BY UnexpiredIsSuffix
<1> HIDE DEF u
<1>2. /\ Window \in Nat /\ MaxStall \in Nat /\ Moments \subseteq Nat
      /\ g \in [Moments -> Nat]
      /\ Len(h) \in Nat /\ h \in [1..Len(h) -> Moments]
  BY SinceIsFinite, RateLimiterAssumption DEF Matches, Times, RateLimiterAssumption
<1>3. ASSUME NEW i \in 1..Len(u), u[i] + Window + MaxStall > T
      PROVE  Len(u) - i + 1 <= Total(g, u[i])
  <2>1. i + d \in 1..Len(h) /\ u[i] = h[i + d]
    BY <1>1, <1>2
  <2>2. Len(h) - (i + d) + 1 <= Total(g, h[i + d])
    BY <1>3, <2>1 DEF Matches, Backed
  <2>3. Len(u) - i + 1 = Len(h) - (i + d) + 1
    BY <1>1, <1>2
  <2> QED
    BY <2>1, <2>2, <2>3
<1>4. ASSUME NEW c \in Int, c + Window - MaxStall > T
      PROVE  LastOnes(u, Total(g, c), c - MaxStall)
  <2> DEFINE n == Total(g, c)
  <2>1. n \in Nat
    BY <1>2, TotalIsNat
  <2>2. LastOnes(h, n, c - MaxStall)
    BY <1>4 DEF Matches, Remembered
  <2> HIDE DEF n
  <2>3. n <= Len(h)
    BY <2>2 DEF LastOnes
  <2>4. ASSUME n > Len(h) - d PROVE FALSE
    <3> DEFINE i == Len(h) - n + 1
    <3>1. i \in 1..d /\ i \in 1..Len(h) /\ i > Len(h) - n
      BY <1>1, <1>2, <2>1, <2>3, <2>4
    <3> HIDE DEF i
    <3>2. h[i] >= c - MaxStall /\ h[i] <= cutoff
      BY <1>1, <2>2, <3>1 DEF LastOnes
    <3>3. h[i] \in Nat
      BY <1>2, <3>1
    <3> QED
      BY <1>2, <1>4, <3>2, <3>3
  <2>5. n <= Len(u)
    BY <1>1, <1>2, <2>1, <2>4
  <2>6. ASSUME NEW i \in 1..Len(u), i > Len(u) - n PROVE u[i] >= c - MaxStall
    <3>1. i + d \in 1..Len(h) /\ u[i] = h[i + d] /\ i + d > Len(h) - n
      BY <1>1, <1>2, <2>1, <2>6
    <3> QED
      BY <2>2, <3>1 DEF LastOnes
  <2>7. LastOnes(u, n, c - MaxStall)
    BY <2>5, <2>6 DEF LastOnes
  <2> QED
    BY <2>7 DEF n
<1>5. Matches(u, g, T)
  BY <1>2, <1>3, <1>4 DEF Matches, Backed, Remembered
<1> QED
  BY <1>5 DEF u

\* A caller is dropped, though its last request need not be its newest.
LEMMA MatchesNone ==
    ASSUME NEW h \in Times, NEW g, NEW T \in Nat, Matches(h, g, T),
           h = <<>> \/ h[Len(h)] <= T - Window
    PROVE  Matches(<<>>, g, T)
<1>1. /\ Window \in Nat /\ MaxStall \in Nat /\ Moments \subseteq Nat
      /\ g \in [Moments -> Nat]
      /\ Len(h) \in Nat /\ h \in [1..Len(h) -> Moments]
  BY SinceIsFinite, RateLimiterAssumption DEF Matches, Times, RateLimiterAssumption
<1> DEFINE u == <<>>
<1>2. Len(u) = 0
  OBVIOUS
<1> HIDE DEF u
<1>3. ASSUME NEW c \in Int, c + Window - MaxStall > T
      PROVE  Total(g, c) = 0
  <2> DEFINE n == Total(g, c)
  <2>1. n \in Nat
    BY <1>1, TotalIsNat
  <2>2. LastOnes(h, n, c - MaxStall)
    BY <1>3 DEF Matches, Remembered
  <2> HIDE DEF n
  <2>3. ASSUME n # 0 PROVE FALSE
    <3> DEFINE i == Len(h)
    <3>1. i \in 1..Len(h) /\ i > Len(h) - n
      BY <1>1, <2>1, <2>2, <2>3 DEF LastOnes
    <3>2. h[i] >= c - MaxStall /\ h[i] \in Nat
      BY <1>1, <2>2, <3>1 DEF LastOnes
    <3>3. h # <<>>
      BY <3>1
    <3> QED
      BY <1>1, <1>3, <3>2, <3>3
  <2> QED
    BY <2>3 DEF n
<1>4. ASSUME NEW c \in Int, c + Window - MaxStall > T
      PROVE  LastOnes(u, Total(g, c), c - MaxStall)
  BY <1>2, <1>3, <1>4 DEF LastOnes
<1>5. Matches(u, g, T)
  BY <1>1, <1>2, <1>4 DEF Matches, Backed, Remembered
<1> QED
  BY <1>5 DEF u

\* A request is let in at T, by a clock read a little earlier.
LEMMA MatchesMore ==
    ASSUME NEW u \in Times, NEW g, NEW T \in Moments, Matches(u, g, T),
           \A i \in 1..Len(u) : u[i] <= T,
           NEW a \in Moments, a <= T, T <= a + MaxStall,
           NEW f, f = [g EXCEPT ![T] = @ + 1]
    PROVE  Matches(Append(u, a), f, T)
<1> DEFINE h == Append(u, a)
<1>1. /\ Window \in Nat /\ MaxStall \in Nat /\ Moments \subseteq Nat
      /\ g \in [Moments -> Nat] /\ T \in Nat /\ a \in Nat
      /\ Len(u) \in Nat /\ u \in [1..Len(u) -> Moments]
  BY SinceIsFinite, RateLimiterAssumption DEF Matches, Times, RateLimiterAssumption
<1>2. /\ h \in Times
      /\ Len(h) = Len(u) + 1
      /\ h[Len(u) + 1] = a
      /\ \A i \in 1..Len(u) : h[i] = u[i]
  BY DEF Times
<1> HIDE DEF h
<1>3. /\ f \in [Moments -> Nat] /\ f[T] = g[T] + 1
      /\ \A m \in Moments \ {T} : f[m] = g[m]
  BY <1>1
<1>4. \A m \in Moments : m > T => f[m] = 0
  BY <1>1, <1>3 DEF Matches
<1>5. ASSUME NEW c \in Int, c <= T
      PROVE  Total(f, c) = Total(g, c) + 1
  <2> DEFINE R == Since(c)
  <2>1. IsFiniteSet(R) /\ R \subseteq Moments /\ T \in R
    BY <1>5, SinceIsFinite DEF Since
  <2> HIDE DEF R
  <2>2. /\ \A m \in R : g[m] \in Nat
        /\ \A m \in R \ {T} : f[m] = g[m]
    BY <1>1, <1>3, <2>1
  <2>3. SumOf(f, R) = SumOf(g, R) + 1
    BY <1>3, <2>1, <2>2, SumRaised
  <2> QED
    BY <2>3 DEF Total, R
<1>6. ASSUME NEW c \in Int, c > T
      PROVE  Total(f, c) = 0
  <2> DEFINE R == Since(c)
  <2>1. IsFiniteSet(R)
    BY SinceIsFinite DEF Since
  <2>2. ASSUME NEW m \in R PROVE f[m] = 0
    <3>1. m \in Moments /\ m >= c /\ m \in Nat
      BY <1>1 DEF Since
    <3>2. m > T
      BY <1>1, <1>6, <3>1
    <3> QED
      BY <1>4, <3>1, <3>2
  <2> HIDE DEF R
  <2>3. SumOf(f, R) = 0
    BY <2>1, <2>2, SumOfZeros
  <2> QED
    BY <2>3 DEF Total, R
<1>7. ASSUME NEW i \in 1..Len(h), h[i] + Window + MaxStall > T
      PROVE  Len(h) - i + 1 <= Total(f, h[i])
  <2>1. CASE i \in 1..Len(u)
    <3> DEFINE b == u[i]
    <3>1. h[i] = b /\ b \in Nat /\ b <= T
      BY <1>1, <1>2, <2>1
    <3>2. Len(u) - i + 1 <= Total(g, b)
      BY <1>7, <2>1, <3>1 DEF Matches, Backed
    <3> HIDE DEF b
    <3>3. b \in Int
      BY <3>1
    <3>4. Total(g, b) \in Nat
      BY <1>1, <3>3, TotalIsNat
    <3>5. Total(f, b) = Total(g, b) + 1
      BY <1>5, <3>1, <3>3
    <3> QED
      BY <1>1, <1>2, <2>1, <3>1, <3>2, <3>4, <3>5
  <2>2. CASE i = Len(u) + 1
    <3>1. h[i] = a
      BY <1>2, <2>2
    <3>2. a \in Int
      BY <1>1
    <3>3. Total(g, a) \in Nat
      BY <1>1, <3>2, TotalIsNat
    <3>4. Total(f, a) = Total(g, a) + 1
      BY <1>5, <3>2
    <3>5. Len(h) - i + 1 = 1
      BY <1>1, <1>2, <2>2
    <3> QED
      BY <3>1, <3>3, <3>4, <3>5
  <2> QED
    BY <1>1, <1>2, <2>1, <2>2
<1>8. ASSUME NEW c \in Int, c + Window - MaxStall > T
      PROVE  LastOnes(h, Total(f, c), c - MaxStall)
  <2> DEFINE n == Total(g, c)
  <2>1. n \in Nat
    BY <1>1, TotalIsNat
  <2>2. LastOnes(u, n, c - MaxStall)
    BY <1>8 DEF Matches, Remembered
  <2> HIDE DEF n
  <2>3. CASE c <= T
    <3>1. Total(f, c) = n + 1
      BY <1>5, <2>3 DEF n
    <3>2. n + 1 <= Len(h)
      BY <1>1, <1>2, <2>1, <2>2 DEF LastOnes
    <3>3. ASSUME NEW i \in 1..Len(h), i > Len(h) - (n + 1)
          PROVE  h[i] >= c - MaxStall
      <4>1. CASE i \in 1..Len(u)
        <5>1. i > Len(u) - n
          BY <1>1, <1>2, <2>1, <3>3
        <5> QED
          BY <1>2, <2>2, <4>1, <5>1 DEF LastOnes
      <4>2. CASE i = Len(u) + 1
        <5>1. h[i] = a
          BY <1>2, <4>2
        <5> QED
          BY <1>1, <2>3, <5>1
      <4> QED
        BY <1>1, <1>2, <4>1, <4>2
    <3>4. LastOnes(h, n + 1, c - MaxStall)
      BY <3>2, <3>3 DEF LastOnes
    <3> QED
      BY <3>1, <3>4
  <2>4. CASE c > T
    <3>1. Total(f, c) = 0
      BY <1>6, <2>4
    <3>2. LastOnes(h, 0, c - MaxStall)
      BY <1>1, <1>2 DEF LastOnes
    <3> QED
      BY <3>1, <3>2
  <2> QED
    BY <1>1, <2>3, <2>4
<1>9. Matches(h, f, T)
  BY <1>3, <1>4, <1>7, <1>8 DEF Matches, Backed, Remembered
<1> QED
  BY <1>9 DEF h

\* Requests counted in the last span of time.
Within(g, T, span) == SumOf(g, {m \in Moments : m + span > T})

LEMMA WithinIsNat ==
    ASSUME NEW g \in [Moments -> Nat], NEW T, NEW span
    PROVE  Within(g, T, span) \in Nat
<1> DEFINE R == {m \in Moments : m + span > T}
<1>1. IsFiniteSet(R) /\ R \subseteq Moments
  BY SinceIsFinite, FS_Subset
<1> HIDE DEF R
<1>2. SumOf(g, R) \in Nat
  BY <1>1, SumFirst
<1> QED
  BY <1>2 DEF Within, R

\* No more were let in than are left in the table ...
LEMMA NoneForgotten ==
    ASSUME NEW u \in Times, NEW g, NEW T \in Nat, Matches(u, g, T)
    PROVE  Within(g, T, Window - MaxStall) <= Len(u)
<1> DEFINE c == T - (Window - MaxStall) + 1
           R == {m \in Moments : m + (Window - MaxStall) > T}
<1>1. Window \in Nat /\ MaxStall \in Nat /\ Moments \subseteq Nat
  BY SinceIsFinite, RateLimiterAssumption DEF RateLimiterAssumption
<1>2. R = Since(c)
  <2>1. ASSUME NEW m \in Moments
        PROVE  m + (Window - MaxStall) > T <=> m >= c
    <3>1. m \in Nat
      BY <1>1
    <3> QED
      BY <1>1, <3>1
  <2> HIDE DEF c
  <2> QED
    BY <2>1 DEF Since
<1>3. c \in Int /\ c + Window - MaxStall > T
  BY <1>1
<1> HIDE DEF c
<1>4. Total(g, c) <= Len(u)
  BY <1>3 DEF Matches, Remembered, LastOnes
<1> HIDE DEF R
<1>5. SumOf(g, R) <= Len(u)
  BY <1>2, <1>4 DEF Total
<1> QED
  BY <1>5 DEF Within, R

\* ... nor fewer, as long as the first of them can count.
LEMMA NoneInvented ==
    ASSUME NEW u \in Times, NEW g, NEW T \in Nat, Matches(u, g, T),
           Len(u) > 0, u[1] + Window + MaxStall > T
    PROVE  Len(u) <= Within(g, T, Window + MaxStall)
<1> DEFINE R == {m \in Moments : m + (Window + MaxStall) > T}
           a == u[1]
<1>1. /\ Window \in Nat /\ MaxStall \in Nat /\ Moments \subseteq Nat
      /\ g \in [Moments -> Nat] /\ IsFiniteSet(Moments)
      /\ Len(u) \in Nat /\ u \in [1..Len(u) -> Moments]
  BY SinceIsFinite, RateLimiterAssumption DEF Matches, Times, RateLimiterAssumption
<1>2. 1 \in 1..Len(u) /\ a \in Moments /\ a \in Nat
  BY <1>1
<1>3. Len(u) <= Total(g, a)
  <2>1. Len(u) - 1 + 1 <= Total(g, a)
    BY <1>2 DEF Matches, Backed
  <2> QED
    BY <1>1, <2>1
<1>4. a + Window + MaxStall > T
  OBVIOUS
<1> HIDE DEF a
<1>5. Since(a) \in SUBSET R
  BY <1>1, <1>2, <1>4 DEF Since
<1>6. IsFiniteSet(R) /\ R \subseteq Moments
  BY <1>1, FS_Subset
<1> HIDE DEF R
<1>7. \A m \in R : g[m] \in Nat
  BY <1>1, <1>6
<1>8. SumOf(g, Since(a)) <= SumOf(g, R)
  <2>1. \A m \in Since(a) : g[m] \in Nat /\ g[m] <= g[m]
    BY <1>5, <1>7
  <2> QED
    BY <1>5, <1>6, <1>7, <2>1, SumMonotone
<1>9. SumOf(g, R) \in Nat /\ SumOf(g, Since(a)) \in Nat
  <2>1. SumOf(g, R) \in Nat
    BY <1>6, <1>7, SumFirst
  <2>2. a \in Int
    BY <1>2
  <2>3. Total(g, a) \in Nat
    BY <1>1, <2>2, TotalIsNat
  <2> QED
    BY <2>1, <2>3 DEF Total
<1>10. Len(u) <= SumOf(g, R)
  BY <1>1, <1>3, <1>8, <1>9 DEF Total
<1> QED
  BY <1>10 DEF Within, R

-----------------------------------------------------------------------------
(* The table and the requests that were let in, step by step.              *)

HitsOf(k) == IF hits[k] = None THEN <<>> ELSE hits[k]

HistoryInv ==
    /\ granted \in [Keys -> [Moments -> Nat]]
    /\ \A t \in Threads : ~Waiting(t) => key[t] = None
    /\ \A k \in Keys : Matches(HitsOf(k), granted[k], clock)

LEMMA TimesAreNotNone == \A h \in Times : h # None
<1> SUFFICES ASSUME NEW h \in Times PROVE h \in Seq(Nat)
  BY RateLimiterAssumption DEF RateLimiterAssumption
<1>1. Len(h) \in Nat /\ h \in [1..Len(h) -> Moments]
  BY DEF Times
<1>2. h \in [1..Len(h) -> Nat]
  BY <1>1, SinceIsFinite
<1> QED
  BY <1>1, <1>2

\* A caller found in the table, and one that is not.
LEMMA HitsOfTimes ==
    ASSUME hits \in Table, NEW k \in Keys
    PROVE  HitsOf(k) \in Times
BY DEF HitsOf, Table, Times

LEMMA HistoryInvInit == Init => HistoryInv
<1> SUFFICES ASSUME Init PROVE HistoryInv
  OBVIOUS
<1> DEFINE g == [m \in Moments |-> 0]
           h == <<>>
<1>1. /\ \A k \in Keys : HitsOf(k) = h
      /\ granted = [k \in Keys |-> g]
      /\ clock = 0
      /\ \A t \in Threads : key[t] = None
  BY DEF Init, HitsOf, Moments
<1>2. g \in [Moments -> Nat] /\ \A m \in Moments : g[m] = 0
  OBVIOUS
<1>3. Len(h) = 0
  OBVIOUS
<1> HIDE DEF g, h
<1>4. ASSUME NEW c \in Int PROVE LastOnes(h, Total(g, c), c - MaxStall)
  <2> DEFINE R == Since(c)
  <2>1. IsFiniteSet(R) /\ \A m \in R : g[m] = 0
    BY <1>2, SinceIsFinite
  <2> HIDE DEF R
  <2>2. SumOf(g, R) = 0
    BY <2>1, SumOfZeros
  <2>3. Total(g, c) = 0
    BY <2>2 DEF Total, R
  <2> QED
    BY <1>3, <2>3 DEF LastOnes
<1>5. Matches(h, g, 0)
  BY <1>2, <1>3, <1>4 DEF Matches, Backed, Remembered
<1> QED
  BY <1>1, <1>2, <1>5 DEF HistoryInv

\* What check finds, and what it leaves.
LEMMA LeftMatches ==
    ASSUME LimiterInv, HistoryInv, NEW t \in Threads, Waiting(t)
    PROVE  Matches(Left(t), granted[key[t]], clock)
<1> DEFINE k == key[t]
           h == HitsOf(k)
<1>1. /\ Current(t) /\ Cutoff(t) \in Int
      /\ hits \in Table /\ clock \in Nat
  BY LeftIsSound, SinceIsFinite DEF LimiterInv, LimiterTypes
<1>2. k \in Keys
  BY <1>1 DEF Current
<1>3. h \in Times /\ Matches(h, granted[k], clock)
  BY <1>1, <1>2, HitsOfTimes DEF HistoryInv
<1>4. Table1(t)[k] = h
  BY <1>1, <1>2, LookupIs DEF Table1, HitsOf
<1>5. Cutoff(t) <= clock - Window
  <2>1. now[t] \in Nat /\ Window \in Nat /\ now[t] <= clock
    BY <1>1, SinceIsFinite, RateLimiterAssumption DEF Current, RateLimiterAssumption
  <2> QED
    BY <1>1, <2>1 DEF Cutoff
<1> DEFINE u == Unexpired(h, Cutoff(t))
<1>6. u = Left(t)
  BY <1>4 DEF Left
<1> HIDE DEF h, k
<1>7. Matches(u, granted[k], clock)
  BY <1>1, <1>3, <1>5, MatchesFewer
<1> QED
  BY <1>6, <1>7 DEF k

\* The callers it is not about: some may have been dropped.
LEMMA OthersMatch ==
    ASSUME LimiterInv, HistoryInv, NEW t \in Threads, Allow(t) \/ Reject(t),
           NEW c \in Keys \ {key[t]}
    PROVE  Matches(HitsOf(c)', granted[c], clock)
<1>1. hits \in Table /\ clock \in Nat
  BY SinceIsFinite DEF LimiterInv, LimiterTypes
<1>2. Current(t) /\ Cutoff(t) \in Int
  BY LeftIsSound DEF Allow, Reject
<1>3. Cutoff(t) <= clock - Window
  <2>1. now[t] \in Nat /\ Window \in Nat /\ now[t] <= clock
    BY <1>2, SinceIsFinite, RateLimiterAssumption DEF Current, RateLimiterAssumption
  <2> QED
    BY <1>1, <2>1 DEF Cutoff
<1>4. key[t] \in Keys
  BY <1>2 DEF Current
<1>5. hits'[c] = Table1(t)[c]
  <2>1. Table1(t) \in Table
    BY <1>1, <1>2, <1>4, LookupIs DEF Table1
  <2> QED
    BY <1>4, <2>1 DEF Allow, Reject, Table1, Table
<1>6. \/ hits'[c] = hits[c]
      \/ hits'[c] = None /\ (hits[c] = <<>> \/ hits[c][Len(hits[c])] <= Cutoff(t))
  BY <1>1, <1>2, <1>4, <1>5, LookupIs DEF Table1
<1>7. HitsOf(c) \in Times /\ Matches(HitsOf(c), granted[c], clock)
  BY <1>1, HitsOfTimes DEF HistoryInv
<1>8. CASE hits'[c] = hits[c]
  BY <1>7, <1>8 DEF HitsOf
<1>9. CASE hits'[c] = None /\ hits[c] # None
  <2> DEFINE h == HitsOf(c)
             last == h[Len(h)]
  <2>1. h = hits[c] /\ HitsOf(c)' = <<>>
    BY <1>9 DEF HitsOf
  <2>2. h = <<>> \/ last <= Cutoff(t)
    BY <1>6, <1>9, <2>1
  <2> HIDE DEF h
  <2>3. h = <<>> \/ last <= clock - Window
    <3>1. CASE h = <<>>
      BY <3>1
    <3>2. CASE h # <<>> /\ last <= Cutoff(t)
      <4>1. Len(h) \in Nat /\ h \in [1..Len(h) -> Moments] /\ Len(h) # 0
        BY <1>7, <3>2 DEF Times, h
      <4>2. last \in Moments
        BY <4>1
      <4> HIDE DEF last
      <4>3. last \in Nat /\ Window \in Nat /\ last <= Cutoff(t)
        BY <3>2, <4>2, SinceIsFinite, RateLimiterAssumption DEF RateLimiterAssumption
      <4> QED
        BY <1>1, <1>2, <1>3, <4>3
    <3> QED
      BY <2>2, <3>1, <3>2
  <2>4. Matches(<<>>, granted[c], clock)
    BY <1>1, <1>7, <2>3, MatchesNone DEF h
  <2> QED
    BY <2>1, <2>4
<1> QED
  BY <1>6, <1>8, <1>9

LEMMA HistoryTick == LimiterInv /\ HistoryInv /\ Tick => HistoryInv'
<1> SUFFICES ASSUME LimiterInv, HistoryInv, Tick PROVE HistoryInv'
  OBVIOUS
<1>1. /\ hits \in Table /\ clock \in Nat /\ clock' = clock + 1
      /\ UNCHANGED <<hits, now, key>>
  BY SinceIsFinite DEF LimiterInv, LimiterTypes, Tick
<1>2. granted' = [k \in Keys |-> [m \in Moments |->
                    IF m + Window + MaxStall <= clock' THEN 0 ELSE granted[k][m]]]
  BY DEF Tick, Moments
<1>3. ASSUME NEW k \in Keys
      PROVE  Matches(HitsOf(k)', granted'[k], clock')
  <2> DEFINE h == HitsOf(k)
             g == granted[k]
             f == [m \in Moments |-> IF m + Window + MaxStall <= clock + 1 THEN 0 ELSE g[m]]
  <2>1. h \in Times /\ Matches(h, g, clock)
    BY <1>1, HitsOfTimes DEF HistoryInv
  <2>2. granted'[k] = f /\ HitsOf(k)' = h
    BY <1>1, <1>2 DEF HitsOf
  <2> HIDE DEF h, g
  <2>3. PICK x : x = f
    OBVIOUS
  <2>4. Matches(h, x, clock + 1)
    BY <1>1, <2>1, <2>3, MatchesLater
  <2> HIDE DEF f
  <2> QED
    BY <1>1, <2>2, <2>3, <2>4
<1>4. granted' \in [Keys -> [Moments -> Nat]]
  BY <1>2 DEF HistoryInv
<1> QED
  BY <1>1, <1>3, <1>4 DEF HistoryInv, Waiting

LEMMA HistoryReadClock ==
    ASSUME LimiterInv, HistoryInv, NEW t \in Threads, NEW k \in Keys, ReadClock(t, k)
    PROVE  HistoryInv'
<1>1. /\ now \in [Threads -> Moments \cup {None}] /\ key \in [Threads -> Keys \cup {None}]
      /\ clock # None
  BY SinceIsFinite, RateLimiterAssumption DEF LimiterInv, LimiterTypes, RateLimiterAssumption
<1>2. \A r \in Threads : (~Waiting(r) => key[r] = None)'
  BY <1>1 DEF HistoryInv, Waiting, ReadClock
<1>3. UNCHANGED <<hits, granted, clock>>
  BY DEF ReadClock
<1> QED
  BY <1>2, <1>3 DEF HistoryInv, HitsOf

\* What both outcomes of check have in common.
LEMMA HistoryServed ==
    ASSUME LimiterInv, HistoryInv, NEW t \in Threads, Allow(t) \/ Reject(t),
           granted' \in [Keys -> [Moments -> Nat]],
           \A c \in Keys \ {key[t]} : granted'[c] = granted[c],
           NEW h \in Times, Table1(t) \in Table,
           hits' = [Table1(t) EXCEPT ![key[t]] = h],
           Matches(h, granted'[key[t]], clock)
    PROVE  HistoryInv'
<1>1. /\ now \in [Threads -> Moments \cup {None}] /\ key \in [Threads -> Keys \cup {None}]
      /\ now' = [now EXCEPT ![t] = None] /\ key' = [key EXCEPT ![t] = None]
      /\ clock' = clock
  BY DEF LimiterInv, LimiterTypes, Allow, Reject
<1>2. \A r \in Threads : (~Waiting(r) => key[r] = None)'
  BY <1>1 DEF HistoryInv, Waiting
<1>3. ASSUME NEW k \in Keys PROVE Matches(HitsOf(k)', granted'[k], clock')
  <2>1. CASE k = key[t]
    <3>1. hits'[k] = h /\ h # None
      BY <2>1, TimesAreNotNone DEF Table
    <3>2. HitsOf(k)' = h
      BY <3>1 DEF HitsOf
    <3> QED
      BY <1>1, <2>1, <3>2
  <2>2. CASE k # key[t]
    <3>1. Matches(HitsOf(k)', granted[k], clock)
      BY <2>2, OthersMatch
    <3> QED
      BY <1>1, <2>2, <3>1
  <2> QED
    BY <2>1, <2>2
<1> QED
  BY <1>2, <1>3 DEF HistoryInv

LEMMA HistoryAllow ==
    ASSUME LimiterInv, HistoryInv, NEW t \in Threads, Allow(t)
    PROVE  HistoryInv'
<1> DEFINE k == key[t]
           u == Left(t)
           h == Append(u, now[t])
           g == granted[k]
           f == [g EXCEPT ![clock] = @ + 1]
<1>1. /\ Waiting(t) /\ Len(u) < MaxRequests
      /\ hits' = [Table1(t) EXCEPT ![k] = h]
      /\ granted' = [granted EXCEPT ![k][clock] = @ + 1]
  BY DEF Allow, Table1, Left
<1>2. /\ Current(t) /\ Cutoff(t) \in Int /\ u \in Times /\ Sound(u)
      /\ h \in Times /\ Matches(u, g, clock)
  BY <1>1, LeftIsSound, LeftMatches, AppendedIsSound
<1>3. /\ k \in Keys /\ now[t] \in Moments /\ now[t] <= clock
      /\ clock <= now[t] + MaxStall
  BY <1>2 DEF Current
<1>4. /\ clock \in Moments
      /\ granted \in [Keys -> [Moments -> Nat]]
      /\ g \in [Moments -> Nat]
  BY <1>3 DEF LimiterInv, LimiterTypes, HistoryInv
<1>5. Table1(t) \in Table
  BY <1>2, <1>3, LookupIs DEF Table1, LimiterInv, LimiterTypes
<1>6. /\ granted'[k] = f
      /\ \A c \in Keys \ {k} : granted'[c] = granted[c]
      /\ granted' \in [Keys -> [Moments -> Nat]]
  <2>1. granted' = [granted EXCEPT ![k] = f]
    BY <1>1, <1>3, <1>4
  <2>2. f \in [Moments -> Nat]
    <3>1. g[clock] + 1 \in Nat
      BY <1>4
    <3> QED
      BY <1>4, <3>1
  <2> HIDE DEF f, k
  <2> QED
    BY <1>3, <1>4, <2>1, <2>2
<1>7. \A i \in 1..Len(u) : u[i] <= clock
  BY <1>2 DEF Sound
<1> HIDE DEF u, g, k
<1>8. PICK x : x = f
  OBVIOUS
<1>9. Matches(h, x, clock)
  BY <1>2, <1>3, <1>4, <1>7, <1>8, MatchesMore
<1> HIDE DEF f, h
<1>10. Matches(h, granted'[k], clock)
  BY <1>6, <1>8, <1>9
<1> QED
  BY <1>1, <1>2, <1>5, <1>6, <1>10, HistoryServed DEF k

LEMMA HistoryReject ==
    ASSUME LimiterInv, HistoryInv, NEW t \in Threads, Reject(t)
    PROVE  HistoryInv'
<1> DEFINE u == Left(t)
<1>1. /\ Waiting(t)
      /\ hits' = [Table1(t) EXCEPT ![key[t]] = u]
      /\ granted' = granted
  BY DEF Reject, Table1, Left
<1>2. /\ Current(t) /\ Cutoff(t) \in Int /\ u \in Times
      /\ Matches(u, granted[key[t]], clock)
  BY <1>1, LeftIsSound, LeftMatches
<1>3. key[t] \in Keys
  BY <1>2 DEF Current
<1>4. Table1(t) \in Table
  BY <1>2, <1>3, LookupIs DEF Table1, LimiterInv, LimiterTypes
<1>5. granted' \in [Keys -> [Moments -> Nat]] /\ Matches(u, granted'[key[t]], clock)
  BY <1>1, <1>2 DEF HistoryInv
<1> HIDE DEF u
<1> QED
  BY <1>1, <1>2, <1>4, <1>5, HistoryServed

LEMMA HistoryInvStep == LimiterInv /\ HistoryInv /\ [Next]_vars => HistoryInv'
<1> SUFFICES ASSUME LimiterInv, HistoryInv, [Next]_vars PROVE HistoryInv'
  OBVIOUS
<1>1. CASE UNCHANGED vars
  BY <1>1 DEF vars, HistoryInv, HitsOf, Waiting
<1>2. CASE Next
  BY <1>2, HistoryTick, HistoryReadClock, HistoryAllow, HistoryReject DEF Next
<1> QED
  BY <1>1, <1>2

-----------------------------------------------------------------------------
(* The limiter does what a limiter is for.                                 *)

LEMMA RecentIsWithin ==
    ASSUME NEW k \in Keys, NEW span \in Int
    PROVE  Contract!Recent(k, span) = Within(granted[k], clock, span)
BY DEF Contract!Recent, Within, SumOf, Moments, MapThenSumSet, Contract!MapThenSumSet,
       MapThenFoldSet, Contract!MapThenFoldSet

LEMMA AllowAdmits ==
    ASSUME LimiterInv, HistoryInv, NEW t \in Threads, Allow(t)
    PROVE  Contract!Admit(t)
<1>1. /\ Waiting(t) /\ Len(Left(t)) < MaxRequests
      /\ granted' = [granted EXCEPT ![key[t]][clock] = @ + 1]
      /\ key' = [key EXCEPT ![t] = None]
      /\ UNCHANGED <<clock, answer>>
  BY DEF Allow, Table1, Left
<1>2. Current(t) /\ Left(t) \in Times /\ Matches(Left(t), granted[key[t]], clock)
  BY <1>1, LeftIsSound, LeftMatches
<1>3. key[t] \in Keys /\ key[t] # None /\ clock \in Nat
  BY <1>2, SinceIsFinite, RateLimiterAssumption
    DEF Current, LimiterInv, LimiterTypes, RateLimiterAssumption
<1> DEFINE n == Within(granted[key[t]], clock, Window - MaxStall)
<1>4. n <= Len(Left(t))
  BY <1>2, <1>3, NoneForgotten
<1>5. Contract!Recent(key[t], Window - MaxStall) = n
  BY <1>3, RecentIsWithin, RateLimiterAssumption DEF RateLimiterAssumption
<1>6. n \in Nat
  BY <1>2, <1>3, WithinIsNat DEF Matches
<1> HIDE DEF n
<1>7. n < MaxRequests
  BY <1>1, <1>2, <1>4, <1>6, RateLimiterAssumption DEF RateLimiterAssumption, Times
<1> QED
  BY <1>1, <1>3, <1>5, <1>7 DEF Contract!Admit

LEMMA RejectRefuses ==
    ASSUME LimiterInv, HistoryInv, NEW t \in Threads, Reject(t)
    PROVE  Contract!Refuse(t)
<1>1. /\ Waiting(t) /\ Len(Left(t)) >= MaxRequests
      /\ key' = [key EXCEPT ![t] = None]
      /\ UNCHANGED <<clock, granted>>
  BY DEF Reject, Table1, Left
<1>2. /\ Current(t) /\ Left(t) \in Times /\ Matches(Left(t), granted[key[t]], clock)
      /\ Len(Left(t)) > 0 => Left(t)[1] > Cutoff(t)
  BY <1>1, LeftIsSound, LeftMatches
<1>3. key[t] \in Keys /\ key[t] # None /\ clock \in Nat
  BY <1>2, SinceIsFinite, RateLimiterAssumption
    DEF Current, LimiterInv, LimiterTypes, RateLimiterAssumption
<1>4. Left(t)[1] \in Nat /\ Len(Left(t)) \in Nat /\ Len(Left(t)) > 0
  <2>1. Left(t)[1] \in Moments
    BY RejectAnswers
  <2>2. Len(Left(t)) \in Nat
    BY <1>2 DEF Times
  <2>3. Left(t)[1] \in Nat
    BY <2>1, SinceIsFinite
  <2>4. Len(Left(t)) > 0
    BY <1>1, <2>2, RateLimiterAssumption DEF RateLimiterAssumption
  <2> QED
    BY <2>2, <2>3, <2>4
<1>5. Left(t)[1] + Window + MaxStall > clock
  <2>1. Left(t)[1] > now[t] - Window
    BY <1>2, <1>4 DEF Cutoff
  <2>2. now[t] \in Nat /\ clock <= now[t] + MaxStall
    BY <1>2, SinceIsFinite DEF Current
  <2> QED
    BY <1>3, <1>4, <2>1, <2>2, RateLimiterAssumption DEF RateLimiterAssumption
<1> DEFINE n == Within(granted[key[t]], clock, Window + MaxStall)
<1>6. Len(Left(t)) <= n
  BY <1>2, <1>3, <1>4, <1>5, NoneInvented
<1>7. Contract!Recent(key[t], Window + MaxStall) = n
  BY <1>3, RecentIsWithin, RateLimiterAssumption DEF RateLimiterAssumption
<1>8. n \in Nat
  BY <1>2, <1>3, WithinIsNat DEF Matches
<1> HIDE DEF n
<1>9. n >= MaxRequests
  BY <1>1, <1>4, <1>6, <1>8, RateLimiterAssumption DEF RateLimiterAssumption
<1>10. {r \in Threads : answer[r] # None}' = {r \in Threads : answer[r] # None} \cup {t}
  <2>1. answer'[t] # None /\ \A r \in Threads \ {t} : answer'[r] = answer[r]
    BY RejectAnswers, RateLimiterAssumption DEF RateLimiterAssumption
  <2> QED
    BY <2>1
<1> QED
  BY <1>1, <1>3, <1>7, <1>9, <1>10 DEF Contract!Refuse

LEMMA ContractStep ==
    LimiterInv /\ HistoryInv /\ [Next]_vars => [Contract!Next]_(Contract!vars)
<1> SUFFICES ASSUME LimiterInv, HistoryInv, [Next]_vars
             PROVE  Contract!Next \/ UNCHANGED Contract!vars
  OBVIOUS
<1>1. CASE UNCHANGED vars
  BY <1>1 DEF vars, Contract!vars
<1>2. CASE Tick
  <2>1. \A k \in Keys, m \in 0..MaxTime :
          (IF m + Window + MaxStall <= clock' THEN 0 ELSE granted[k][m]) =
          (IF m + Window + MaxStall > clock' THEN granted[k][m] ELSE 0)
    BY <1>2, RateLimiterAssumption
      DEF LimiterInv, LimiterTypes, Moments, Tick, RateLimiterAssumption
  <2>2. Contract!Pass
    BY <1>2, <2>1 DEF Tick, Contract!Pass
  <2> QED
    BY <2>2 DEF Contract!Next
<1>3. ASSUME NEW t \in Threads, NEW k \in Keys, ReadClock(t, k)
      PROVE  Contract!Next
  <2>1. key[t] = None
    BY <1>3 DEF HistoryInv, ReadClock
  <2>2. {r \in Threads : answer[r] # None}' = {r \in Threads : answer[r] # None} \ {t}
    BY <1>3 DEF ReadClock, LimiterInv, LimiterTypes
  <2>3. Contract!Arrive(t, k)
    BY <1>3, <2>1, <2>2 DEF ReadClock, Contract!Arrive
  <2> QED
    BY <2>3 DEF Contract!Next
<1>4. ASSUME NEW t \in Threads, Allow(t) \/ Reject(t)
      PROVE  Contract!Next
  BY <1>4, AllowAdmits, RejectRefuses DEF Contract!Next
<1> QED
  BY <1>1, <1>2, <1>3, <1>4 DEF Next

\* What check does is what a limiter is for, for any number of threads and
\* callers: the times it keeps, appended out of order, expired from the front
\* and pruned by the last of them, count the requests that were let in to
\* within what a thread may have waited for the lock (RateLimiter.check).
THEOREM LimiterKeepsItsContract == Spec => KeepsItsContract
<1>1. Init => Contract!Init
  BY DEF Init, Contract!Init
<1>2. Spec => [](LimiterInv /\ HistoryInv)
  <2>1. Init => LimiterInv /\ HistoryInv
    BY LimiterInvInit, HistoryInvInit
  <2>2. LimiterInv /\ HistoryInv /\ [Next]_vars => (LimiterInv /\ HistoryInv)'
    BY LimiterInvStep, HistoryInvStep
  <2> QED
    BY <2>1, <2>2, PTL DEF Spec
<1> QED
  BY <1>1, <1>2, ContractStep, PTL DEF Spec, KeepsItsContract, Contract!Spec

-----------------------------------------------------------------------------
(* The gateway: the limiter's table is as sound there.                     *)

\* A step of the gateway is one of the limiter, or leaves it alone but for
\* the answer it has passed on.
LEMMA GatewaySteps ==
    ASSUME [GatewayNext]_gvars
    PROVE  \/ Tick
           \/ \E r \in Threads, k \in Keys : ReadClock(r, k)
           \/ \E r \in Threads : Allow(r) \/ Reject(r)
           \/ UNCHANGED vars
           \/ \E r \in Threads : /\ answer' = [answer EXCEPT ![r] = None]
                                 /\ UNCHANGED <<clock, hits, now, key, granted>>
<1>1. CASE UNCHANGED gvars
  BY <1>1 DEF gvars
<1>2. CASE TimePasses
  BY <1>2 DEF TimePasses
<1>3. ASSUME NEW r \in Threads, Enter(r)
      PROVE  (\E k \in Keys : ReadClock(r, k)) \/ UNCHANGED vars
  BY <1>3 DEF Enter, BeginCheck, Unauthorized, Unprocessable, Authorized,
              BeginHandler, BeginJob, Becomes
<1>4. ASSUME NEW r \in Threads, Proceed(r)
      PROVE  \/ Allow(r) \/ Reject(r) \/ UNCHANGED vars
             \/ /\ answer' = [answer EXCEPT ![r] = None]
                /\ UNCHANGED <<clock, hits, now, key, granted>>
  BY <1>4 DEF Proceed, Admitted, TooMany, EndHandler, Respond, EndJob, Becomes
<1>5. ASSUME NEW r \in Threads, NEW route \in Routes, Arrive(r, route)
      PROVE  UNCHANGED vars
  BY <1>5 DEF Arrive, Becomes
<1> QED
  BY <1>1, <1>2, <1>3, <1>4, <1>5 DEF GatewayNext

LEMMA GatewayLimiterStep == LimiterInv /\ [GatewayNext]_gvars => LimiterInv'
<1> SUFFICES ASSUME LimiterInv, [GatewayNext]_gvars PROVE LimiterInv'
  OBVIOUS
<1>1. CASE [Next]_vars
  BY <1>1, LimiterInvStep
<1>2. ASSUME NEW r \in Threads, answer' = [answer EXCEPT ![r] = None],
             UNCHANGED <<clock, hits, now, key, granted>>
      PROVE  LimiterInv'
  <2>1. answer \in [Threads -> 1..(Window + MaxStall) \cup {None}]
    BY DEF LimiterInv, LimiterTypes
  <2>2. LimiterTypes'
    BY <1>2, <2>1 DEF LimiterInv, LimiterTypes
  <2>3. ASSUME NEW t \in Threads, Waiting(t)'
        PROVE  Current(t)'
    <3>1. Current(t) /\ answer'[t] \in {answer[t], None}
      BY <1>2, <2>1, <2>3 DEF LimiterInv, Waiting
    <3> QED
      BY <1>2, <3>1 DEF Current
  <2>4. IsFiniteSet(Tracked)' /\ \A k \in Keys : (hits[k] # None => Sound(hits[k]))'
    BY <1>2 DEF LimiterInv, Tracked, Sound
  <2> QED
    BY <2>2, <2>3, <2>4 DEF LimiterInv
<1> QED
  BY <1>1, <1>2, GatewaySteps DEF Next

-----------------------------------------------------------------------------
(* The gateway: requests and their threads.                                *)

RequestInv ==
    /\ req \in [Threads -> Request]
    /\ \A r \in Threads : Waiting(r) => At(r, "limit")

LEMMA IdleIsRequest == Idle \in Request
BY DEF Idle, Request, Routes

LEMMA AnsweredIsRequest ==
    ASSUME RequestInv, NEW r \in Threads, NEW code \in Codes
    PROVE  /\ Answered(r, code) \in Request
           /\ [Answered(r, code) EXCEPT !.row = code = 202] \in Request
<1>1. req[r] \in Request
  BY DEF RequestInv
<1> DEFINE q == Answered(r, code)
<1>2. q = [step |-> "respond", route |-> "health", status |-> code, row |-> req[r].row]
  <2>1. q = [req[r] EXCEPT !.step = "respond", !.status = code, !.route = "health"]
    BY DEF Answered, Idle
  <2> HIDE DEF q
  <2> QED
    BY <1>1, <2>1 DEF Request
<1>3. req[r].row \in BOOLEAN
  BY <1>1 DEF Request
<1> HIDE DEF q
<1>4. q \in Request
  BY <1>2, <1>3 DEF Request, Routes
<1> DEFINE b == code = 202
           p == [q EXCEPT !.row = b]
<1>5. b \in BOOLEAN
  OBVIOUS
<1> HIDE DEF b
<1>6. p = [step |-> "respond", route |-> "health", status |-> code, row |-> b]
  BY <1>2
<1> HIDE DEF p
<1>7. p \in Request
  BY <1>5, <1>6 DEF Request, Routes
<1> QED
  BY <1>4, <1>7 DEF p, q, b

LEMMA MovedIsRequest ==
    ASSUME RequestInv, NEW r \in Threads,
           NEW step \in {"limit", "auth", "handle", "handling", "respond", "queued", "job"}
    PROVE  [req[r] EXCEPT !.step = step] \in Request
<1>1. req[r] \in Request
  BY DEF RequestInv
<1> QED
  BY <1>1 DEF Request

\* A request moves on while no other does.
LEMMA RequestMoves ==
    ASSUME RequestInv, NEW r \in Threads, NEW q \in Request,
           req' = [req EXCEPT ![r] = q],
           now' \in {now, [now EXCEPT ![r] = None]}, now'[r] = None,
           now \in [Threads -> Moments \cup {None}]
    PROVE  RequestInv'
<1>1. req \in [Threads -> Request]
  BY DEF RequestInv
<1>2. ASSUME NEW t \in Threads
      PROVE  Waiting(t)' => At(t, "limit")'
  <2>1. CASE t = r
    BY <2>1 DEF Waiting
  <2>2. CASE t # r
    <3>1. req'[t] = req[t] /\ now'[t] = now[t]
      BY <1>1, <2>2
    <3> QED
      BY <3>1 DEF RequestInv, Waiting, At
  <2> QED
    BY <2>1, <2>2
<1> QED
  BY <1>1, <1>2 DEF RequestInv

\* A request outside the limiter moves on.
LEMMA Handled ==
    ASSUME RequestInv, LimiterInv, NEW r \in Threads, NEW q \in Request,
           Becomes(r, q), ~At(r, "limit")
    PROVE  RequestInv'
<1>1. now'[r] = None /\ now' = now
  BY DEF Becomes, vars, RequestInv, Waiting
<1> QED
  BY <1>1, RequestMoves DEF Becomes, LimiterInv, LimiterTypes

LEMMA RequestInvStep == RequestInv /\ LimiterInv /\ [GatewayNext]_gvars => RequestInv'
<1> SUFFICES ASSUME RequestInv, LimiterInv, [GatewayNext]_gvars PROVE RequestInv'
  OBVIOUS
<1>1. now \in [Threads -> Moments \cup {None}] /\ req \in [Threads -> Request]
  BY DEF LimiterInv, LimiterTypes, RequestInv
<1>2. 401 \in Codes /\ 422 \in Codes /\ 429 \in Codes
  <2> DEFINE rest == UNION {Answers[route] : route \in Routes}
  <2>1. Codes = {401, 422, 429} \cup rest
    BY DEF Codes
  <2> HIDE DEF rest
  <2> QED
    BY <2>1
<1>3. CASE TimePasses \/ UNCHANGED gvars
  <2>1. UNCHANGED <<req, now>>
    BY <1>3 DEF TimePasses, Tick, gvars, vars
  <2> QED
    BY <2>1 DEF RequestInv, Waiting, At
<1>4. ASSUME NEW r \in Threads, NEW route \in Routes, Arrive(r, route)
      PROVE  RequestInv'
  <2> DEFINE q == [Idle EXCEPT !.step = IF route \in Metered THEN "limit" ELSE "handle",
                               !.route = route]
  <2>1. q \in Request
    BY DEF Idle, Request
  <2>2. Becomes(r, q) /\ ~At(r, "limit")
    BY <1>4 DEF Arrive, At
  <2> HIDE DEF q
  <2> QED
    BY <2>1, <2>2, Handled
<1>5. ASSUME NEW r \in Threads, NEW k \in Keys, BeginCheck(r, k)
      PROVE  RequestInv'
  <2>1. now' = [now EXCEPT ![r] = clock] /\ UNCHANGED req /\ At(r, "limit")
    BY <1>5 DEF BeginCheck, ReadClock
  <2> QED
    BY <1>1, <2>1 DEF RequestInv, Waiting, At
<1>6. ASSUME NEW r \in Threads, Unauthorized(r) \/ Unprocessable(r) \/ Authorized(r)
      PROVE  RequestInv'
  <2>1. ~At(r, "limit")
    BY <1>6 DEF Unauthorized, Unprocessable, Authorized, At
  <2>2. PICK q : /\ Becomes(r, q)
                 /\ q \in {Answered(r, 401), Answered(r, 422),
                           [req[r] EXCEPT !.step = "handle"]}
    BY <1>6 DEF Unauthorized, Unprocessable, Authorized
  <2>3. q \in Request
    <3>1. ASSUME NEW code \in Codes PROVE Answered(r, code) \in Request
      BY AnsweredIsRequest
    <3>2. [req[r] EXCEPT !.step = "handle"] \in Request
      BY MovedIsRequest
    <3>3. CASE q = Answered(r, 401)
      BY <1>2, <3>1, <3>3, Zenon
    <3>4. CASE q = Answered(r, 422)
      BY <1>2, <3>1, <3>4, Zenon
    <3>5. CASE q = [req[r] EXCEPT !.step = "handle"]
      BY <3>2, <3>5, Zenon
    <3> QED
      BY <2>2, <3>3, <3>4, <3>5
  <2> QED
    BY <2>1, <2>2, <2>3, Handled
<1>7. ASSUME NEW r \in Threads, BeginHandler(r) \/ BeginJob(r)
      PROVE  RequestInv'
  <2>1. PICK step \in {"handling", "job"} :
          Becomes(r, [req[r] EXCEPT !.step = step]) /\ ~At(r, "limit")
    BY <1>7 DEF BeginHandler, BeginJob, At
  <2>2. [req[r] EXCEPT !.step = step] \in Request
    BY MovedIsRequest
  <2> QED
    BY <2>1, <2>2, Handled
<1>8. ASSUME NEW r \in Threads, Admitted(r)
      PROVE  RequestInv'
  <2>1. now' = [now EXCEPT ![r] = None]
    BY <1>8 DEF Admitted, Allow
  <2>2. PICK step \in {"auth", "handle"} : req' = [req EXCEPT ![r].step = step]
    BY <1>8 DEF Admitted
  <2> DEFINE q == [req[r] EXCEPT !.step = step]
  <2>3. q \in Request
    BY MovedIsRequest
  <2>4. req' = [req EXCEPT ![r] = q] /\ now'[r] = None
    BY <1>1, <2>1, <2>2
  <2> HIDE DEF q
  <2> QED
    BY <1>1, <2>1, <2>3, <2>4, RequestMoves
<1>9. ASSUME NEW r \in Threads, TooMany(r)
      PROVE  RequestInv'
  <2>1. /\ now' = [now EXCEPT ![r] = None] /\ now'[r] = None
        /\ req' = [req EXCEPT ![r] = Answered(r, 429)]
    BY <1>1, <1>9 DEF TooMany, Reject
  <2>2. Answered(r, 429) \in Request
    <3>1. ASSUME NEW code \in Codes PROVE Answered(r, code) \in Request
      BY AnsweredIsRequest
    <3> QED
      BY <1>2, <3>1, Zenon
  <2> QED
    BY <1>1, <2>1, <2>2, RequestMoves
<1>10. ASSUME NEW r \in Threads, EndHandler(r)
       PROVE  RequestInv'
  <2>1. PICK code \in Answers[req[r].route] :
          Becomes(r, [Answered(r, code) EXCEPT !.row = code = 202])
    BY <1>10 DEF EndHandler
  <2>2. req[r].route \in Routes
    BY <1>1 DEF Request
  <2>3. code \in Codes
    BY <2>1, <2>2 DEF Codes
  <2> DEFINE q == [Answered(r, code) EXCEPT !.row = code = 202]
  <2>4. q \in Request
    BY <2>3, AnsweredIsRequest
  <2>5. Becomes(r, q) /\ ~At(r, "limit")
    BY <1>10, <2>1 DEF EndHandler, At
  <2> HIDE DEF q
  <2> QED
    BY <2>4, <2>5, Handled
<1>11. ASSUME NEW r \in Threads, Respond(r)
       PROVE  RequestInv'
  <2>1. req' = [req EXCEPT ![r] = Sent(r)] /\ now' = now /\ now'[r] = None
    BY <1>11 DEF Respond, RequestInv, Waiting, At
  <2>2. Sent(r) \in Request
    <3>1. [req[r] EXCEPT !.step = "queued"] \in Request
      BY MovedIsRequest
    <3> QED
      BY <3>1, IdleIsRequest DEF Sent
  <2> QED
    BY <1>1, <2>1, <2>2, RequestMoves
<1>12. ASSUME NEW r \in Threads, EndJob(r)
       PROVE  RequestInv'
  <2>1. Becomes(r, Idle) /\ ~At(r, "limit")
    BY <1>12 DEF EndJob, At
  <2> QED
    BY <2>1, IdleIsRequest, Handled
<1> QED
  BY <1>3, <1>4, <1>5, <1>6, <1>7, <1>8, <1>9, <1>10, <1>11, <1>12
    DEF GatewayNext, Enter, Proceed

\* The pool lends a thread only where there is one.
PoolInv == IsFiniteSet(Busy) /\ Cardinality(Busy) <= PoolSize

LEMMA PoolInvStep ==
    PoolInv /\ RequestInv /\ LimiterInv /\ [GatewayNext]_gvars => PoolInv'
<1> SUFFICES ASSUME PoolInv, RequestInv, LimiterInv, [GatewayNext]_gvars PROVE PoolInv'
  OBVIOUS
<1>1. now \in [Threads -> Moments \cup {None}] /\ req \in [Threads -> Request]
  BY DEF LimiterInv, LimiterTypes, RequestInv
<1>2. SUFFICES \/ Busy' \subseteq Busy
               \/ FreeThread /\ \E r \in Threads : Busy' \subseteq Busy \cup {r}
  <2>1. ASSUME Busy' \subseteq Busy PROVE PoolInv'
    <3>1. IsFiniteSet(Busy') /\ Cardinality(Busy') <= Cardinality(Busy)
      BY <2>1, FS_Subset DEF PoolInv
    <3>2. Cardinality(Busy) \in Nat /\ Cardinality(Busy') \in Nat /\ PoolSize \in Nat
      BY <3>1, FS_CardinalityType, GatewayAssumption DEF PoolInv, GatewayAssumption
    <3> QED
      BY <3>1, <3>2 DEF PoolInv
  <2>2. ASSUME FreeThread, NEW r \in Threads, Busy' \subseteq Busy \cup {r} PROVE PoolInv'
    <3> DEFINE more == Busy \cup {r}
    <3>1. IsFiniteSet(more) /\ Cardinality(more) \in {Cardinality(Busy), Cardinality(Busy) + 1}
      BY FS_AddElement DEF PoolInv
    <3>2. IsFiniteSet(Busy') /\ Cardinality(Busy') <= Cardinality(more)
      BY <2>2, <3>1, FS_Subset
    <3>3. /\ Cardinality(Busy) \in Nat /\ Cardinality(Busy') \in Nat
          /\ PoolSize \in Nat /\ Cardinality(Busy) < PoolSize
      BY <2>2, <3>2, FS_CardinalityType, GatewayAssumption
        DEF PoolInv, GatewayAssumption, FreeThread
    <3> HIDE DEF more
    <3> QED
      BY <3>1, <3>2, <3>3 DEF PoolInv
  <2> QED
    BY <1>2, <2>1, <2>2
<1>3. CASE TimePasses \/ UNCHANGED gvars
  BY <1>3 DEF TimePasses, Tick, gvars, vars, Busy, Waiting
<1>4. ASSUME NEW r \in Threads, NEW route \in Routes, Arrive(r, route)
      PROVE  Busy' \subseteq Busy
  <2>1. /\ req'[r].step \in {"limit", "handle"} /\ now' = now
        /\ \A t \in Threads \ {r} : req'[t] = req[t]
    BY <1>1, <1>4 DEF Arrive, Becomes, vars, Idle
  <2> QED
    BY <2>1 DEF Busy, Waiting
<1>5. ASSUME NEW r \in Threads, Enter(r)
      PROVE  \/ Busy' \subseteq Busy
             \/ FreeThread /\ \E t \in Threads : Busy' \subseteq Busy \cup {t}
  <2>1. /\ FreeThread
        /\ \A t \in Threads \ {r} : req'[t] = req[t] /\ now'[t] = now[t]
    BY <1>1, <1>5 DEF Enter, BeginCheck, ReadClock, Unauthorized, Unprocessable,
                     Authorized, BeginHandler, BeginJob, Becomes, vars
  <2>2. Busy' \subseteq Busy \cup {r}
    BY <2>1 DEF Busy, Waiting
  <2> QED
    BY <2>1, <2>2
<1>6. ASSUME NEW r \in Threads, Proceed(r)
      PROVE  Busy' \subseteq Busy
  <2>1. /\ \A t \in Threads \ {r} : req'[t] = req[t] /\ now'[t] = now[t]
        /\ now'[r] = None \/ now'[r] = now[r]
    BY <1>1, <1>6 DEF Proceed, Admitted, Allow, TooMany, Reject, EndHandler, Respond,
                     EndJob, Becomes, vars
  <2>2. req'[r].step \notin {"handling", "job"}
    <3>1. ASSUME NEW code PROVE Answered(r, code).step = "respond"
      BY <1>1 DEF Answered, Request
    <3>2. CASE Admitted(r)
      BY <1>1, <3>2 DEF Admitted, Request
    <3>3. CASE TooMany(r)
      BY <1>1, <3>1, <3>3 DEF TooMany
    <3>4. CASE EndHandler(r)
      <4>1. PICK code \in Answers[req[r].route] :
              req' = [req EXCEPT ![r] = [Answered(r, code) EXCEPT !.row = code = 202]]
        BY <3>4 DEF EndHandler, Becomes
      <4>2. [Answered(r, code) EXCEPT !.row = code = 202].step = Answered(r, code).step
        BY <1>1 DEF Answered, Request
      <4> QED
        BY <1>1, <3>1, <4>1, <4>2
    <3>5. CASE Respond(r)
      <4>1. Sent(r).step \in {"queued", "free"}
        BY <1>1 DEF Sent, Idle, Request
      <4> QED
        BY <1>1, <3>5, <4>1 DEF Respond
    <3>6. CASE EndJob(r)
      BY <1>1, <3>6 DEF EndJob, Becomes, Idle
    <3> QED
      BY <1>6, <3>2, <3>3, <3>4, <3>5, <3>6 DEF Proceed
  <2> QED
    BY <2>1, <2>2 DEF Busy, Waiting
<1> QED
  BY <1>3, <1>4, <1>5, <1>6 DEF GatewayNext

-----------------------------------------------------------------------------
(* The gateway: what a caller is promised.                                 *)

\* The seconds are rounded up.
LEMMA RetryAfterCovers ==
    ASSUME NEW v \in Nat
    PROVE  /\ TicksPerSecond * RetryAfter(v) \in Nat
           /\ TicksPerSecond * RetryAfter(v) >= v
<1> DEFINE d == TicksPerSecond
           c == (v + d - 1) \div d
           a == RetryAfter(v)
           p == d * c
<1>1. d \in Nat \ {0} /\ v + d - 1 \in Nat
  BY GatewayAssumption DEF GatewayAssumption
<1>2. c \in Nat /\ p \in Nat /\ p > v - 1
  <2> DEFINE n == v + d - 1
             m == n % d
  <2>1. n \in Nat
    BY <1>1
  <2> HIDE DEF d, n
  <2>2. n \div d \in Nat /\ m \in 0..(d - 1) /\ n = d * (n \div d) + m
    BY <1>1, <2>1
  <2>3. c = n \div d
    BY DEF n
  <2> HIDE DEF c, m
  <2>4. p \in Nat /\ n = p + m
    BY <1>1, <2>2, <2>3
  <2> HIDE DEF p
  <2> QED
    BY <1>1, <2>2, <2>3, <2>4 DEF n
<1>3. a = IF c > 1 THEN c ELSE 1
  BY DEF RetryAfter, AtLeastOne, Ceil
<1> HIDE DEF c, a, d
<1>4. a \in Nat /\ a >= c
  BY <1>2, <1>3
<1> DEFINE q == d * a
<1>5. q \in Nat /\ q >= p
  BY <1>1, <1>2, <1>4
<1> HIDE DEF q, p
<1>6. q >= v
  BY <1>2, <1>5
<1> QED
  BY <1>5, <1>6 DEF q, a, d

\* A caller with requests left that has used up its allowance still has them
\* all: none has expired.
LEMMA LeftIsAll ==
    ASSUME LimiterInv, NEW t \in Threads, Waiting(t), Len(Left(t)) >= MaxRequests
    PROVE  /\ hits[key[t]] # None
           /\ Len(hits[key[t]]) >= MaxRequests
           /\ Left(t)[1] = hits[key[t]][1]
<1> DEFINE k == key[t]
           h == Table1(t)[k]
           u == Unexpired(h, Cutoff(t))
<1>1. Current(t) /\ Cutoff(t) \in Int /\ hits \in Table
  BY LeftIsSound DEF LimiterInv, LimiterTypes
<1>2. k \in Keys
  BY <1>1 DEF Current
<1>3. /\ h \in Times
      /\ hits[k] # None => h = hits[k]
      /\ hits[k] = None => h = <<>>
  BY <1>1, <1>2, LookupIs DEF Table1
<1>4. u = Left(t)
  BY DEF Left
<1> HIDE DEF h, k
<1>5. PICK d \in 0..Len(h) : /\ Len(u) = Len(h) - d
                             /\ \A i \in 1..(Len(h) - d) : u[i] = h[i + d]
  <2>1. PICK c \in Int : c = Cutoff(t)
    BY <1>1
  <2>2. u = Unexpired(h, c)
    BY <2>1
  <2> HIDE DEF u
  <2>3. \E d \in 0..Len(h) :
          /\ Len(Unexpired(h, c)) = Len(h) - d
          /\ \A i \in 1..(Len(h) - d) : Unexpired(h, c)[i] = h[i + d]
    BY <1>3, UnexpiredIsSuffix
  <2> QED
    BY <2>2, <2>3
<1> HIDE DEF u
<1>6. Len(h) \in Nat /\ MaxRequests \in Nat \ {0} /\ Len(u) >= MaxRequests
  BY <1>3, <1>4, RateLimiterAssumption DEF Times, RateLimiterAssumption
<1>7. Len(h) >= MaxRequests /\ h # <<>>
  <2>1. Len(h) >= MaxRequests
    BY <1>5, <1>6
  <2>2. ASSUME h = <<>> PROVE FALSE
    BY <1>6, <2>1, <2>2
  <2> QED
    BY <2>1, <2>2
<1>8. hits[k] # None /\ h = hits[k]
  BY <1>3, <1>7
<1>9. Len(h) <= MaxRequests
  BY <1>2, <1>8 DEF LimiterInv, Sound
<1>10. d = 0 /\ 1 \in 1..(Len(h) - d)
  BY <1>5, <1>6, <1>9
<1>11. u[1] = h[1 + d] /\ 1 + d = 1
  BY <1>5, <1>10
<1> QED
  BY <1>4, <1>7, <1>8, <1>11 DEF k

\* By the time promised to it, a caller's oldest request has expired.
Kept(k) ==
    promise[k] # None /\ hits[k] # None /\ Len(hits[k]) >= MaxRequests =>
        hits[k][1] + Window <= promise[k]

PromiseInv ==
    /\ promise \in [Keys -> Nat \cup {None}]
    /\ \A k \in Keys : Kept(k)

\* What check does to the callers it is not about.
LEMMA OthersAsBefore ==
    ASSUME LimiterInv, NEW t \in Threads, Allow(t) \/ Reject(t)
    PROVE  /\ Waiting(t) /\ key[t] \in Keys
           /\ \A c \in Keys \ {key[t]} : hits'[c] \in {hits[c], None}
           /\ Reject(t) => hits'[key[t]] = Left(t)
<1>1. hits \in Table
  BY DEF LimiterInv, LimiterTypes
<1>2. Waiting(t)
  BY DEF Allow, Reject
<1>3. key[t] \in Keys /\ Cutoff(t) \in Int
  BY <1>2, LeftIsSound DEF Current
<1>4. /\ Table1(t) \in Table
      /\ \A c \in Keys \ {key[t]} : Table1(t)[c] \in {hits[c], None}
  BY <1>1, <1>3, LookupIs DEF Table1
<1>5. PICK h : /\ hits' = [Table1(t) EXCEPT ![key[t]] = h]
               /\ Reject(t) => h = Left(t)
  <2>1. CASE Allow(t)
    <3>1. Len(Left(t)) \in Nat /\ MaxRequests \in Nat
      BY <1>2, LeftIsSound, RateLimiterAssumption DEF Times, RateLimiterAssumption
    <3>2. ~Reject(t)
      BY <2>1, <3>1 DEF Allow, Reject, Left, Table1
    <3> QED
      BY <2>1, <3>2 DEF Allow, Table1
  <2>2. CASE Reject(t)
    BY <2>2 DEF Reject, Table1, Left
  <2> QED
    BY <2>1, <2>2
<1> QED
  BY <1>2, <1>3, <1>4, <1>5 DEF Table

LEMMA PromiseInvStep ==
    PromiseInv /\ LimiterInv /\ [GatewayNext]_gvars => PromiseInv'
<1> SUFFICES ASSUME PromiseInv, LimiterInv, [GatewayNext]_gvars PROVE PromiseInv'
  OBVIOUS
<1>1. CASE UNCHANGED <<hits, promise>>
  BY <1>1 DEF PromiseInv, Kept
<1>2. ASSUME NEW t \in Threads, Admitted(t)
      PROVE  PromiseInv'
  <2>1. Allow(t) /\ promise' = [promise EXCEPT ![key[t]] = None]
    BY <1>2 DEF Admitted
  <2>2. key[t] \in Keys /\ \A c \in Keys \ {key[t]} : hits'[c] \in {hits[c], None}
    BY <2>1, OthersAsBefore
  <2>3. promise' \in [Keys -> Nat \cup {None}] /\ promise'[key[t]] = None
    BY <2>1, <2>2 DEF PromiseInv
  <2>4. \A c \in Keys \ {key[t]} : promise'[c] = promise[c]
    BY <2>1, <2>2 DEF PromiseInv
  <2> QED
    BY <2>2, <2>3, <2>4 DEF PromiseInv, Kept
<1>3. ASSUME NEW t \in Threads, TooMany(t)
      PROVE  PromiseInv'
  <2> DEFINE k == key[t]
             wait == TicksPerSecond * RetryAfter(answer'[t])
             p == IF promise[k] = None THEN clock + wait ELSE promise[k]
  <2>1. Reject(t) /\ promise' = [promise EXCEPT ![k] = p]
    BY <1>3 DEF TooMany
  <2>2. /\ Waiting(t) /\ k \in Keys
        /\ \A c \in Keys \ {k} : hits'[c] \in {hits[c], None}
        /\ hits'[k] = Left(t)
    BY <2>1, OthersAsBefore
  <2>3. /\ Len(Left(t)) >= MaxRequests
        /\ Left(t)[1] \in Moments
        /\ answer'[t] = Left(t)[1] + Window - now[t]
        /\ answer'[t] \in 1..(Window + MaxStall)
    BY <2>1, RejectAnswers
  <2>4. /\ clock \in Nat /\ now[t] \in Nat /\ now[t] <= clock
        /\ Window \in Nat /\ Left(t)[1] \in Nat /\ answer'[t] \in Nat
    <3>1. clock \in Moments /\ now[t] \in Moments /\ now[t] <= clock
      BY <2>2, LeftIsSound DEF LimiterInv, LimiterTypes, Current
    <3>2. Moments \subseteq Nat /\ Window \in Nat /\ MaxStall \in Nat
      BY RateLimiterAssumption DEF Moments, RateLimiterAssumption
    <3>3. answer'[t] \in Nat
      BY <2>3, <3>2
    <3> QED
      BY <2>3, <3>1, <3>2, <3>3
  <2> HIDE DEF k
  <2>5. wait \in Nat /\ wait >= answer'[t]
    BY <2>4, RetryAfterCovers
  <2> HIDE DEF wait
  <2>6. p \in Nat /\ Left(t)[1] + Window <= p
    <3>1. CASE promise[k] = None
      <4>1. clock + wait \in Nat /\ Left(t)[1] + Window <= clock + wait
        BY <2>3, <2>4, <2>5
      <4> QED
        BY <3>1, <4>1
    <3>2. CASE promise[k] # None
      <4>1. /\ hits[k] # None /\ Len(hits[k]) >= MaxRequests
            /\ Left(t)[1] = hits[k][1]
        BY <2>2, <2>3, LeftIsAll DEF k
      <4>2. Kept(k) /\ promise[k] \in Nat
        BY <2>2, <3>2 DEF PromiseInv
      <4> QED
        BY <3>2, <4>1, <4>2 DEF Kept
    <3> QED
      BY <3>1, <3>2
  <2> HIDE DEF p
  <2>7. promise' \in [Keys -> Nat \cup {None}] /\ promise'[k] = p
    BY <2>1, <2>2, <2>6 DEF PromiseInv
  <2>8. \A c \in Keys \ {k} : promise'[c] = promise[c]
    BY <2>1, <2>2 DEF PromiseInv
  <2>9. ASSUME NEW c \in Keys PROVE Kept(c)'
    <3>1. CASE c = k
      BY <2>2, <2>6, <2>7, <3>1 DEF Kept
    <3>2. CASE c # k
      BY <2>2, <2>8, <2>9, <3>2 DEF PromiseInv, Kept
    <3> QED
      BY <3>1, <3>2
  <2> QED
    BY <2>7, <2>9 DEF PromiseInv
<1>4. ASSUME NEW r \in Threads, Enter(r)
      PROVE  UNCHANGED <<hits, promise>>
  BY <1>4 DEF Enter, BeginCheck, ReadClock, Unauthorized, Unprocessable, Authorized,
              BeginHandler, BeginJob, Becomes, vars
<1>5. ASSUME NEW r \in Threads, Proceed(r)
      PROVE  Admitted(r) \/ TooMany(r) \/ UNCHANGED <<hits, promise>>
  BY <1>5 DEF Proceed, EndHandler, Respond, EndJob, Becomes, vars
<1>6. ASSUME NEW r \in Threads, NEW route \in Routes, Arrive(r, route)
      PROVE  UNCHANGED <<hits, promise>>
  BY <1>6 DEF Arrive, Becomes, vars
<1>7. CASE TimePasses \/ UNCHANGED gvars
  BY <1>1, <1>7 DEF TimePasses, Tick, gvars, vars
<1> QED
  BY <1>1, <1>2, <1>3, <1>4, <1>5, <1>6, <1>7 DEF GatewayNext

-----------------------------------------------------------------------------
(* The gateway: the theorems.                                              *)

GatewayInv == LimiterInv /\ RequestInv /\ PoolInv /\ PromiseInv

LEMMA GatewayInvInit == GatewayInit => GatewayInv
<1> SUFFICES ASSUME GatewayInit PROVE GatewayInv
  OBVIOUS
<1>1. LimiterInv /\ \A t \in Threads : now[t] = None
  BY LimiterInvInit DEF GatewayInit, Init
<1>2. RequestInv
  BY <1>1, IdleIsRequest DEF GatewayInit, RequestInv, Idle, Waiting
<1>3. Busy = {}
  BY <1>1 DEF GatewayInit, Busy, Waiting, Idle
<1>4. PoolInv
  BY <1>3, FS_EmptySet, GatewayAssumption DEF PoolInv, GatewayAssumption
<1>5. PromiseInv
  BY DEF GatewayInit, PromiseInv, Kept
<1> QED
  BY <1>1, <1>2, <1>4, <1>5 DEF GatewayInv

\* All of it is invariant.
LEMMA GatewayInvariant == GatewaySpec => []GatewayInv
<1>1. GatewayInv /\ [GatewayNext]_gvars => GatewayInv'
  BY GatewayLimiterStep, RequestInvStep, PoolInvStep, PromiseInvStep DEF GatewayInv
<1> QED
  BY <1>1, GatewayInvInit, PTL DEF GatewaySpec

\* The types of the gateway; and the pool never lends more threads than it
\* has, however many requests there are.
THEOREM GatewayTypeCorrect == GatewaySpec => []GatewayTypeOK
<1>1. LimiterInv => TypeOK
  BY DEF LimiterInv, LimiterTypes, TypeOK, Table, Times, Moments, Tracked, Sound
<1>2. GatewayInv => GatewayTypeOK
  BY <1>1 DEF GatewayInv, GatewayTypeOK, RequestInv, PoolInv, PromiseInv
<1> QED
  BY <1>2, GatewayInvariant, PTL

LEMMA RetryAfterStep ==
    ASSUME GatewayInv, NEW r \in Threads, TooMany(r), promise[key[r]] # None
    PROVE  now[r] < promise[key[r]]
<1>1. LimiterInv /\ Reject(r) /\ Waiting(r)
  BY DEF GatewayInv, TooMany, Reject
<1>2. Len(Left(r)) >= MaxRequests /\ Left(r)[1] \in Moments
  BY <1>1, RejectAnswers
<1>3. /\ Current(r) /\ Left(r) \in Times
      /\ Len(Left(r)) > 0 => Left(r)[1] > Cutoff(r)
  BY <1>1, LeftIsSound
<1>4. Left(r)[1] > now[r] - Window
  BY <1>2, <1>3, RateLimiterAssumption DEF Times, Cutoff, RateLimiterAssumption
<1>5. /\ hits[key[r]] # None /\ Len(hits[key[r]]) >= MaxRequests
      /\ Left(r)[1] = hits[key[r]][1]
  BY <1>1, <1>2, LeftIsAll
<1>6. key[r] \in Keys /\ Kept(key[r]) /\ promise[key[r]] \in Nat
  BY <1>3 DEF GatewayInv, PromiseInv, Current
<1>7. Left(r)[1] + Window <= promise[key[r]]
  BY <1>5, <1>6 DEF Kept
<1>8. Left(r)[1] \in Nat /\ now[r] \in Nat /\ Window \in Nat
  BY <1>2, <1>3, RateLimiterAssumption DEF Moments, Current, RateLimiterAssumption
<1> QED
  BY <1>4, <1>6, <1>7, <1>8

\* A caller that stays away for the seconds it was told is let in when it is
\* back, whatever the other callers do in the meantime, however the waits
\* for the lock fall out and however many seconds there are to the tick
\* (enforce_rate_limit).
THEOREM RetryAfterSuffices == GatewaySpec => RetryAfterIsEnough
<1>1. GatewayInv =>
        \A r \in Threads : TooMany(r) =>
          promise[key[r]] = None \/ now[r] < promise[key[r]]
  BY RetryAfterStep
<1>2. GatewayInv /\ [GatewayNext]_gvars =>
        [\A r \in Threads : TooMany(r) =>
          promise[key[r]] = None \/ now[r] < promise[key[r]]]_gvars
  BY <1>1
<1> QED
  BY <1>2, GatewayInvariant, PTL DEF GatewaySpec, RetryAfterIsEnough
=============================================================================
