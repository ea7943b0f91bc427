-------------------------- MODULE ProcessLimitsProofs --------------------------
(***************************************************************************)
(* Theorems about ProcessLimits, for any keys, sources and nonces, any     *)
(* limits and windows: what each limiter decides from a table that is      *)
(* pruned late is what the traffic of the last window calls for, and what  *)
(* is at work or remembered keeps its caps.  There is an invariant for     *)
(* each table, which says how its entries follow from the events that      *)
(* really happened.                                                        *)
(***************************************************************************)
EXTENDS ProcessLimits, FiniteSetTheorems, TLAPS

-----------------------------------------------------------------------------
(* Timed events.                                                            *)

\* The events of now have the numbers from 1 on.
Numbered(S) == \A e \in S : e[1] = 0 => e[2] <= Cardinality({d \in S : d[1] = 0})

Events(S, age) == S \in SUBSET EventsUpTo(age) /\ IsFiniteSet(S) /\ Numbered(S)

\* What EventsUpTo is made of.
LEMMA EventIsPair ==
    ASSUME NEW age \in Nat, NEW e \in EventsUpTo(age)
    PROVE  /\ e = <<e[1], e[2]>> /\ e[1] \in Nat /\ e[2] \in Nat
           /\ e[1] <= age /\ e[2] > 0
  BY DEF EventsUpTo

\* Events within a span are some of the events.
LEMMA WithinEvents ==
    ASSUME NEW age \in Nat, NEW S, Events(S, age), NEW span
    PROVE  /\ Within(S, span) \in SUBSET EventsUpTo(age)
           /\ IsFiniteSet(Within(S, span)) /\ Cardinality(Within(S, span)) \in Nat
           /\ span \in Nat \ {0} => Events(Within(S, span), age)
  <1>1. Within(S, span) \in SUBSET S
    BY DEF Within
  <1>2. IsFiniteSet(Within(S, span)) /\ Cardinality(Within(S, span)) \in Nat
    BY <1>1, FS_Subset, FS_CardinalityType DEF Events
  <1>3. ASSUME span \in Nat \ {0} PROVE Numbered(Within(S, span))
    <2>1. {d \in Within(S, span) : d[1] = 0} = {d \in S : d[1] = 0}
      BY <1>3 DEF Within
    <2> QED
      BY <1>1, <2>1 DEF Events, Numbered
  <1> QED
    BY <1>1, <1>2, <1>3 DEF Events

\* A longer span has no fewer events.
LEMMA LongerSpan ==
    ASSUME NEW age \in Nat, NEW S, Events(S, age), NEW a \in Nat, NEW b \in Nat, a <= b
    PROVE  Cardinality(Within(S, a)) <= Cardinality(Within(S, b))
  <1>1. Within(S, a) \in SUBSET Within(S, b)
    <2>1. \A e \in S : e[1] \in Nat
      BY EventIsPair DEF Events
    <2> QED
      BY <2>1 DEF Within
  <1> QED
    BY <1>1, WithinEvents, FS_Subset

\* The event of now is a new one, in every span.
LEMMA NowEvents ==
    ASSUME NEW age \in Nat, NEW S, Events(S, age)
    PROVE  /\ Events(WithNow(S), age)
           /\ \E e \in WithNow(S) : e[1] = 0
           /\ \A e \in WithNow(S) : e \in S \/ e[1] = 0
           /\ S \subseteq WithNow(S)
           /\ \A span \in Nat \ {0} :
                 Cardinality(Within(WithNow(S), span)) = Cardinality(Within(S, span)) + 1
  <1> DEFINE N == {e \in S : e[1] = 0}
             k == Cardinality(N)
             new == <<0, k + 1>>
  <1>1. IsFiniteSet(N) /\ k \in Nat
    BY FS_Subset, FS_CardinalityType DEF Events
  <1>2. new \notin S
    <2>1. new[1] = 0 /\ new[2] = k + 1 /\ ~ (k + 1 <= k)
      BY <1>1
    <2> HIDE DEF new
    <2> QED
      BY <2>1 DEF Events, Numbered
  <1>3. WithNow(S) = S \union {new}
    BY DEF WithNow
  <1>4. new \in EventsUpTo(age) /\ new[1] = 0
    BY <1>1 DEF EventsUpTo
  <1>5. IsFiniteSet(WithNow(S))
    <2> HIDE DEF new
    <2> QED
      BY <1>3, FS_AddElement DEF Events
  <1>6. Numbered(WithNow(S))
    <2>1. {e \in WithNow(S) : e[1] = 0} = N \union {new}
      BY <1>3
    <2>2. Cardinality({e \in WithNow(S) : e[1] = 0}) = k + 1
      <3> HIDE DEF N, new
      <3>1. new \notin N
        BY <1>2 DEF N
      <3> QED
        BY <1>1, <2>1, <3>1, FS_AddElement DEF k
    <2>3. ASSUME NEW e \in WithNow(S), e[1] = 0 PROVE e[2] <= k + 1
      <3>1. CASE e = new
        BY <3>1, <1>1
      <3>2. CASE e \in S
        <4>1. e[2] <= k /\ e[2] \in Nat
          BY <2>3, <3>2, EventIsPair DEF Events, Numbered
        <4> HIDE DEF k
        <4> QED
          BY <4>1, <1>1
      <3> QED
        BY <1>3, <3>1, <3>2
    <2> QED
      BY <2>2, <2>3 DEF Numbered
  <1>7. ASSUME NEW span \in Nat \ {0}
        PROVE  Cardinality(Within(WithNow(S), span)) = Cardinality(Within(S, span)) + 1
    <2>1. Within(WithNow(S), span) = Within(S, span) \union {new}
      BY <1>3, <1>4 DEF Within
    <2>2. new \notin Within(S, span)
      BY <1>2 DEF Within
    <2> HIDE DEF new
    <2> QED
      BY <2>1, <2>2, WithinEvents, FS_AddElement
  <1> QED
    BY <1>3, <1>4, <1>5, <1>6, <1>7 DEF Events

\* A unit of time later there are as many events in a span that is longer by one.
LEMMA OlderEvents ==
    ASSUME NEW age \in Nat, NEW S, Events(S, age)
    PROVE  /\ Events(Older(S), age + 1)
           /\ \A e \in Older(S) : <<e[1] - 1, e[2]>> \in S /\ e[1] > 0
           /\ \A e \in S : <<e[1] + 1, e[2]>> \in Older(S)
           /\ \A span \in Nat :
                 Cardinality(Within(Older(S), span + 1)) = Cardinality(Within(S, span))
  <1>1. \A e \in S : /\ e = <<e[1], e[2]>> /\ e[1] \in Nat /\ e[2] \in Nat
                     /\ e[1] <= age /\ e[2] > 0
    BY EventIsPair DEF Events
  <1>2. /\ \A e \in Older(S) : <<e[1] - 1, e[2]>> \in S /\ e[1] > 0
        /\ \A e \in S : <<e[1] + 1, e[2]>> \in Older(S)
    <2>1. ASSUME NEW e \in Older(S) PROVE <<e[1] - 1, e[2]>> \in S /\ e[1] > 0
      <3>1. PICK d \in S : e = <<d[1] + 1, d[2]>>
        BY DEF Older
      <3>2. e[1] - 1 = d[1] /\ e[2] = d[2] /\ e[1] > 0
        BY <3>1, <1>1
      <3> QED
        BY <3>2, <1>1
    <2> QED
      BY <2>1 DEF Older
  <1>3. Older(S) \in SUBSET EventsUpTo(age + 1)
    BY <1>1 DEF Older, EventsUpTo
  <1>4. ASSUME NEW T \in SUBSET S
        PROVE  /\ IsFiniteSet(T) /\ IsFiniteSet(Older(T))
               /\ Cardinality(Older(T)) = Cardinality(T)
    <2> DEFINE f == [e \in T |-> <<e[1] + 1, e[2]>>]
    <2>1. f \in [T -> Older(T)]
      BY DEF Older
    <2>2. ASSUME NEW d \in T, NEW e \in T, f[d] = f[e] PROVE d = e
      <3>1. d[1] + 1 = e[1] + 1 /\ d[2] = e[2]
        BY <2>2
      <3> QED
        BY <3>1, <1>1
    <2>3. \A e \in Older(T) : \E d \in T : f[d] = e
      BY DEF Older
    <2> HIDE DEF f
    <2>4. f \in Bijection(T, Older(T))
      BY <2>1, <2>2, <2>3 DEF Bijection, Injection, Surjection, IsInjective
    <2>5. IsFiniteSet(T)
      BY FS_Subset DEF Events
    <2> QED
      BY <2>4, <2>5, FS_Bijection DEF ExistsBijection
  <1>5. Numbered(Older(S))
    <2>1. \A e \in Older(S) : e[1] # 0
      <3>1. ASSUME NEW e \in Older(S), e[1] = 0 PROVE FALSE
        <4>1. 0 > 0
          BY <3>1, <1>2
        <4> QED
          BY <4>1
      <3> QED
        BY <3>1
    <2> QED
      BY <2>1 DEF Numbered
  <1>6. ASSUME NEW span \in Nat
        PROVE  Cardinality(Within(Older(S), span + 1)) = Cardinality(Within(S, span))
    <2>1. Within(Older(S), span + 1) = Older(Within(S, span))
      BY <1>1 DEF Within, Older
    <2> QED
      BY <1>4, <2>1 DEF Within
  <1> QED
    BY <1>2, <1>3, <1>4, <1>5, <1>6 DEF Events

\* The same when what becomes as old as the bound is left out.
LEMMA AgedEvents ==
    ASSUME NEW age \in Nat, NEW S, Events(S, age), NEW T, T = Within(Older(S), age)
    PROVE  /\ Events(T, age)
           /\ \A e \in T : /\ e[1] \in Nat /\ e[1] > 0 /\ e[1] < age
                           /\ e = <<e[1], e[2]>> /\ <<e[1] - 1, e[2]>> \in S
           /\ \A e \in S : e[1] \in Nat /\ (e[1] + 1 < age => <<e[1] + 1, e[2]>> \in T)
           /\ \A span \in Nat : span + 1 <= age =>
                 Cardinality(Within(T, span + 1)) = Cardinality(Within(S, span))
  <1> DEFINE O == Older(S)
  <1>1. /\ Events(O, age + 1)
        /\ \A e \in O : <<e[1] - 1, e[2]>> \in S /\ e[1] > 0
        /\ \A e \in S : <<e[1] + 1, e[2]>> \in O
        /\ \A span \in Nat : Cardinality(Within(O, span + 1)) = Cardinality(Within(S, span))
    BY OlderEvents
  <1>2. \A e \in S : e[1] \in Nat
    BY EventIsPair DEF Events
  <1>3. age + 1 \in Nat
    OBVIOUS
  <1>4. \A e \in O : e[1] \in Nat /\ e[2] \in Nat /\ e = <<e[1], e[2]>>
    BY <1>1, <1>3, EventIsPair DEF Events
  <1> HIDE DEF O
  <1>5. T = Within(O, age)
    BY DEF O
  <1>6. \A e \in T : e \in O /\ e[1] \in Nat /\ e[1] < age
    BY <1>4, <1>5 DEF Within
  <1>7. Events(T, age)
    <2>1. Events(T, age + 1)
      <3>1. age = 0 => T = {}
        BY <1>6
      <3>2. CASE age = 0
        BY <3>1, <3>2, FS_EmptySet DEF Events, Numbered
      <3>3. CASE age # 0
        BY <3>3, <1>1, <1>3, <1>5, WithinEvents
      <3> QED
        BY <3>2, <3>3
    <2>2. ASSUME NEW e \in T PROVE e \in EventsUpTo(age)
      <3>1. e \in EventsUpTo(age + 1)
        BY <2>1 DEF Events
      <3>2. e[1] \in 0..age
        BY <1>6
      <3> QED
        BY <3>1, <3>2 DEF EventsUpTo
    <2> QED
      BY <2>1, <2>2 DEF Events
  <1>8. \A e \in S : e[1] + 1 < age => <<e[1] + 1, e[2]>> \in T
    BY <1>1, <1>5 DEF Within
  <1>9. ASSUME NEW span \in Nat, span + 1 <= age
        PROVE  Cardinality(Within(T, span + 1)) = Cardinality(Within(S, span))
    <2>1. Within(T, span + 1) = Within(O, span + 1)
      BY <1>4, <1>5, <1>9 DEF Within
    <2> QED
      BY <1>1, <2>1
  <1>10. \A e \in T : /\ e[1] \in Nat /\ e[1] > 0 /\ e[1] < age
                      /\ e = <<e[1], e[2]>> /\ <<e[1] - 1, e[2]>> \in S
    BY <1>1, <1>4, <1>6, Zenon
  <1> QED
    BY <1>2, <1>7, <1>8, <1>9, <1>10

-----------------------------------------------------------------------------
(* Nonces.                                                                  *)

\* The entry of a nonce tells when it was last consumed, unless that is a lifetime ago,
\* and an expired entry stays until a cleanup that is due within an interval.
NonceInv(n) ==
    /\ Events(consumed[n], NonceLifetime + NonceCleanupInterval)
    /\ \A e \in consumed[n] : e[1] < NonceLifetime + NonceCleanupInterval
    /\ nonces[n] \notin {Unused, 0} =>
         /\ \A e \in consumed[n] : e[1] + nonces[n] >= NonceLifetime
         /\ \E e \in consumed[n] : e[1] + nonces[n] <= NonceLifetime
    /\ nonces[n] \in {Unused, 0} => \A e \in consumed[n] : e[1] >= NonceLifetime
    /\ nonces[n] = 0 /\ nextNonceCleanup > 0 =>
         \E e \in consumed[n] : e[1] + nextNonceCleanup <= NonceLifetime + NonceCleanupInterval
    /\ \A c, d \in consumed[n] :
          c # d => c[1] >= d[1] + NonceLifetime \/ d[1] >= c[1] + NonceLifetime

NoncesInv ==
    /\ NonceTypeOK
    /\ \A n \in Nonces : NonceInv(n)
    /\ IsFiniteSet({n \in Nonces : consumed[n] # {}})

\* What the constants are.
LEMMA NonceConstants ==
    /\ NonceLifetime \in Nat /\ NonceLifetime > 0
    /\ MaxNonces \in Nat /\ MaxNonces > 0
    /\ NonceCleanupInterval \in Nat /\ NonceCleanupInterval > 0
    /\ NonceLifetime + NonceCleanupInterval \in Nat
    /\ Unused \notin Nat /\ Unused \notin 0..NonceLifetime
  BY NonceConstantsOk

\* A nonce that is stored after the cleanup was consumed not long ago.
LEMMA StoredWasConsumed ==
    ASSUME NoncesInv, NEW n \in Nonces, n \in Stored(Kept)
    PROVE  consumed[n] # {}
  <1>1. NonceInv(n) /\ nonces[n] \in 0..NonceLifetime \union {Unused}
        /\ nextNonceCleanup \in 0..NonceCleanupInterval
    BY DEF NoncesInv, NonceTypeOK
  <1>2. nonces[n] # Unused /\ (nonces[n] = 0 => nextNonceCleanup # 0)
    BY DEF Stored, Kept
  <1>3. nonces[n] = 0 => nextNonceCleanup > 0
    BY <1>1, <1>2, NonceConstants
  <1> QED
    BY <1>1, <1>2, <1>3 DEF NonceInv

\* What the cleanup makes of the table: nothing that the invariant depends on.
LEMMA KeptNonces ==
    ASSUME NoncesInv, NEW n \in Nonces
    PROVE  /\ Kept \in [Nonces -> 0..NonceLifetime \union {Unused}]
           /\ Kept[n] = nonces[n] \/ (Kept[n] = Unused /\ nonces[n] = 0)
           /\ Kept[n] = 0 => nextNonceCleanup # 0
  BY NonceConstants DEF NoncesInv, NonceTypeOK, Kept

\* Consuming a nonce.
LEMMA ConsumeKeeps ==
    ASSUME NoncesInv, NEW n \in Nonces, Consume(n)
    PROVE  NoncesInv'
  <1> USE NonceConstants
  <1>t. /\ nonces \in [Nonces -> 0..NonceLifetime \union {Unused}]
        /\ nextNonceCleanup \in 0..NonceCleanupInterval
        /\ consumed \in [Nonces -> SUBSET EventsUpTo(NonceLifetime + NonceCleanupInterval)]
    BY DEF NoncesInv, NonceTypeOK
  <1>k. /\ Kept \in [Nonces -> 0..NonceLifetime \union {Unused}]
        /\ \A o \in Nonces : /\ Kept[o] = nonces[o] \/ (Kept[o] = Unused /\ nonces[o] = 0)
                             /\ Kept[o] = 0 => nextNonceCleanup # 0
    BY KeptNonces
  <1>1. /\ nonces' = [Kept EXCEPT ![n] = NonceLifetime]
        /\ consumed' = [consumed EXCEPT ![n] = WithNow(consumed[n])]
        /\ nextNonceCleanup' =
             IF nextNonceCleanup = 0 THEN NonceCleanupInterval ELSE nextNonceCleanup
        /\ Kept[n] = Unused
    BY <1>t DEF Consume, Visited, Fresh, Stored
  <1>2. nextNonceCleanup' \in 0..NonceCleanupInterval /\ nextNonceCleanup' > 0
        /\ (nextNonceCleanup # 0 => nextNonceCleanup' = nextNonceCleanup)
    BY <1>1, <1>t
  <1>3. \A o \in Nonces : Events(consumed[o], NonceLifetime + NonceCleanupInterval)
    BY DEF NoncesInv, NonceInv
  <1>4. /\ Events(WithNow(consumed[n]), NonceLifetime + NonceCleanupInterval)
        /\ \E e \in WithNow(consumed[n]) : e[1] = 0
        /\ \A e \in WithNow(consumed[n]) : e \in consumed[n] \/ e[1] = 0
    BY <1>3, NowEvents
  <1>5. NonceTypeOK'
    <2>1. consumed' \in [Nonces -> SUBSET EventsUpTo(NonceLifetime + NonceCleanupInterval)]
      BY <1>1, <1>4, <1>t DEF Events
    <2>2. nonces' \in [Nonces -> 0..NonceLifetime \union {Unused}]
      BY <1>1, <1>k
    <2> QED
      BY <2>1, <2>2, <1>2 DEF NonceTypeOK
  <1>6. ASSUME NEW o \in Nonces, o # n PROVE NonceInv(o)'
    <2>1. consumed'[o] = consumed[o] /\ nonces'[o] = Kept[o]
      BY <1>1, <1>6, <1>t, <1>k
    <2>2. NonceInv(o)
      BY DEF NoncesInv
    <2>3. nonces'[o] = nonces[o] \/ (nonces'[o] = Unused /\ nonces[o] = 0)
      BY <2>1, <1>k
    <2>4. nonces'[o] = 0 => nextNonceCleanup' = nextNonceCleanup
      BY <2>1, <1>k, <1>2
    <2> QED
      BY <2>1, <2>2, <2>3, <2>4 DEF NonceInv
  <1>7. NonceInv(n)'
    <2>1. consumed'[n] = WithNow(consumed[n]) /\ nonces'[n] = NonceLifetime
      BY <1>1, <1>t, <1>k
    <2>2. \A e \in consumed[n] : e[1] >= NonceLifetime /\ e[1] \in Nat
                                 /\ e[1] < NonceLifetime + NonceCleanupInterval
      BY <1>1, <1>k, <1>3, EventIsPair DEF NoncesInv, NonceInv, Events
    <2>3. \A e \in consumed'[n] : e[1] \in Nat /\ (e \in consumed[n] \/ e[1] = 0)
      BY <2>1, <2>2, <1>4
    <2>4. \A c, d \in consumed[n] :
             c # d => c[1] >= d[1] + NonceLifetime \/ d[1] >= c[1] + NonceLifetime
      BY DEF NoncesInv, NonceInv
    <2>5. ASSUME NEW c \in consumed'[n], NEW d \in consumed'[n], c[1] = 0, d[1] = 0
          PROVE  c = d
      <3>1. c \notin consumed[n] /\ d \notin consumed[n]
        BY <2>2, <2>5
      <3> QED
        BY <3>1, <2>1 DEF WithNow
    <2>6. \A c, d \in consumed'[n] :
             c # d => c[1] >= d[1] + NonceLifetime \/ d[1] >= c[1] + NonceLifetime
      BY <2>2, <2>3, <2>4, <2>5
    <2>7. \A e \in consumed'[n] : e[1] < NonceLifetime + NonceCleanupInterval
      BY <2>2, <2>3
    <2>8. nonces'[n] # 0 /\ nonces'[n] # Unused
      BY <2>1
    <2>9. \A e \in consumed'[n] : e[1] + nonces'[n] >= NonceLifetime
      BY <2>1, <2>3
    <2>10. \E e \in consumed'[n] : e[1] + nonces'[n] <= NonceLifetime
      BY <2>1, <1>4
    <2> QED
      BY <2>1, <2>6, <2>7, <2>8, <2>9, <2>10, <1>4 DEF NonceInv
  <1>8. IsFiniteSet({o \in Nonces : consumed'[o] # {}})
    <2> DEFINE U == {o \in Nonces : consumed[o] # {}}
    <2>1. {o \in Nonces : consumed'[o] # {}} \in SUBSET (U \union {n})
      BY <1>1, <1>t
    <2>2. IsFiniteSet(U \union {n})
      BY FS_AddElement DEF NoncesInv
    <2> QED
      BY <2>1, <2>2, FS_Subset
  <1> QED
    BY <1>5, <1>6, <1>7, <1>8 DEF NoncesInv

\* Refusing a nonce.
LEMMA RejectKeeps ==
    ASSUME NoncesInv, NEW n \in Nonces, Reject(n)
    PROVE  NoncesInv'
  <1> USE NonceConstants
  <1>t. /\ nonces \in [Nonces -> 0..NonceLifetime \union {Unused}]
        /\ nextNonceCleanup \in 0..NonceCleanupInterval
        /\ UNCHANGED consumed /\ NonceTypeOK
    BY DEF NoncesInv, NonceTypeOK, Reject
  <1>k. /\ Kept \in [Nonces -> 0..NonceLifetime \union {Unused}]
        /\ \A o \in Nonces : /\ Kept[o] = nonces[o] \/ (Kept[o] = Unused /\ nonces[o] = 0)
                             /\ Kept[o] = 0 => nextNonceCleanup # 0
    BY KeptNonces
  <1>1. /\ nonces' = Kept
        /\ nextNonceCleanup' =
             IF nextNonceCleanup = 0 THEN NonceCleanupInterval ELSE nextNonceCleanup
    BY DEF Reject, Visited
  <1>2. nextNonceCleanup' \in 0..NonceCleanupInterval /\ nextNonceCleanup' > 0
        /\ (nextNonceCleanup # 0 => nextNonceCleanup' = nextNonceCleanup)
    BY <1>1, <1>t
  <1>3. NonceTypeOK'
    BY <1>1, <1>2, <1>k, <1>t DEF NonceTypeOK
  <1>4. ASSUME NEW o \in Nonces PROVE NonceInv(o)'
    <2>1. NonceInv(o)
      BY DEF NoncesInv
    <2>2. nonces'[o] = nonces[o] \/ (nonces'[o] = Unused /\ nonces[o] = 0)
      BY <1>1, <1>k
    <2>3. nonces'[o] = 0 => nextNonceCleanup' = nextNonceCleanup
      BY <1>1, <1>k, <1>2
    <2> QED
      BY <2>1, <2>2, <2>3, <1>t DEF NonceInv
  <1> QED
    BY <1>3, <1>4, <1>t DEF NoncesInv

\* A unit of time passes.
LEMMA NonceTickKeeps ==
    ASSUME NoncesInv, NonceTick
    PROVE  NoncesInv'
  <1> USE NonceConstants
  <1> DEFINE far == NonceLifetime + NonceCleanupInterval
  <1>t. /\ nonces \in [Nonces -> 0..NonceLifetime \union {Unused}]
        /\ nextNonceCleanup \in 0..NonceCleanupInterval
        /\ consumed \in [Nonces -> SUBSET EventsUpTo(far)]
    BY DEF NoncesInv, NonceTypeOK
  <1>1. nextNonceCleanup' = IF nextNonceCleanup = 0 THEN 0 ELSE nextNonceCleanup - 1
    BY DEF NonceTick
  <1>2. \A n \in Nonces :
           /\ consumed'[n] = Within(Older(consumed[n]), far)
           /\ nonces'[n] = IF nonces[n] \in {Unused, 0} THEN nonces[n] ELSE nonces[n] - 1
    BY DEF NonceTick
  <1>3. ASSUME NEW n \in Nonces
        PROVE  NonceInv(n)' /\ nonces'[n] \in 0..NonceLifetime \union {Unused}
    <2> DEFINE S == consumed[n]
               T == consumed'[n]
    <2>1. NonceInv(n) /\ Events(S, far)
      BY DEF NoncesInv, NonceInv
    <2>2. T = Within(Older(S), far)
      BY <1>2
    <2>3. \A e \in S : e[1] \in Nat
      BY <2>1, EventIsPair DEF Events
    <2>a. ASSUME NEW e \in T
          PROVE  e[1] \in Nat /\ e[1] > 0 /\ e[1] < far
      BY <2>1, <2>2, AgedEvents
    <2>6. \A e \in T : /\ e[1] < far /\ e[1] \in Nat /\ e[1] > 0
                       /\ e = <<e[1], e[2]>> /\ <<e[1] - 1, e[2]>> \in S
      BY <2>1, <2>2, AgedEvents
    <2>7. \A e \in S : e[1] + 1 < far => <<e[1] + 1, e[2]>> \in T
      BY <2>1, <2>2, AgedEvents
    <2>8. Events(T, far)
      BY <2>1, <2>2, AgedEvents
    <2>9. \A c, d \in T :
             c # d => c[1] >= d[1] + NonceLifetime \/ d[1] >= c[1] + NonceLifetime
      <3> SUFFICES ASSUME NEW c \in T, NEW d \in T, c # d
                   PROVE  c[1] >= d[1] + NonceLifetime \/ d[1] >= c[1] + NonceLifetime
        OBVIOUS
      <3> DEFINE x == <<c[1] - 1, c[2]>>
                 y == <<d[1] - 1, d[2]>>
      <3>1. x \in S /\ y \in S /\ x[1] = c[1] - 1 /\ y[1] = d[1] - 1
        BY <2>6
      <3>2. x # y
        <4>1. c = <<c[1], c[2]>> /\ d = <<d[1], d[2]>> /\ c[1] \in Nat /\ d[1] \in Nat
          BY <2>6
        <4> QED
          BY <4>1
      <3>3. x[1] >= y[1] + NonceLifetime \/ y[1] >= x[1] + NonceLifetime
        <4> HIDE DEF x, y
        <4> QED
          BY <2>1, <3>1, <3>2 DEF NonceInv
      <3> QED
        BY <3>1, <3>3, <2>6
    <2>10. CASE nonces[n] \in {Unused, 0}
      <3>1. nonces'[n] = nonces[n]
        BY <2>10, <1>2
      <3>2. \A e \in T : e[1] >= NonceLifetime
        <4>1. \A e \in S : e[1] >= NonceLifetime
          BY <2>1, <2>10 DEF NonceInv
        <4>2. ASSUME NEW e \in T PROVE e[1] >= NonceLifetime
          <5>1. e[1] - 1 >= NonceLifetime
            BY <4>1, <2>6
          <5>2. e[1] \in Nat
            BY <2>a
          <5> QED
            BY <5>1, <5>2
        <4> QED
          BY <4>2
      <3>3. ASSUME nonces'[n] = 0, nextNonceCleanup' > 0
            PROVE  \E e \in T : e[1] + nextNonceCleanup' <= far
        <4>1. nextNonceCleanup > 0 /\ nextNonceCleanup' = nextNonceCleanup - 1
          BY <3>3, <1>1, <1>t
        <4>2. PICK e \in S : e[1] + nextNonceCleanup <= far
          BY <2>1, <3>1, <3>3, <4>1 DEF NonceInv
        <4>3. e[1] \in Nat /\ nextNonceCleanup' \in Nat /\ e[1] + 1 + nextNonceCleanup' <= far
          BY <4>1, <4>2, <2>3, <1>t
        <4>4. <<e[1] + 1, e[2]>> \in T
          BY <4>3, <3>3, <2>7
        <4> QED
          BY <4>3, <4>4
      <3> QED
        BY <2>8, <2>9, <2>10, <2>6, <3>1, <3>2, <3>3, <1>t DEF NonceInv
    <2>11. CASE nonces[n] \notin {Unused, 0}
      <3>1. nonces[n] \in 1..NonceLifetime /\ nonces'[n] = nonces[n] - 1
        BY <2>11, <1>2, <1>t
      <3>2. \A e \in T : e[1] + nonces'[n] >= NonceLifetime
        <4>1. ASSUME NEW e \in T PROVE e[1] + nonces'[n] >= NonceLifetime
          <5>1. e[1] - 1 + nonces[n] >= NonceLifetime
            BY <2>1, <2>6, <2>11 DEF NonceInv
          <5>2. e[1] \in Nat
            BY <2>a
          <5> QED
            BY <5>1, <5>2, <3>1
        <4> QED
          BY <4>1
      <3>3. PICK e \in S : e[1] + nonces[n] <= NonceLifetime
        BY <2>1, <2>11 DEF NonceInv
      <3>4. /\ <<e[1] + 1, e[2]>> \in T
            /\ e[1] \in Nat /\ e[1] + 1 + nonces'[n] <= NonceLifetime
        BY <3>1, <3>3, <2>3, <2>7
      <3>5. \E d \in T : d[1] + nonces'[n] <= NonceLifetime
        BY <3>4
      <3>6. nonces'[n] = 0 => \A d \in T : d[1] >= NonceLifetime
        <4>1. ASSUME nonces'[n] = 0, NEW d \in T PROVE d[1] >= NonceLifetime
          <5>1. d[1] + nonces'[n] >= NonceLifetime /\ d[1] \in Nat
            BY <3>2, <2>a
          <5> QED
            BY <5>1, <4>1
        <4> QED
          BY <4>1
      <3>7. nonces'[n] = 0 => \E d \in T : d[1] + nextNonceCleanup' <= far
        <4>1. nextNonceCleanup' \in 0..NonceCleanupInterval
          BY <1>1, <1>t
        <4>2. PICK d \in T : d[1] + nonces'[n] <= NonceLifetime
          BY <3>5
        <4>3. d[1] \in Nat
          BY <2>a
        <4>4. nonces'[n] = 0 => d[1] + nextNonceCleanup' <= far
          BY <4>1, <4>2, <4>3
        <4> QED
          BY <4>4
      <3>8. nonces'[n] # Unused /\ nonces'[n] \in 0..NonceLifetime
        BY <3>1
      <3> QED
        BY <2>8, <2>9, <2>6, <3>2, <3>5, <3>6, <3>7, <3>8 DEF NonceInv
    <2> QED
      BY <2>10, <2>11
  <1>4. NonceTypeOK'
    <2>1. nextNonceCleanup' \in 0..NonceCleanupInterval
      BY <1>1, <1>t
    <2>2. nonces' \in [Nonces -> 0..NonceLifetime \union {Unused}]
      BY <1>3 DEF NonceTick
    <2>3. consumed' \in [Nonces -> SUBSET EventsUpTo(far)]
      <3>1. \A n \in Nonces : consumed'[n] \in SUBSET EventsUpTo(far)
        BY <1>3 DEF NonceInv, Events
      <3> QED
        BY <3>1 DEF NonceTick
    <2> QED
      BY <2>1, <2>2, <2>3 DEF NonceTypeOK
  <1>5. IsFiniteSet({n \in Nonces : consumed'[n] # {}})
    <2>1. \A n \in Nonces : consumed'[n] # {} => consumed[n] # {}
      BY <1>2 DEF Within, Older
    <2>2. {n \in Nonces : consumed'[n] # {}} \in SUBSET {n \in Nonces : consumed[n] # {}}
      BY <2>1
    <2> QED
      BY <2>2, FS_Subset DEF NoncesInv
  <1> QED
    BY <1>3, <1>4, <1>5 DEF NoncesInv

\* The decisions about nonces follow from the invariant.
LEMMA NoncesAreDecided == NoncesInv => NoncesDecidedByHistory
  <1> SUFFICES ASSUME NoncesInv, NEW n \in Nonces
               PROVE  /\ \A c, d \in consumed[n] :
                           c # d => c[1] >= d[1] + NonceLifetime \/ d[1] >= c[1] + NonceLifetime
                      /\ ~Fresh(n) =>
                           \/ consumed[n] # {}
                           \/ Cardinality({o \in Nonces : consumed[o] # {}}) >= MaxNonces
    BY DEF NoncesDecidedByHistory
  <1> USE NonceConstants
  <1> DEFINE U == {o \in Nonces : consumed[o] # {}}
  <1>1. \A c, d \in consumed[n] :
           c # d => c[1] >= d[1] + NonceLifetime \/ d[1] >= c[1] + NonceLifetime
    BY DEF NoncesInv, NonceInv
  <1>2. ASSUME ~Fresh(n), n \notin Stored(Kept) PROVE Cardinality(U) >= MaxNonces
    <2>1. Stored(Kept) \in SUBSET U /\ IsFiniteSet(U)
      BY StoredWasConsumed DEF Stored, NoncesInv
    <2>2. /\ IsFiniteSet(Stored(Kept)) /\ Cardinality(Stored(Kept)) <= Cardinality(U)
          /\ Cardinality(Stored(Kept)) \in Nat /\ Cardinality(U) \in Nat
      BY <2>1, FS_Subset, FS_CardinalityType
    <2>3. Cardinality(Stored(Kept)) >= MaxNonces
      BY <1>2, <2>2 DEF Fresh
    <2> HIDE DEF U
    <2> QED
      BY <2>2, <2>3
  <1> QED
    BY <1>1, <1>2, StoredWasConsumed

-----------------------------------------------------------------------------
(* Sources.                                                                 *)

\* The source is in a window that has not ended.
Runs(s) == sources[s] # NoWindow /\ sources[s].left > 0

\* A window counts what it has let pass; before it there were at most the requests of
\* another one, and an ended window that is still in the table let one pass lately.
SourceInv(s) ==
    /\ Events(passed[s], WindowMs + CleanupInterval)
    /\ \A e \in passed[s] : e[1] < WindowMs + CleanupInterval
    /\ Runs(s) =>
         /\ PassedWithin(s, WindowMs - sources[s].left + 1) = sources[s].count
         /\ PassedWithin(s, WindowMs) <= sources[s].count + RequestsPerWindow
         /\ \E e \in passed[s] : e[1] + sources[s].left <= WindowMs
    /\ ~Runs(s) =>
         /\ PassedWithin(s, WindowMs) <= RequestsPerWindow
         /\ \A e \in passed[s] : e[1] > 0
    /\ sources[s] # NoWindow /\ ~Runs(s) /\ nextCleanup > 0 =>
         \E e \in passed[s] : e[1] + nextCleanup <= WindowMs + CleanupInterval

SourcesInv ==
    /\ SourceTypeOK
    /\ \A s \in Sources : SourceInv(s)
    /\ IsFiniteSet({s \in Sources : passed[s] # {}})

\* What the constants are.
LEMMA SourceConstants ==
    /\ RequestsPerWindow \in Nat /\ RequestsPerWindow > 0
    /\ WindowMs \in Nat /\ WindowMs > 0
    /\ MaxSources \in Nat /\ MaxSources > 0
    /\ CleanupInterval \in Nat /\ CleanupInterval > 0
    /\ WindowMs + CleanupInterval \in Nat
  BY SourceConstantsOk

\* What an entry is.
LEMMA Entries ==
    ASSUME SourcesInv, NEW s \in Sources, sources[s] # NoWindow
    PROVE  /\ sources[s].count \in 1..RequestsPerWindow /\ sources[s].left \in 0..WindowMs
           /\ sources[s].count \in Nat /\ sources[s].left \in Nat
  BY SourceConstants DEF SourcesInv, SourceTypeOK

\* What the cleanup makes of an entry.
LEMMA CleanedEntries ==
    ASSUME SourcesInv, NEW s \in Sources
    PROVE  /\ \/ /\ Cleaned[s] = sources[s]
                 /\ sources[s] # NoWindow /\ ~Runs(s) => nextCleanup # 0
              \/ Cleaned[s] = NoWindow /\ ~Runs(s)
           /\ Open(s) <=> Runs(s)
           /\ Runs(s) => Cleaned[s] = sources[s]
           /\ DOMAIN Cleaned = Sources
  <1>1. sources[s] # NoWindow => sources[s].left \in Nat
    BY Entries
  <1>2. DOMAIN sources = Sources
    BY DEF SourcesInv, SourceTypeOK
  <1>3. CASE nextCleanup = 0
    <2>1. Cleaned[s] =
            IF sources[s] # NoWindow /\ sources[s].left = 0 THEN NoWindow ELSE sources[s]
      BY <1>3 DEF Cleaned
    <2>2. DOMAIN Cleaned = Sources
      BY <1>3 DEF Cleaned
    <2> QED
      BY <1>1, <2>1, <2>2 DEF Open, Runs
  <1>4. CASE nextCleanup # 0
    BY <1>1, <1>2, <1>4 DEF Cleaned, Open, Runs
  <1> QED
    BY <1>3, <1>4

\* A source whose requests stay as they are, as does its window unless it has ended.
LEMMA SourceKept ==
    ASSUME SourcesInv, NEW s \in Sources, passed'[s] = passed[s],
           \/ /\ sources'[s] = sources[s]
              /\ sources[s] # NoWindow /\ ~Runs(s) => nextCleanup' = nextCleanup
           \/ sources'[s] = NoWindow /\ ~Runs(s)
    PROVE  SourceInv(s)'
  <1>1. SourceInv(s)
    BY DEF SourcesInv
  <1>2. CASE sources'[s] = sources[s]
             /\ (sources[s] # NoWindow /\ ~Runs(s) => nextCleanup' = nextCleanup)
    <2>1. Runs(s)' <=> Runs(s)
      BY <1>2 DEF Runs
    <2> QED
      BY <1>1, <1>2, <2>1 DEF SourceInv, PassedWithin
  <1>3. CASE sources'[s] = NoWindow /\ ~Runs(s)
    <2>1. ~Runs(s)'
      BY <1>3 DEF Runs
    <2> QED
      BY <1>1, <1>3, <2>1 DEF SourceInv, PassedWithin
  <1> QED
    BY <1>2, <1>3

\* Every request makes the next cleanup one to come, and puts it off only after cleaning.
LEMMA SweptCleanup ==
    ASSUME SourcesInv, Swept
    PROVE  /\ nextCleanup' \in 0..CleanupInterval
           /\ nextCleanup # 0 => nextCleanup' = nextCleanup
  BY SourceConstants DEF SourcesInv, SourceTypeOK, Swept

\* A request changes nothing that matters of the other sources.
LEMMA OtherSource ==
    ASSUME SourcesInv, NEW s \in Sources, Swept,
           passed'[s] = passed[s], sources'[s] = Cleaned[s]
    PROVE  SourceInv(s)'
  BY CleanedEntries, SweptCleanup, SourceKept

\* Requests that pass are put down for one source.
LEMMA PassesKeep ==
    ASSUME SourcesInv, NEW s \in Sources, Passes(s)
    PROVE  /\ passed'[s] = WithNow(passed[s])
           /\ \A o \in Sources \ {s} : passed'[o] = passed[o]
           /\ passed' \in [Sources -> SUBSET EventsUpTo(WindowMs + CleanupInterval)]
           /\ IsFiniteSet({o \in Sources : passed'[o] # {}})
           /\ Events(passed'[s], WindowMs + CleanupInterval)
           /\ \A e \in passed'[s] : e[1] < WindowMs + CleanupInterval
           /\ \E e \in passed'[s] : e[1] = 0
           /\ \A span \in Nat \ {0} :
                 Cardinality(Within(passed'[s], span)) = PassedWithin(s, span) + 1
  <1> USE SourceConstants
  <1>t. passed \in [Sources -> SUBSET EventsUpTo(WindowMs + CleanupInterval)]
    BY DEF SourcesInv, SourceTypeOK
  <1>1. passed' = [passed EXCEPT ![s] = WithNow(passed[s])]
    BY DEF Passes
  <1>2. passed'[s] = WithNow(passed[s]) /\ \A o \in Sources \ {s} : passed'[o] = passed[o]
    BY <1>1, <1>t
  <1>3. Events(passed[s], WindowMs + CleanupInterval)
        /\ \A e \in passed[s] : e[1] < WindowMs + CleanupInterval
    BY DEF SourcesInv, SourceInv
  <1>4. /\ Events(WithNow(passed[s]), WindowMs + CleanupInterval)
        /\ \E e \in WithNow(passed[s]) : e[1] = 0
        /\ \A e \in WithNow(passed[s]) : e \in passed[s] \/ e[1] = 0
        /\ \A span \in Nat \ {0} :
              Cardinality(Within(WithNow(passed[s]), span))
                = Cardinality(Within(passed[s], span)) + 1
    BY <1>3, NowEvents
  <1>5. passed' \in [Sources -> SUBSET EventsUpTo(WindowMs + CleanupInterval)]
    BY <1>1, <1>4, <1>t DEF Events
  <1>6. IsFiniteSet({o \in Sources : passed'[o] # {}})
    <2> DEFINE U == {o \in Sources : passed[o] # {}}
    <2>1. {o \in Sources : passed'[o] # {}} \in SUBSET (U \union {s})
      BY <1>2
    <2>2. IsFiniteSet(U \union {s})
      BY FS_AddElement DEF SourcesInv
    <2> QED
      BY <2>1, <2>2, FS_Subset
  <1>7. \A e \in passed'[s] : e[1] < WindowMs + CleanupInterval
    BY <1>2, <1>3, <1>4
  <1> QED
    BY <1>2, <1>4, <1>5, <1>6, <1>7 DEF PassedWithin

\* What a table of entries is.
LEMMA EntriesTyped ==
    ASSUME SourcesInv
    PROVE  Cleaned \in [Sources ->
              [count : 1..RequestsPerWindow, left : 0..WindowMs] \union {NoWindow}]
  BY DEF SourcesInv, SourceTypeOK, Cleaned

\* How many requests passed in a span.
LEMMA PassedIsCount ==
    ASSUME SourcesInv, NEW s \in Sources, NEW span
    PROVE  PassedWithin(s, span) \in Nat
  BY WithinEvents, SourceConstants DEF SourcesInv, SourceInv, PassedWithin

\* A request in a window that is not used up.
LEMMA CountOnKeeps ==
    ASSUME SourcesInv, NEW s \in Sources, CountOn(s)
    PROVE  SourcesInv'
  <1> USE SourceConstants
  <1>1. /\ Runs(s) /\ Cleaned[s] = sources[s] /\ sources[s] # NoWindow
        /\ sources[s].count < RequestsPerWindow
    <2>1. Runs(s) /\ Cleaned[s] = sources[s] /\ sources[s] # NoWindow
      BY CleanedEntries DEF CountOn, Runs
    <2>2. ~(sources[s].count >= RequestsPerWindow)
      BY <2>1 DEF CountOn, OverLimit
    <2>3. sources[s].count \in Nat
      BY <2>1, Entries
    <2> QED
      BY <2>1, <2>2, <2>3
  <1>2. /\ sources[s].count \in 1..RequestsPerWindow /\ sources[s].left \in 1..WindowMs
        /\ sources[s] = [count |-> sources[s].count, left |-> sources[s].left]
    <2>1. sources[s].count \in 1..RequestsPerWindow /\ sources[s].left \in 0..WindowMs
      BY <1>1, Entries
    <2>2. sources[s].left > 0
      BY <1>1 DEF Runs
    <2>3. sources[s] = [count |-> sources[s].count, left |-> sources[s].left]
      BY <1>1 DEF SourcesInv, SourceTypeOK
    <2> QED
      BY <2>1, <2>2, <2>3
  <1> DEFINE one == [count |-> sources[s].count + 1, left |-> sources[s].left]
  <1>3. sources' = [Cleaned EXCEPT ![s] = one]
    <2>1. [Cleaned[s] EXCEPT !.count = @ + 1] = one
      BY <1>1, <1>2
    <2>2. sources' = [Cleaned EXCEPT ![s] = [Cleaned[s] EXCEPT !.count = @ + 1]]
      BY DEF CountOn
    <2> QED
      BY <2>1, <2>2
  <1>4. /\ sources'[s] = one /\ \A o \in Sources \ {s} : sources'[o] = Cleaned[o]
        /\ sources' \in [Sources ->
              [count : 1..RequestsPerWindow, left : 0..WindowMs] \union {NoWindow}]
    BY <1>1, <1>2, <1>3, EntriesTyped
  <1>5. Swept /\ Passes(s)
    BY DEF CountOn
  <1>6. \A o \in Sources \ {s} : SourceInv(o)'
    BY <1>4, <1>5, PassesKeep, OtherSource
  <1>7. SourceInv(s)'
    <2>1. sources'[s] # NoWindow /\ sources'[s].count = sources[s].count + 1
          /\ sources'[s].left = sources[s].left
      BY <1>2, <1>4, SourceConstantsOk
    <2>2. Runs(s)'
      BY <2>1, <1>2 DEF Runs
    <2>3. /\ PassedWithin(s, WindowMs - sources[s].left + 1) = sources[s].count
          /\ PassedWithin(s, WindowMs) <= sources[s].count + RequestsPerWindow
      BY <1>1 DEF SourcesInv, SourceInv
    <2>4. WindowMs - sources[s].left + 1 \in Nat \ {0}
      BY <1>2
    <2>5. Cardinality(Within(passed'[s], WindowMs - sources'[s].left + 1)) = sources'[s].count
      BY <1>5, <2>1, <2>3, <2>4, PassesKeep DEF PassedWithin
    <2>6. Cardinality(Within(passed'[s], WindowMs)) <= sources'[s].count + RequestsPerWindow
      <3>1. WindowMs \in Nat \ {0}
        OBVIOUS
      <3>2. Cardinality(Within(passed'[s], WindowMs)) = PassedWithin(s, WindowMs) + 1
        BY <1>5, <3>1, PassesKeep
      <3>3. PassedWithin(s, WindowMs) \in Nat
        BY PassedIsCount
      <3> QED
        BY <1>2, <2>1, <2>3, <3>2, <3>3
    <2>7. \E e \in passed'[s] : e[1] + sources'[s].left <= WindowMs
      <3>1. PICK e \in passed'[s] : e[1] = 0
        BY <1>5, PassesKeep
      <3> QED
        BY <1>2, <2>1, <3>1
    <2> QED
      BY <1>5, <2>2, <2>5, <2>6, <2>7, PassesKeep DEF SourceInv, PassedWithin
  <1> QED
    BY <1>4, <1>5, <1>6, <1>7, PassesKeep, SweptCleanup DEF SourcesInv, SourceTypeOK

\* A request that opens a window.
LEMMA OpenWindowKeeps ==
    ASSUME SourcesInv, NEW s \in Sources, OpenWindow(s)
    PROVE  SourcesInv'
  <1> USE SourceConstants
  <1> DEFINE one == [count |-> 1, left |-> WindowMs]
  <1>1. Swept /\ Passes(s) /\ ~Runs(s) /\ sources' = [Cleaned EXCEPT ![s] = one]
    BY CleanedEntries DEF OpenWindow
  <1>2. one \in [count : 1..RequestsPerWindow, left : 0..WindowMs]
    BY DEF SourcesInv
  <1>3. /\ sources'[s] = one /\ \A o \in Sources \ {s} : sources'[o] = Cleaned[o]
        /\ sources' \in [Sources ->
              [count : 1..RequestsPerWindow, left : 0..WindowMs] \union {NoWindow}]
    BY <1>1, <1>2, EntriesTyped
  <1>4. \A o \in Sources \ {s} : SourceInv(o)'
    BY <1>1, <1>3, PassesKeep, OtherSource
  <1>5. SourceInv(s)'
    <2>1. sources'[s] # NoWindow /\ sources'[s].count = 1 /\ sources'[s].left = WindowMs
      BY <1>3, SourceConstantsOk
    <2>2. Runs(s)'
      BY <2>1 DEF Runs
    <2>3. PassedWithin(s, WindowMs) <= RequestsPerWindow /\ \A e \in passed[s] : e[1] > 0
      BY <1>1 DEF SourcesInv, SourceInv
    <2>4. PassedWithin(s, 1) = 0
      <3>1. \A e \in passed[s] : e[1] \in Nat
        BY EventIsPair DEF SourcesInv, SourceInv, Events
      <3>2. Within(passed[s], 1) = {}
        BY <2>3, <3>1 DEF Within
      <3> QED
        BY <3>2, FS_EmptySet DEF PassedWithin
    <2>5. Cardinality(Within(passed'[s], 1)) = 1
      <3>1. 1 \in Nat \ {0}
        OBVIOUS
      <3>2. Cardinality(Within(passed'[s], 1)) = PassedWithin(s, 1) + 1
        BY <1>1, <3>1, PassesKeep
      <3> QED
        BY <2>4, <3>2
    <2>6. Cardinality(Within(passed'[s], WindowMs - sources'[s].left + 1)) = sources'[s].count
      <3>1. WindowMs - sources'[s].left + 1 = 1
        BY <2>1
      <3> QED
        BY <2>1, <2>5, <3>1
    <2>7. Cardinality(Within(passed'[s], WindowMs)) <= sources'[s].count + RequestsPerWindow
      <3>1. WindowMs \in Nat \ {0}
        OBVIOUS
      <3>2. Cardinality(Within(passed'[s], WindowMs)) = PassedWithin(s, WindowMs) + 1
        BY <1>1, <3>1, PassesKeep
      <3>3. PassedWithin(s, WindowMs) \in Nat
        BY PassedIsCount
      <3> QED
        BY <2>1, <2>3, <3>2, <3>3
    <2>8. \E e \in passed'[s] : e[1] + sources'[s].left <= WindowMs
      <3>1. PICK e \in passed'[s] : e[1] = 0
        BY <1>1, PassesKeep
      <3> QED
        BY <2>1, <3>1
    <2> QED
      BY <1>1, <2>2, <2>6, <2>7, <2>8, PassesKeep DEF SourceInv, PassedWithin
  <1> QED
    BY <1>1, <1>3, <1>4, <1>5, PassesKeep, SweptCleanup DEF SourcesInv, SourceTypeOK

\* A request that is refused, for its source or for the table.
LEMMA RefuseKeeps ==
    ASSUME SourcesInv, NEW s \in Sources, RefuseOverLimit(s) \/ RefuseFull(s)
    PROVE  SourcesInv'
  <1>1. Swept /\ UNCHANGED passed
    BY DEF RefuseOverLimit, RefuseFull
  <1>2. \/ sources' = Cleaned
        \/ sources' = [Cleaned EXCEPT ![s] = NoWindow] /\ ~Runs(s)
    BY CleanedEntries DEF RefuseOverLimit, RefuseFull, TableFull
  <1>3. sources' \in [Sources ->
              [count : 1..RequestsPerWindow, left : 0..WindowMs] \union {NoWindow}]
    BY <1>2, EntriesTyped
  <1>4. \A o \in Sources :
           sources'[o] = Cleaned[o] \/ (sources'[o] = NoWindow /\ ~Runs(o))
    BY <1>2, EntriesTyped
  <1>5. \A o \in Sources : SourceInv(o)'
    <2>1. \A o \in Sources : passed'[o] = passed[o]
      BY <1>1
    <2> QED
      BY <1>1, <1>4, <2>1, OtherSource, SourceKept
  <1> QED
    BY <1>1, <1>3, <1>5, SweptCleanup DEF SourcesInv, SourceTypeOK

\* A unit of time passes.
LEMMA SourceTickKeeps ==
    ASSUME SourcesInv, SourceTick
    PROVE  SourcesInv'
  <1> USE SourceConstants
  <1> DEFINE far == WindowMs + CleanupInterval
             Entry == [count : 1..RequestsPerWindow, left : 0..WindowMs]
  <1>t. /\ nextCleanup \in 0..CleanupInterval
        /\ passed \in [Sources -> SUBSET EventsUpTo(far)]
    BY DEF SourcesInv, SourceTypeOK
  <1>1. nextCleanup' \in 0..CleanupInterval
        /\ (nextCleanup' > 0 => nextCleanup > 1 /\ nextCleanup' = nextCleanup - 1)
    BY <1>t DEF SourceTick, Sooner
  <1>2. \A s \in Sources : passed'[s] = Within(Older(passed[s]), far)
    BY DEF SourceTick
  <1>3. ASSUME NEW s \in Sources
        PROVE  SourceInv(s)' /\ sources'[s] \in Entry \union {NoWindow}
    <2> DEFINE S == passed[s]
               T == passed'[s]
               left == sources[s].left
    <2>1. SourceInv(s) /\ Events(S, far)
      BY DEF SourcesInv, SourceInv
    <2>2. T = Within(Older(S), far)
      BY <1>2
    <2>3. \A e \in T : e[1] \in Nat /\ e[1] > 0 /\ e[1] < far
      BY <2>1, <2>2, AgedEvents
    <2>4. \A e \in S : e[1] \in Nat /\ (e[1] + 1 < far => <<e[1] + 1, e[2]>> \in T)
      BY <2>1, <2>2, AgedEvents
    <2>5. Events(T, far)
      BY <2>1, <2>2, AgedEvents
    <2>6. \A span \in Nat : span + 1 <= far =>
             Cardinality(Within(T, span + 1)) = PassedWithin(s, span)
      BY <2>1, <2>2, AgedEvents DEF PassedWithin
    <2>7. Cardinality(Within(T, WindowMs)) <= PassedWithin(s, WindowMs)
          /\ Cardinality(Within(T, WindowMs)) \in Nat
      <3>1. WindowMs - 1 \in Nat /\ WindowMs - 1 + 1 = WindowMs /\ WindowMs <= far
        OBVIOUS
      <3>2. Cardinality(Within(T, WindowMs)) = PassedWithin(s, WindowMs - 1)
        BY <2>6, <3>1
      <3>3. PassedWithin(s, WindowMs - 1) <= PassedWithin(s, WindowMs)
        BY <2>1, <3>1, LongerSpan DEF PassedWithin
      <3> QED
        BY <3>1, <3>2, <3>3, PassedIsCount
    <2>8. ASSUME NEW e \in S, NEW more \in Nat, e[1] + 1 + more <= far, more > 0
          PROVE  \E d \in T : d[1] + more <= far
      <3>1. <<e[1] + 1, e[2]>> \in T
        BY <2>4, <2>8
      <3> QED
        BY <2>8, <3>1
    <2> HIDE DEF S, T
    <2>9. CASE sources[s] = NoWindow
      <3>1. sources'[s] = NoWindow /\ ~Runs(s) /\ ~Runs(s)'
        BY <2>9 DEF SourceTick, Runs
      <3>2. PassedWithin(s, WindowMs) <= RequestsPerWindow
        BY <2>1, <3>1 DEF SourceInv
      <3>3. Cardinality(Within(T, WindowMs)) <= RequestsPerWindow
        BY <2>7, <3>2, PassedIsCount
      <3> QED
        BY <2>3, <2>5, <3>1, <3>3 DEF SourceInv, PassedWithin, T
    <2>10. ASSUME sources[s] # NoWindow
           PROVE  /\ sources'[s] # NoWindow /\ sources'[s] \in Entry
                  /\ sources'[s].count = sources[s].count
                  /\ sources'[s].left = Sooner(left)
                  /\ sources[s].count \in 1..RequestsPerWindow /\ left \in 0..WindowMs
      <3>1. sources'[s] = [count |-> sources[s].count, left |-> Sooner(left)]
        BY <2>10 DEF SourceTick
      <3>2. sources[s].count \in 1..RequestsPerWindow /\ left \in 0..WindowMs
        BY <2>10, Entries
      <3>3. Sooner(left) \in 0..WindowMs
        BY <3>2 DEF Sooner
      <3> HIDE DEF left
      <3> QED
        BY <3>1, <3>2, <3>3, SourceConstantsOk
    <2>11. CASE sources[s] # NoWindow /\ left = 0
      <3>1. sources'[s] # NoWindow /\ ~Runs(s) /\ ~Runs(s)'
        BY <2>10, <2>11 DEF Runs, Sooner
      <3>2. PassedWithin(s, WindowMs) <= RequestsPerWindow
        BY <2>1, <3>1 DEF SourceInv
      <3>3. Cardinality(Within(T, WindowMs)) <= RequestsPerWindow
        BY <2>7, <3>2, PassedIsCount
      <3>4. nextCleanup' > 0 => \E e \in T : e[1] + nextCleanup' <= far
        <4>1. SUFFICES ASSUME nextCleanup' > 0 PROVE \E e \in T : e[1] + nextCleanup' <= far
          OBVIOUS
        <4>0. nextCleanup > 0 /\ nextCleanup \in Nat /\ nextCleanup' = nextCleanup - 1
          BY <1>1, <1>t, <4>1
        <4>2. PICK e \in S : e[1] + nextCleanup <= far
          BY <2>1, <2>11, <3>1, <4>0 DEF SourceInv, S
        <4>3. e[1] + 1 + nextCleanup' <= far
          <5>1. e[1] \in Nat
            BY <2>4
          <5> QED
            BY <4>0, <4>2, <5>1
        <4> QED
          BY <1>1, <2>8, <4>1, <4>3
      <3> QED
        BY <2>3, <2>5, <2>10, <2>11, <3>1, <3>3, <3>4 DEF SourceInv, PassedWithin, T
    <2>12. CASE sources[s] # NoWindow /\ left = 1
      <3>1. sources'[s] # NoWindow /\ Runs(s) /\ ~Runs(s)'
        BY <2>10, <2>12 DEF Runs, Sooner
      <3>2. PassedWithin(s, WindowMs) <= RequestsPerWindow
        <4>1. PassedWithin(s, WindowMs - left + 1) = sources[s].count
          BY <2>1, <3>1 DEF SourceInv
        <4>2. WindowMs - left + 1 = WindowMs
          BY <2>12
        <4> QED
          BY <2>10, <2>12, <4>1, <4>2
      <3>3. Cardinality(Within(T, WindowMs)) <= RequestsPerWindow
        BY <2>7, <3>2, PassedIsCount
      <3>4. nextCleanup' > 0 => \E e \in T : e[1] + nextCleanup' <= far
        <4>1. SUFFICES ASSUME nextCleanup' > 0 PROVE \E e \in T : e[1] + nextCleanup' <= far
          OBVIOUS
        <4>2. PICK e \in S : e[1] + left <= WindowMs
          BY <2>1, <3>1 DEF SourceInv, S
        <4>3. e[1] + 1 + nextCleanup' <= far
          <5>1. e[1] \in Nat /\ e[1] + 1 <= WindowMs
            BY <2>4, <2>12, <4>2
          <5>2. nextCleanup' \in Nat /\ nextCleanup' <= CleanupInterval
            BY <1>1
          <5> QED
            BY <5>1, <5>2
        <4> QED
          BY <1>1, <2>8, <4>1, <4>3
      <3> QED
        BY <2>3, <2>5, <2>10, <2>12, <3>1, <3>3, <3>4 DEF SourceInv, PassedWithin, T
    <2>13. CASE sources[s] # NoWindow /\ left > 1
      <3>1. /\ sources'[s].left = left - 1 /\ left \in Nat /\ left <= WindowMs
            /\ Runs(s) /\ Runs(s)'
        BY <2>10, <2>13 DEF Runs, Sooner
      <3>2. /\ PassedWithin(s, WindowMs - left + 1) = sources[s].count
            /\ PassedWithin(s, WindowMs) <= sources[s].count + RequestsPerWindow
            /\ \E e \in S : e[1] + left <= WindowMs
        BY <2>1, <3>1 DEF SourceInv, S
      <3>3. Cardinality(Within(T, WindowMs - sources'[s].left + 1)) = sources'[s].count
        <4>1. /\ WindowMs - left + 1 \in Nat /\ WindowMs - left + 1 + 1 <= far
              /\ WindowMs - sources'[s].left + 1 = WindowMs - left + 1 + 1
          BY <2>13, <3>1
        <4> QED
          BY <2>6, <2>10, <2>13, <3>2, <4>1
      <3>4. Cardinality(Within(T, WindowMs)) <= sources'[s].count + RequestsPerWindow
        BY <2>7, <2>10, <2>13, <3>2, PassedIsCount
      <3>5. \E e \in T : e[1] + sources'[s].left <= WindowMs
        <4>1. PICK e \in S : e[1] + left <= WindowMs
          BY <3>2
        <4>2. <<e[1] + 1, e[2]>> \in T /\ e[1] \in Nat
          BY <2>4, <2>13, <3>1, <4>1
        <4>3. e[1] + 1 + sources'[s].left <= WindowMs
          BY <3>1, <4>1, <4>2
        <4> QED
          BY <4>2, <4>3
      <3> QED
        BY <2>3, <2>5, <2>10, <2>13, <3>1, <3>3, <3>4, <3>5 DEF SourceInv, PassedWithin, T
    <2> QED
      BY <2>9, <2>10, <2>11, <2>12, <2>13
  <1>4. SourceTypeOK'
    <2>1. sources' \in [Sources -> Entry \union {NoWindow}]
      BY <1>3 DEF SourceTick
    <2>2. \A s \in Sources : passed'[s] \in SUBSET EventsUpTo(far)
      BY <1>3 DEF SourceInv, Events
    <2>3. passed' \in [Sources -> SUBSET EventsUpTo(far)]
      BY <2>2 DEF SourceTick
    <2> QED
      BY <1>1, <2>1, <2>3 DEF SourceTypeOK
  <1>5. IsFiniteSet({s \in Sources : passed'[s] # {}})
    <2>1. \A s \in Sources : passed'[s] # {} => passed[s] # {}
      BY <1>2 DEF Within, Older
    <2>2. {s \in Sources : passed'[s] # {}} \in SUBSET {s \in Sources : passed[s] # {}}
      BY <2>1
    <2> QED
      BY <2>2, FS_Subset DEF SourcesInv
  <1> QED
    BY <1>3, <1>4, <1>5 DEF SourcesInv

\* The decisions about sources follow from the invariant.
LEMMA SourcesAreDecided == SourcesInv => SourcesDecidedByHistory
  <1> SUFFICES ASSUME SourcesInv, NEW s \in Sources
               PROVE  /\ PassedWithin(s, WindowMs) <= 2 * RequestsPerWindow
                      /\ OverLimit(s) => PassedWithin(s, WindowMs) >= RequestsPerWindow
                      /\ TableFull(s) =>
                           Cardinality({o \in Sources \ {s} :
                             PassedWithin(o, WindowMs + CleanupInterval) > 0}) >= MaxSources
    BY DEF SourcesDecidedByHistory
  <1> USE SourceConstants
  <1>1. SourceInv(s) /\ PassedWithin(s, WindowMs) \in Nat
    BY PassedIsCount DEF SourcesInv
  <1>2. PassedWithin(s, WindowMs) <= 2 * RequestsPerWindow
    <2>1. CASE Runs(s)
      <3>1. sources[s].count \in 1..RequestsPerWindow
        BY <2>1, Entries DEF Runs
      <3>2. PassedWithin(s, WindowMs) <= sources[s].count + RequestsPerWindow
        BY <1>1, <2>1 DEF SourceInv
      <3> QED
        BY <1>1, <3>1, <3>2
    <2>2. CASE ~Runs(s)
      <3>1. PassedWithin(s, WindowMs) <= RequestsPerWindow
        BY <1>1, <2>2 DEF SourceInv
      <3> QED
        BY <1>1, <3>1
    <2> QED
      BY <2>1, <2>2
  <1>3. ASSUME OverLimit(s) PROVE PassedWithin(s, WindowMs) >= RequestsPerWindow
    <2>1. Runs(s) /\ Cleaned[s] = sources[s] /\ sources[s].count >= RequestsPerWindow
      BY <1>3, CleanedEntries DEF OverLimit
    <2>2. sources[s].left \in 1..WindowMs /\ sources[s].count \in 1..RequestsPerWindow
      <3>1. sources[s] # NoWindow /\ sources[s].left > 0
        BY <2>1 DEF Runs
      <3>2. sources[s].left \in 0..WindowMs /\ sources[s].count \in 1..RequestsPerWindow
        BY <3>1, Entries
      <3> QED
        BY <3>1, <3>2
    <2>3. PassedWithin(s, WindowMs - sources[s].left + 1) = sources[s].count
      BY <1>1, <2>1 DEF SourceInv
    <2>4. WindowMs - sources[s].left + 1 \in Nat
          /\ WindowMs - sources[s].left + 1 <= WindowMs
      BY <2>2
    <2>5. PassedWithin(s, WindowMs - sources[s].left + 1) <= PassedWithin(s, WindowMs)
      BY <1>1, <2>4, LongerSpan DEF SourceInv, PassedWithin
    <2> QED
      BY <1>1, <2>1, <2>2, <2>3, <2>5
  <1>4. ASSUME NEW o \in Sources, Cleaned[o] # NoWindow
        PROVE  PassedWithin(o, WindowMs + CleanupInterval) > 0 /\ passed[o] # {}
    <2>1. SourceInv(o) /\ nextCleanup \in Nat
      BY DEF SourcesInv, SourceTypeOK
    <2>2. Runs(o) \/ (sources[o] # NoWindow /\ nextCleanup > 0)
      BY <1>4, <2>1, CleanedEntries
    <2>3. passed[o] # {} /\ Within(passed[o], WindowMs + CleanupInterval) = passed[o]
      BY <2>1, <2>2 DEF SourceInv, Within
    <2>4. Cardinality(passed[o]) \in Nat /\ Cardinality(passed[o]) # 0
      BY <2>1, <2>3, FS_CardinalityType, FS_EmptySet DEF SourceInv, Events
    <2> QED
      BY <2>3, <2>4 DEF PassedWithin
  <1>5. ASSUME TableFull(s)
        PROVE  Cardinality({o \in Sources \ {s} :
                  PassedWithin(o, WindowMs + CleanupInterval) > 0}) >= MaxSources
    <2> DEFINE C == Counted \ {s}
               P == {o \in Sources \ {s} : PassedWithin(o, WindowMs + CleanupInterval) > 0}
               U == {o \in Sources : passed[o] # {}}
    <2>1. C \in SUBSET P
      BY <1>4 DEF Counted
    <2>2. P \in SUBSET U
      <3>1. ASSUME NEW o \in Sources, passed[o] = {}
            PROVE  ~(PassedWithin(o, WindowMs + CleanupInterval) > 0)
        <4>1. Within(passed[o], WindowMs + CleanupInterval) = {}
          BY <3>1 DEF Within
        <4> QED
          BY <4>1, FS_EmptySet DEF PassedWithin
      <3> QED
        BY <3>1
    <2>3. IsFiniteSet(U)
      BY DEF SourcesInv
    <2>4. Cardinality(C) >= MaxSources
      BY <1>5 DEF TableFull
    <2> HIDE DEF C, P, U
    <2>5. /\ IsFiniteSet(P) /\ Cardinality(C) <= Cardinality(P)
          /\ Cardinality(C) \in Nat /\ Cardinality(P) \in Nat
      BY <2>1, <2>2, <2>3, FS_Subset, FS_CardinalityType
    <2>6. Cardinality(P) >= MaxSources
      BY <2>4, <2>5
    <2> QED
      BY <2>6 DEF P
  <1> QED
    BY <1>2, <1>3, <1>5

-----------------------------------------------------------------------------
(* Commands.                                                                *)

\* A bucket object counts the commands that hold its release function, it is in the table
\* as long as there are any, and the bucket in the table holds the times of the commands
\* accepted lately, which have all been forgotten when there is none.
CommandsInv ==
    /\ LimiterTypeOK
    /\ \A b \in Objects : Events(acceptedAt[b], Window)
    /\ inFlight = leases
    /\ \A b \in Objects : leases[b] > 0 => buckets[b[1]] = b[2]
    /\ \A k \in Keys : history[k] =
          IF buckets[k] = NoBucket THEN {} ELSE Recent(acceptedAt[<<k, buckets[k]>>])
    /\ IsFiniteSet({k \in Keys : buckets[k] # NoBucket})

\* What the constants are.
LEMMA LimiterConstants ==
    /\ Window \in Nat /\ Window > 0 /\ Window \in Nat \ {0}
    /\ MaxGlobal \in Nat /\ MaxGlobal > 0
    /\ MaxPerRoom \in Nat /\ MaxPerActor \in Nat /\ MaxPerActor > 0
    /\ MaxAccepted \in Nat /\ MaxAccepted > 0 /\ MaxEntries \in Nat
    /\ NoBucket \notin Numbers
  BY LimiterConstantsOk

\* No events are events.
LEMMA NoEvents ==
    ASSUME NEW age \in Nat
    PROVE  Events({}, age)
  BY FS_EmptySet DEF Events, Numbered

\* Pruning twice is pruning once.
LEMMA RecentEvents ==
    ASSUME NEW S, Events(S, Window)
    PROVE  /\ Events(Recent(S), Window) /\ Recent(Recent(S)) = Recent(S)
           /\ Events(WithNow(Recent(S)), Window)
           /\ Recent(WithNow(Recent(S))) = WithNow(Recent(S))
  <1> USE LimiterConstants
  <1>1. Events(Recent(S), Window)
    BY WithinEvents DEF Recent
  <1>2. Recent(Recent(S)) = Recent(S)
    BY DEF Recent, Within
  <1>3. Events(WithNow(Recent(S)), Window)
        /\ \A e \in WithNow(Recent(S)) : e \in Recent(S) \/ e[1] = 0
    BY <1>1, NowEvents
  <1>4. \A e \in WithNow(Recent(S)) : e[1] < Window
    BY <1>3 DEF Recent, Within
  <1>5. Recent(WithNow(Recent(S))) = WithNow(Recent(S))
    BY <1>4 DEF Recent, Within
  <1> QED
    BY <1>1, <1>2, <1>3, <1>5

\* A unit of time does to the recent events what it does without the others.
LEMMA ExpiringEvents ==
    ASSUME NEW S, Events(S, Window)
    PROVE  /\ Events(Expiring(S), Window)
           /\ Recent(Expiring(S)) = Recent(Older(Recent(S)))
  <1> USE LimiterConstants
  <1> DEFINE R == Recent(S)
             O == Older(R)
  <1>1. Events(R, Window) /\ \A e \in R : e[1] < Window
    BY RecentEvents DEF Recent, Within
  <1>2. /\ Events(O, Window + 1)
        /\ \A e \in O : <<e[1] - 1, e[2]>> \in R /\ e[1] > 0
    BY <1>1, OlderEvents
  <1>3. \A e \in S : e[1] \in Nat /\ e[1] <= Window
    BY EventIsPair DEF Events
  <1>4. \A e \in S \ R : e[1] = Window
    BY <1>3 DEF Recent, Within
  <1>5. Window + 1 \in Nat
    OBVIOUS
  <1>6. \A e \in O : e[1] \in Nat
    BY <1>2, <1>5, EventIsPair DEF Events
  <1>7. ASSUME NEW e \in O PROVE e \in EventsUpTo(Window)
    <2>1. e \in EventsUpTo(Window + 1) /\ e[1] \in Nat
      BY <1>2, <1>6 DEF Events
    <2>2. e[1] - 1 < Window
      <3> DEFINE d == <<e[1] - 1, e[2]>>
      <3>1. d \in R /\ d[1] = e[1] - 1
        BY <1>2
      <3> HIDE DEF d, R
      <3> QED
        BY <1>1, <3>1
    <2>3. e[1] \in 0..Window
      BY <2>1, <2>2
    <2> QED
      BY <2>1, <2>3 DEF EventsUpTo
  <1>8. Expiring(S) = O \union (S \ R)
    BY DEF Expiring
  <1> HIDE DEF O, R
  <1>9. Expiring(S) \in SUBSET EventsUpTo(Window)
    BY <1>7, <1>8 DEF Events
  <1>10. IsFiniteSet(Expiring(S))
    <2>1. IsFiniteSet(O)
      BY <1>2 DEF Events
    <2>2. IsFiniteSet(S \ R)
      BY FS_Difference DEF Events
    <2> QED
      BY <1>8, <2>1, <2>2, FS_Union
  <1>11. Numbered(Expiring(S))
    <2>1. \A e \in Expiring(S) : e[1] # 0
      <3>1. ASSUME NEW e \in O PROVE e[1] # 0
        <4>1. e[1] > 0 /\ e[1] \in Nat
          BY <1>2, <1>6
        <4> QED
          BY <4>1
      <3>2. \A e \in S \ R : e[1] # 0
        BY <1>4
      <3> QED
        BY <1>8, <3>1, <3>2
    <2> QED
      BY <2>1 DEF Numbered
  <1>12. Recent(Expiring(S)) = Recent(O)
    <2>1. \A e \in S \ R : ~(e[1] < Window)
      BY <1>4
    <2> QED
      BY <1>8, <2>1 DEF Recent, Within
  <1> QED
    BY <1>9, <1>10, <1>11, <1>12 DEF Events, O, R

\* The number of an object is one.
LEMMA ObjectIsPair ==
    ASSUME NEW b \in Objects
    PROVE  b = <<b[1], b[2]>> /\ b[1] \in Keys /\ b[2] \in Numbers
  BY DEF Objects

\* The pruned table has a bucket for those who are at work or were accepted lately.
LEMMA PrunedBuckets ==
    ASSUME CommandsInv, NEW k \in Keys
    PROVE  /\ Pruned \in [Keys -> Numbers \union {NoBucket}]
           /\ Pruned[k] = buckets[k] \/ Pruned[k] = NoBucket
           /\ \A n \in Numbers : leases[<<k, n>>] > 0 => Pruned[k] = n
           /\ Pruned[k] = NoBucket =>
                 history[k] = {} /\ \A n \in Numbers : leases[<<k, n>>] = 0
           /\ Pruned[k] # NoBucket =>
                 /\ history[k] = Recent(acceptedAt[<<k, Pruned[k]>>])
                 /\ history[k] # {} \/ leases[<<k, Pruned[k]>>] > 0
  <1> USE LimiterConstants
  <1>1. /\ buckets \in [Keys -> Numbers \union {NoBucket}]
        /\ \A n \in Numbers : leases[<<k, n>>] \in Nat /\ inFlight[<<k, n>>] = leases[<<k, n>>]
    BY DEF CommandsInv, LimiterTypeOK, Counts, Objects
  <1>2. Pruned[k] = IF buckets[k] # NoBucket /\ Idle(<<k, buckets[k]>>)
                    THEN NoBucket ELSE buckets[k]
    BY DEF Pruned
  <1>3. Pruned \in [Keys -> Numbers \union {NoBucket}]
    BY <1>1 DEF Pruned
  <1>4. \A n \in Numbers : leases[<<k, n>>] > 0 => buckets[k] = n
    <2>1. ASSUME NEW n \in Numbers, leases[<<k, n>>] > 0 PROVE buckets[k] = n
      <3>1. <<k, n>> \in Objects
        BY DEF Objects
      <3> QED
        BY <2>1, <3>1 DEF CommandsInv
    <2> QED
      BY <2>1
  <1>5. history[k] =
          IF buckets[k] = NoBucket THEN {} ELSE Recent(acceptedAt[<<k, buckets[k]>>])
    BY DEF CommandsInv
  <1>6. ASSUME NEW n \in Numbers, leases[<<k, n>>] > 0 PROVE Pruned[k] = n
    <2>1. buckets[k] = n /\ inFlight[<<k, n>>] # 0
      BY <1>1, <1>4, <1>6
    <2> QED
      BY <1>2, <2>1 DEF Idle
  <1>7. ASSUME Pruned[k] = NoBucket
        PROVE  history[k] = {} /\ \A n \in Numbers : leases[<<k, n>>] = 0
    <2>1. history[k] = {}
      BY <1>2, <1>5, <1>7 DEF Idle
    <2>2. \A n \in Numbers : ~(leases[<<k, n>>] > 0)
      BY <1>6, <1>7
    <2> QED
      BY <1>1, <2>1, <2>2
  <1>8. ASSUME Pruned[k] # NoBucket
        PROVE  /\ history[k] = Recent(acceptedAt[<<k, Pruned[k]>>])
               /\ history[k] # {} \/ leases[<<k, Pruned[k]>>] > 0
    <2>1. Pruned[k] = buckets[k] /\ buckets[k] \in Numbers /\ ~Idle(<<k, buckets[k]>>)
      BY <1>1, <1>2, <1>8
    <2>2. history[k] = Recent(acceptedAt[<<k, Pruned[k]>>])
      BY <1>5, <1>8, <2>1
    <2>3. history[k] # {} \/ inFlight[<<k, Pruned[k]>>] # 0
      BY <2>1, <2>2 DEF Idle
    <2> QED
      BY <1>1, <2>1, <2>2, <2>3
  <1> QED
    BY <1>2, <1>3, <1>6, <1>7, <1>8

\* There are only so many buckets in the pruned table.
LEMMA PrunedIsFinite ==
    ASSUME CommandsInv
    PROVE  IsFiniteSet({k \in Keys : Pruned[k] # NoBucket})
  <1>1. {k \in Keys : Pruned[k] # NoBucket} \in SUBSET {k \in Keys : buckets[k] # NoBucket}
    BY PrunedBuckets
  <1> QED
    BY <1>1, FS_Subset DEF CommandsInv

\* The types of the state.
LEMMA LimiterTypes ==
    ASSUME CommandsInv
    PROVE  /\ buckets \in [Keys -> Numbers \union {NoBucket}]
           /\ acceptedAt \in [Objects -> SUBSET EventsUpTo(Window)]
           /\ inFlight \in [Objects -> Nat] /\ leases \in [Objects -> Nat]
           /\ history \in [Keys -> SUBSET EventsUpTo(Window)]
           /\ \A b \in Objects : Events(acceptedAt[b], Window)
           /\ \A b \in Objects : inFlight[b] = leases[b]
           /\ \A k \in Keys, n \in Numbers : <<k, n>> \in Objects
           /\ RecentOnly \in [Objects -> SUBSET EventsUpTo(Window)]
           /\ \A b \in Objects : RecentOnly[b] = Recent(acceptedAt[b])
           /\ \A b \in Objects : Events(RecentOnly[b], Window)
  <1>1. \A b \in Objects : Events(acceptedAt[b], Window)
    BY DEF CommandsInv
  <1>2. \A b \in Objects : RecentOnly[b] = Recent(acceptedAt[b])
    BY DEF RecentOnly
  <1>3. \A b \in Objects : Events(RecentOnly[b], Window)
    BY <1>1, <1>2, RecentEvents
  <1>4. RecentOnly \in [Objects -> SUBSET EventsUpTo(Window)]
    BY <1>3 DEF RecentOnly, Events
  <1> QED
    BY <1>1, <1>2, <1>3, <1>4 DEF CommandsInv, LimiterTypeOK, Counts, Objects

\* Accepting a command.
LEMMA TryAcquireKeeps ==
    ASSUME CommandsInv, NEW key \in Keys, TryAcquire(key)
    PROVE  CommandsInv'
  <1> USE LimiterConstants
  <1>1. PICK n \in Numbers : LET found == Pruned[key] # NoBucket IN
          /\ IF found THEN n = Pruned[key] ELSE New(key, n)
          /\ buckets' = [Pruned EXCEPT ![key] = n]
          /\ acceptedAt' = [RecentOnly EXCEPT ![<<key, n>>] = WithNow(IF found THEN @ ELSE {})]
          /\ inFlight' = [inFlight EXCEPT ![<<key, n>>] = IF found THEN @ + 1 ELSE 1]
          /\ leases' = [leases EXCEPT ![<<key, n>>] = @ + 1]
    BY DEF TryAcquire
  <1> DEFINE b == <<key, n>>
             before == IF Pruned[key] # NoBucket THEN Recent(acceptedAt[b]) ELSE {}
  <1>2. b \in Objects /\ b[1] = key /\ b[2] = n
    BY DEF Objects
  <1>3. /\ Pruned[key] # NoBucket => n = Pruned[key]
        /\ Pruned[key] = NoBucket => leases[b] = 0
    <2>1. Pruned[key] = NoBucket => \A m \in Numbers : leases[<<key, m>>] = 0
      BY PrunedBuckets
    <2> QED
      BY <1>1, <2>1
  <1>4. before = history[key]
    BY <1>3, PrunedBuckets
  <1>5. Events(before, Window) /\ Recent(before) = before
        /\ Events(WithNow(before), Window) /\ Recent(WithNow(before)) = WithNow(before)
    <2>1. CASE Pruned[key] # NoBucket
      BY <1>2, <2>1, LimiterTypes, RecentEvents
    <2>2. CASE Pruned[key] = NoBucket
      <3>1. Events({}, Window) /\ Recent({}) = {}
        BY NoEvents DEF Recent, Within
      <3> QED
        BY <2>2, <3>1, RecentEvents
    <2> QED
      BY <2>1, <2>2
  <1> HIDE DEF before, b
  <1>6. acceptedAt' = [RecentOnly EXCEPT ![b] = WithNow(before)]
    BY <1>1, <1>2, LimiterTypes DEF before, b
  <1>7. /\ acceptedAt'[b] = WithNow(before)
        /\ \A o \in Objects \ {b} : acceptedAt'[o] = Recent(acceptedAt[o])
        /\ acceptedAt' \in [Objects -> SUBSET EventsUpTo(Window)]
        /\ \A o \in Objects : Events(acceptedAt'[o], Window)
    <2>1. acceptedAt'[b] = WithNow(before)
      BY <1>2, <1>6, LimiterTypes
    <2>2. \A o \in Objects \ {b} : acceptedAt'[o] = Recent(acceptedAt[o])
      BY <1>6, LimiterTypes
    <2>3. acceptedAt' \in [Objects -> SUBSET EventsUpTo(Window)]
      BY <1>5, <1>6, LimiterTypes DEF Events
    <2>4. \A o \in Objects : Events(acceptedAt'[o], Window)
      BY <1>5, <2>1, <2>2, LimiterTypes
    <2> QED
      BY <2>1, <2>2, <2>3, <2>4
  <1>8. /\ buckets'[key] = n /\ \A k \in Keys \ {key} : buckets'[k] = Pruned[k]
        /\ buckets' \in [Keys -> Numbers \union {NoBucket}]
    BY <1>1, PrunedBuckets
  <1>9. leases' = [leases EXCEPT ![b] = leases[b] + 1] /\ inFlight' = leases'
    <2>1. leases' = [leases EXCEPT ![b] = leases[b] + 1]
      BY <1>1 DEF b
    <2>2. inFlight = leases
      BY DEF CommandsInv
    <2>3. inFlight' = [inFlight EXCEPT ![b] =
                          IF Pruned[key] # NoBucket THEN inFlight[b] + 1 ELSE 1]
      BY <1>1 DEF b
    <2>4. (IF Pruned[key] # NoBucket THEN inFlight[b] + 1 ELSE 1) = leases[b] + 1
      BY <1>3, <2>2
    <2> QED
      BY <2>1, <2>2, <2>3, <2>4
  <1>10. /\ leases'[b] = leases[b] + 1 /\ \A o \in Objects \ {b} : leases'[o] = leases[o]
         /\ leases' \in [Objects -> Nat]
    BY <1>2, <1>9, LimiterTypes
  <1>11. /\ history'[key] = WithNow(before)
         /\ \A k \in Keys \ {key} : history'[k] = history[k]
         /\ history' \in [Keys -> SUBSET EventsUpTo(Window)]
    <2>1. history' = [history EXCEPT ![key] = WithNow(before)]
      BY <1>4 DEF TryAcquire
    <2> QED
      BY <1>5, <2>1, LimiterTypes DEF Events
  <1>12. LimiterTypeOK'
    BY <1>7, <1>8, <1>9, <1>10, <1>11 DEF LimiterTypeOK, Counts
  <1>13. ASSUME NEW o \in Objects, leases'[o] > 0 PROVE buckets'[o[1]] = o[2]
    <2>1. CASE o = b
      BY <1>2, <1>8, <2>1
    <2>2. CASE o # b
      <3>1. o = <<o[1], o[2]>> /\ o[1] \in Keys /\ o[2] \in Numbers /\ leases[o] > 0
        BY <1>10, <1>13, <2>2, ObjectIsPair
      <3>2. Pruned[o[1]] = o[2] /\ Pruned[o[1]] # NoBucket
        <4>1. leases[<<o[1], o[2]>>] > 0
          BY <3>1
        <4>2. Pruned[o[1]] = o[2]
          BY <3>1, <4>1, PrunedBuckets
        <4> QED
          BY <3>1, <4>2
      <3>3. o[1] # key
        BY <1>3, <2>2, <3>1, <3>2 DEF b
      <3> QED
        BY <1>8, <3>1, <3>2, <3>3
    <2> QED
      BY <2>1, <2>2
  <1>14. ASSUME NEW k \in Keys
         PROVE  history'[k] =
                  IF buckets'[k] = NoBucket THEN {} ELSE Recent(acceptedAt'[<<k, buckets'[k]>>])
    <2>1. CASE k = key
      BY <1>5, <1>7, <1>8, <1>11, <2>1 DEF b
    <2>2. CASE k # key /\ Pruned[k] = NoBucket
      BY <1>8, <1>11, <2>2, PrunedBuckets
    <2>3. CASE k # key /\ Pruned[k] # NoBucket
      <3> DEFINE o == <<k, Pruned[k]>>
      <3>1. o \in Objects /\ o # b
        BY <2>3, PrunedBuckets DEF Objects, b
      <3>2. history[k] = Recent(acceptedAt[o]) /\ Recent(history[k]) = history[k]
        BY <2>3, <3>1, PrunedBuckets, LimiterTypes, RecentEvents
      <3>3. acceptedAt'[o] = history[k]
        BY <1>7, <3>1, <3>2
      <3> QED
        BY <1>8, <1>11, <2>3, <3>2, <3>3
    <2> QED
      BY <2>1, <2>2, <2>3
  <1>15. IsFiniteSet({k \in Keys : buckets'[k] # NoBucket})
    <2> DEFINE U == {k \in Keys : Pruned[k] # NoBucket}
    <2>1. {k \in Keys : buckets'[k] # NoBucket} \in SUBSET (U \union {key})
      BY <1>8
    <2>2. IsFiniteSet(U \union {key})
      BY PrunedIsFinite, FS_AddElement
    <2> QED
      BY <2>1, <2>2, FS_Subset
  <1> QED
    BY <1>7, <1>9, <1>12, <1>13, <1>14, <1>15 DEF CommandsInv

\* Denying a command.
LEMMA DenyKeeps ==
    ASSUME CommandsInv, Deny
    PROVE  CommandsInv'
  <1>1. /\ buckets' = Pruned /\ acceptedAt' = RecentOnly
        /\ inFlight' = inFlight /\ leases' = leases /\ history' = history
    BY DEF Deny
  <1>2. LimiterTypeOK'
    <2>1. Pruned \in [Keys -> Numbers \union {NoBucket}]
      <3>1. buckets \in [Keys -> Numbers \union {NoBucket}]
        BY LimiterTypes
      <3> QED
        BY <3>1 DEF Pruned
    <2> QED
      BY <1>1, <2>1, LimiterTypes DEF CommandsInv, LimiterTypeOK, Counts
  <1>3. ASSUME NEW b \in Objects, leases[b] > 0 PROVE Pruned[b[1]] = b[2]
    <2>1. b = <<b[1], b[2]>> /\ b[1] \in Keys /\ b[2] \in Numbers
      BY ObjectIsPair
    <2> QED
      BY <1>3, <2>1, PrunedBuckets
  <1>4. ASSUME NEW k \in Keys
        PROVE  history[k] =
                  IF Pruned[k] = NoBucket THEN {} ELSE Recent(RecentOnly[<<k, Pruned[k]>>])
    <2>1. CASE Pruned[k] = NoBucket
      BY <2>1, PrunedBuckets
    <2>2. CASE Pruned[k] # NoBucket
      <3> DEFINE o == <<k, Pruned[k]>>
      <3>1. o \in Objects
        BY <2>2, PrunedBuckets DEF Objects
      <3>2. history[k] = Recent(acceptedAt[o]) /\ Recent(history[k]) = history[k]
        BY <2>2, <3>1, PrunedBuckets, LimiterTypes, RecentEvents
      <3> QED
        BY <2>2, <3>1, <3>2, LimiterTypes
    <2> QED
      BY <2>1, <2>2
  <1>5. \A b \in Objects : Events(RecentOnly[b], Window)
    BY LimiterTypes
  <1> QED
    BY <1>1, <1>2, <1>3, <1>4, <1>5, PrunedIsFinite DEF CommandsInv

\* A command ends.
LEMMA ReleaseKeeps ==
    ASSUME CommandsInv, NEW key \in Keys, NEW n \in Numbers, Release(key, n)
    PROVE  CommandsInv'
  <1> USE LimiterConstants
  <1> DEFINE b == <<key, n>>
             gone == inFlight'[b] = 0 /\ acceptedAt'[b] = {}
  <1>1. b \in Objects /\ b[1] = key /\ b[2] = n
    BY DEF Objects
  <1>2. leases[b] > 0 /\ leases[b] \in Nat /\ buckets[key] = n /\ inFlight = leases
    BY <1>1, LimiterTypes DEF Release, CommandsInv
  <1>3. /\ leases' = [leases EXCEPT ![b] = leases[b] - 1]
        /\ inFlight' = [inFlight EXCEPT ![b] = inFlight[b] - 1]
        /\ acceptedAt' = [acceptedAt EXCEPT ![b] = Recent(acceptedAt[b])]
        /\ history' = history
    BY DEF Release
  <1>4. buckets' = IF gone THEN [buckets EXCEPT ![key] = NoBucket] ELSE buckets
    BY <1>2 DEF Release
  <1> HIDE DEF gone
  <1>5. /\ inFlight' = leases' /\ leases'[b] \in Nat
        /\ \A o \in Objects \ {b} : leases'[o] = leases[o]
        /\ leases' \in [Objects -> Nat]
    <2>1. leases[b] - 1 \in Nat
      BY <1>2
    <2> QED
      BY <1>1, <1>2, <1>3, <2>1, LimiterTypes
  <1>6. /\ acceptedAt'[b] = Recent(acceptedAt[b])
        /\ \A o \in Objects \ {b} : acceptedAt'[o] = acceptedAt[o]
        /\ acceptedAt' \in [Objects -> SUBSET EventsUpTo(Window)]
        /\ \A o \in Objects : Events(acceptedAt'[o], Window)
    <2>1. /\ acceptedAt'[b] = Recent(acceptedAt[b])
          /\ \A o \in Objects \ {b} : acceptedAt'[o] = acceptedAt[o]
      BY <1>1, <1>3, LimiterTypes
    <2>2. Events(Recent(acceptedAt[b]), Window)
      BY <1>1, LimiterTypes, RecentEvents
    <2>3. acceptedAt' \in [Objects -> SUBSET EventsUpTo(Window)]
      BY <1>3, <2>2, LimiterTypes DEF Events
    <2>4. \A o \in Objects : Events(acceptedAt'[o], Window)
      BY <2>1, <2>2, LimiterTypes
    <2> QED
      BY <2>1, <2>3, <2>4
  <1>7. /\ \A k \in Keys \ {key} : buckets'[k] = buckets[k]
        /\ buckets'[key] = IF gone THEN NoBucket ELSE n
        /\ buckets' \in [Keys -> Numbers \union {NoBucket}]
    BY <1>2, <1>4, LimiterTypes
  <1>8. LimiterTypeOK'
    BY <1>3, <1>5, <1>6, <1>7, LimiterTypes DEF LimiterTypeOK, Counts
  <1>9. ASSUME NEW o \in Objects, leases'[o] > 0 PROVE buckets'[o[1]] = o[2]
    <2>1. CASE o = b
      <3>1. ~gone
        BY <1>5, <1>9, <2>1 DEF gone
      <3> QED
        BY <1>1, <1>7, <2>1, <3>1
    <2>2. CASE o # b
      <3>1. leases[o] > 0 /\ o = <<o[1], o[2]>> /\ o[1] \in Keys /\ o[2] \in Numbers
        BY <1>5, <1>9, <2>2, ObjectIsPair
      <3>2. buckets[o[1]] = o[2]
        BY <3>1 DEF CommandsInv
      <3>3. o[1] # key
        BY <1>2, <2>2, <3>1, <3>2
      <3> QED
        BY <1>7, <3>1, <3>2, <3>3
    <2> QED
      BY <2>1, <2>2
  <1>10. ASSUME NEW k \in Keys
         PROVE  history[k] =
                  IF buckets'[k] = NoBucket THEN {} ELSE Recent(acceptedAt'[<<k, buckets'[k]>>])
    <2>1. history[k] = IF buckets[k] = NoBucket THEN {} ELSE Recent(acceptedAt[<<k, buckets[k]>>])
      BY DEF CommandsInv
    <2>2. CASE k = key
      <3>1. Recent(acceptedAt'[b]) = Recent(acceptedAt[b]) /\ history[key] = Recent(acceptedAt[b])
        BY <1>1, <1>2, <1>6, <2>1, <2>2, LimiterTypes, RecentEvents
      <3>2. gone => history[key] = {}
        BY <1>6, <3>1 DEF gone
      <3> QED
        BY <1>7, <2>2, <3>1, <3>2
    <2>3. CASE k # key
      <3>1. buckets[k] # NoBucket => <<k, buckets[k]>> \in Objects \ {b}
        BY <2>3, LimiterTypes
      <3> QED
        BY <1>6, <1>7, <2>1, <2>3, <3>1
    <2> QED
      BY <2>2, <2>3
  <1>11. IsFiniteSet({k \in Keys : buckets'[k] # NoBucket})
    <2>1. {k \in Keys : buckets'[k] # NoBucket} \in SUBSET {k \in Keys : buckets[k] # NoBucket}
      BY <1>2, <1>7
    <2> QED
      BY <2>1, FS_Subset DEF CommandsInv
  <1> QED
    BY <1>3, <1>5, <1>6, <1>8, <1>9, <1>10, <1>11 DEF CommandsInv

\* A unit of time passes.
LEMMA LimiterTickKeeps ==
    ASSUME CommandsInv, LimiterTick
    PROVE  CommandsInv'
  <1>1. /\ buckets' = buckets /\ inFlight' = inFlight /\ leases' = leases
        /\ \A b \in Objects : acceptedAt'[b] = Expiring(acceptedAt[b])
        /\ \A k \in Keys : history'[k] = Recent(Older(history[k]))
    BY DEF LimiterTick
  <1>2. \A b \in Objects :
           /\ Events(acceptedAt'[b], Window)
           /\ Recent(acceptedAt'[b]) = Recent(Older(Recent(acceptedAt[b])))
    BY <1>1, LimiterTypes, ExpiringEvents
  <1>3. ASSUME NEW k \in Keys
        PROVE  /\ history'[k] =
                     IF buckets[k] = NoBucket THEN {}
                     ELSE Recent(acceptedAt'[<<k, buckets[k]>>])
               /\ history'[k] \in SUBSET EventsUpTo(Window)
    <2>1. history[k] = IF buckets[k] = NoBucket THEN {} ELSE Recent(acceptedAt[<<k, buckets[k]>>])
      BY DEF CommandsInv
    <2>2. CASE buckets[k] = NoBucket
      <3>1. Recent(Older({})) = {}
        BY DEF Recent, Within, Older
      <3> QED
        BY <1>1, <2>1, <2>2, <3>1
    <2>3. CASE buckets[k] # NoBucket
      <3>1. <<k, buckets[k]>> \in Objects
        BY <2>3, LimiterTypes
      <3>2. history'[k] = Recent(acceptedAt'[<<k, buckets[k]>>])
        BY <1>1, <1>2, <2>1, <2>3, <3>1
      <3>3. Events(Recent(acceptedAt'[<<k, buckets[k]>>]), Window)
        BY <1>2, <3>1, RecentEvents
      <3> QED
        BY <2>3, <3>2, <3>3 DEF Events
    <2> QED
      BY <2>2, <2>3
  <1>4. LimiterTypeOK'
    <2>1. \A b \in Objects : acceptedAt'[b] \in SUBSET EventsUpTo(Window)
      BY <1>2 DEF Events
    <2>2. acceptedAt' \in [Objects -> SUBSET EventsUpTo(Window)]
      BY <2>1 DEF LimiterTick
    <2>3. history' \in [Keys -> SUBSET EventsUpTo(Window)]
      BY <1>3 DEF LimiterTick
    <2> QED
      BY <1>1, <2>2, <2>3 DEF CommandsInv, LimiterTypeOK
  <1> QED
    BY <1>1, <1>2, <1>3, <1>4 DEF CommandsInv

\* The keys that the pruned table lists, and how many of their commands are at work.
Listed == {k \in Keys : Pruned[k] # NoBucket}

Busy == [k \in Listed |-> inFlight[<<k, Pruned[k]>>]]

\* Who is listed is who is known.
LEMMA ListedIsKnown ==
    ASSUME CommandsInv
    PROVE  Listed = {k \in Keys : history[k] # {} \/ AtWork({k}) # {}}
  <1> USE LimiterConstants
  <1>1. ASSUME NEW k \in Listed PROVE history[k] # {} \/ AtWork({k}) # {}
    <2>1. k \in Keys /\ Pruned[k] \in Numbers
      BY PrunedBuckets DEF Listed
    <2>2. CASE leases[<<k, Pruned[k]>>] > 0
      <3> DEFINE w == <<<<k, Pruned[k]>>, 1>>
      <3>1. leases[<<k, Pruned[k]>>] \in Nat /\ 1 \in 1..MaxGlobal
        BY <2>1, LimiterTypes
      <3>2. w \in Objects \X (1..MaxGlobal)
        BY <2>1, <3>1 DEF Objects
      <3>3. w \in AtWork({k})
        BY <2>2, <3>1, <3>2 DEF AtWork
      <3> QED
        BY <3>3
    <2> QED
      BY <2>1, <2>2, PrunedBuckets DEF Listed
  <1>2. ASSUME NEW k \in Keys, k \notin Listed PROVE history[k] = {} /\ AtWork({k}) = {}
    <2>1. history[k] = {} /\ \A n \in Numbers : leases[<<k, n>>] = 0
      BY <1>2, PrunedBuckets DEF Listed
    <2>2. ASSUME NEW w \in AtWork({k}) PROVE FALSE
      <3>1. /\ w[1] \in Objects /\ w[2] \in 1..MaxGlobal
            /\ w[1][1] = k /\ w[2] <= leases[w[1]]
        BY DEF AtWork
      <3>2. leases[w[1]] = 0
        BY <2>1, <3>1, ObjectIsPair
      <3> QED
        BY <3>1, <3>2
    <2> QED
      BY <2>1, <2>2
  <1> QED
    BY <1>1, <1>2 DEF Listed

\* The sum over the buckets of some keys is the number of their commands at work.
LEMMA TotalIsAtWork ==
    ASSUME CommandsInv, NEW K \in SUBSET Keys
    PROVE  /\ Total(Busy, {k \in Listed : k \in K}) = Cardinality(AtWork(K))
           /\ IsFiniteSet(AtWork(K)) /\ Cardinality(AtWork(K)) \in Nat
  <1> USE LimiterConstants
  <1> DEFINE D == {s \in {k \in Listed : k \in K} \X (1..MaxGlobal) : s[2] <= Busy[s[1]]}
             f == [s \in D |-> <<<<s[1], Pruned[s[1]]>>, s[2]>>]
  <1>1. ASSUME NEW s \in D
        PROVE  /\ s = <<s[1], s[2]>> /\ s[1] \in Keys /\ s[1] \in K /\ s[2] \in 1..MaxGlobal
               /\ Pruned[s[1]] \in Numbers /\ s[2] <= leases[<<s[1], Pruned[s[1]]>>]
    <2>1. s = <<s[1], s[2]>> /\ s[1] \in Listed /\ s[1] \in K /\ s[2] \in 1..MaxGlobal
          /\ s[2] <= Busy[s[1]]
      OBVIOUS
    <2>2. s[1] \in Keys /\ Pruned[s[1]] \in Numbers
      <3>1. s[1] \in Keys /\ Pruned[s[1]] # NoBucket
        BY <2>1 DEF Listed
      <3>2. Pruned \in [Keys -> Numbers \union {NoBucket}]
        BY <3>1, PrunedBuckets
      <3> QED
        BY <3>1, <3>2
    <2>3. Busy[s[1]] = leases[<<s[1], Pruned[s[1]]>>]
      BY <2>1, <2>2, LimiterTypes DEF Busy
    <2> QED
      BY <2>1, <2>2, <2>3
  <1>2. f \in [D -> AtWork(K)]
    <2>1. ASSUME NEW s \in D PROVE f[s] \in AtWork(K)
      <3>1. f[s] = <<<<s[1], Pruned[s[1]]>>, s[2]>>
        OBVIOUS
      <3>2. <<s[1], Pruned[s[1]]>> \in Objects
        BY <1>1 DEF Objects
      <3> HIDE DEF D, f
      <3> QED
        BY <1>1, <3>1, <3>2 DEF AtWork
    <2> QED
      BY <2>1
  <1>3. ASSUME NEW s \in D, NEW t \in D, f[s] = f[t] PROVE s = t
    <2>1. s[1] = t[1] /\ s[2] = t[2]
      BY <1>3
    <2> QED
      BY <1>1, <2>1
  <1>4. ASSUME NEW w \in AtWork(K) PROVE \E s \in D : f[s] = w
    <2>1. /\ w = <<w[1], w[2]>> /\ w[1] \in Objects /\ w[2] \in 1..MaxGlobal
          /\ w[1][1] \in K /\ w[2] <= leases[w[1]]
      BY DEF AtWork
    <2>2. w[1] = <<w[1][1], w[1][2]>> /\ w[1][1] \in Keys /\ w[1][2] \in Numbers
      BY <2>1, ObjectIsPair
    <2>3. leases[w[1]] > 0
      BY <2>1, LimiterTypes
    <2>4. Pruned[w[1][1]] = w[1][2]
      BY <2>2, <2>3, PrunedBuckets
    <2>5. w[1][1] \in Listed
      BY <2>2, <2>4 DEF Listed
    <2>6. Busy[w[1][1]] = leases[w[1]]
      BY <2>1, <2>2, <2>4, <2>5, LimiterTypes DEF Busy
    <2> DEFINE s == <<w[1][1], w[2]>>
    <2>7. s \in D
      BY <2>1, <2>5, <2>6
    <2>8. f[s] = w
      BY <2>1, <2>2, <2>4, <2>7
    <2> QED
      BY <2>7, <2>8
  <1>5. IsFiniteSet(D)
    <2>1. IsFiniteSet(Listed)
      BY PrunedIsFinite DEF Listed
    <2>2. IsFiniteSet({k \in Listed : k \in K})
      BY <2>1, FS_Subset
    <2>3. IsFiniteSet(1..MaxGlobal)
      BY FS_Interval
    <2>4. IsFiniteSet({k \in Listed : k \in K} \X (1..MaxGlobal))
      BY <2>2, <2>3, FS_Product
    <2> QED
      BY <2>4, FS_Subset
  <1>6. Total(Busy, {k \in Listed : k \in K}) = Cardinality(D)
    BY DEF Total
  <1> HIDE DEF D, f
  <1>7. f \in Bijection(D, AtWork(K))
    BY <1>2, <1>3, <1>4 DEF Bijection, Injection, Surjection, IsInjective
  <1>8. IsFiniteSet(AtWork(K)) /\ Cardinality(AtWork(K)) = Cardinality(D)
    BY <1>5, <1>7, FS_Bijection DEF ExistsBijection
  <1> QED
    BY <1>6, <1>8, FS_CardinalityType

\* Of one key as many commands are at work as its bucket counts, up to the global limit.
LEMMA AtWorkOfOne ==
    ASSUME CommandsInv, NEW key \in Listed
    PROVE  /\ Busy[key] \in Nat
           /\ Cardinality(AtWork({key})) = IF Busy[key] <= MaxGlobal THEN Busy[key] ELSE MaxGlobal
  <1> USE LimiterConstants
  <1> DEFINE b == <<key, Pruned[key]>>
             m == IF Busy[key] <= MaxGlobal THEN Busy[key] ELSE MaxGlobal
             f == [i \in 1..m |-> <<b, i>>]
  <1>1. key \in Keys /\ Pruned[key] \in Numbers /\ b \in Objects /\ b[1] = key
    BY PrunedBuckets DEF Listed, Objects
  <1>2. Busy[key] = leases[b] /\ Busy[key] \in Nat
    BY <1>1, LimiterTypes DEF Busy
  <1>3. m \in Nat /\ m <= leases[b] /\ m <= MaxGlobal
        /\ \A i \in 1..MaxGlobal : i <= leases[b] => i <= m
    BY <1>2
  <1> HIDE DEF b, m
  <1>4. f \in [1..m -> AtWork({key})]
    <2>1. ASSUME NEW i \in 1..m PROVE f[i] \in AtWork({key})
      <3>1. f[i] = <<b, i>> /\ i \in 1..MaxGlobal
        BY <1>3
      <3>2. <<b, i>> \in Objects \X (1..MaxGlobal) /\ i <= leases[b]
        BY <1>1, <1>2, <1>3, <3>1
      <3> HIDE DEF f
      <3> QED
        BY <1>1, <3>1, <3>2 DEF AtWork
    <2> QED
      BY <2>1
  <1>5. ASSUME NEW i \in 1..m, NEW j \in 1..m, f[i] = f[j] PROVE i = j
    BY <1>5
  <1>6. ASSUME NEW w \in AtWork({key}) PROVE \E i \in 1..m : f[i] = w
    <2>1. /\ w = <<w[1], w[2]>> /\ w[1] \in Objects /\ w[2] \in 1..MaxGlobal
          /\ w[1][1] = key /\ w[2] <= leases[w[1]]
      BY DEF AtWork
    <2>2. w[1] = <<key, w[1][2]>> /\ w[1][2] \in Numbers
      BY <2>1, ObjectIsPair
    <2>3. leases[w[1]] > 0
      BY <2>1, LimiterTypes
    <2>4. w[1] = b
      BY <1>1, <2>2, <2>3, PrunedBuckets DEF b
    <2>5. w[2] \in 1..m
      BY <1>3, <2>1, <2>4
    <2>6. f[w[2]] = w
      BY <2>1, <2>4, <2>5
    <2> QED
      BY <2>5, <2>6
  <1> HIDE DEF f
  <1>7. f \in Bijection(1..m, AtWork({key}))
    BY <1>4, <1>5, <1>6 DEF Bijection, Injection, Surjection, IsInjective
  <1>8. IsFiniteSet(1..m) /\ Cardinality(1..m) = m
    BY <1>3, FS_Interval
  <1>9. Cardinality(AtWork({key})) = m
    BY <1>7, <1>8, FS_Bijection DEF ExistsBijection
  <1> QED
    BY <1>2, <1>9 DEF m

\* The decisions about commands follow from the invariant.
LEMMA CommandsAreDecided == CommandsInv => CommandsDecidedByHistory
  <1> SUFFICES ASSUME CommandsInv, NEW key \in Keys
               PROVE  Admits(Pruned, key) <=> Entitled(key)
    BY DEF CommandsDecidedByHistory
  <1> USE LimiterConstants
  <1> DEFINE Room == {k \in Keys : k[1] = key[1]}
  <1>1. Admits(Pruned, key) <=>
          /\ Total(Busy, Listed) < MaxGlobal
          /\ Total(Busy, {k \in Listed : k[1] = key[1]}) < MaxPerRoom
          /\ IF key \in Listed
             THEN /\ Busy[key] < MaxPerActor
                  /\ Cardinality(Recent(acceptedAt[<<key, Pruned[key]>>])) < MaxAccepted
             ELSE Cardinality(Listed) < MaxEntries
    BY DEF Admits, Busy, Listed
  <1>2. Entitled(key) <=>
          /\ Cardinality(AtWork(Keys)) < MaxGlobal
          /\ Cardinality(AtWork(Room)) < MaxPerRoom
          /\ Cardinality(AtWork({key})) < MaxPerActor
          /\ Cardinality(history[key]) < MaxAccepted
          /\ key \in Listed \/ Cardinality(Listed) < MaxEntries
    BY ListedIsKnown DEF Entitled
  <1>3. Total(Busy, Listed) = Cardinality(AtWork(Keys))
    <2>1. Listed = {k \in Listed : k \in Keys}
      BY DEF Listed
    <2> QED
      BY <2>1, TotalIsAtWork
  <1>4. Total(Busy, {k \in Listed : k[1] = key[1]}) = Cardinality(AtWork(Room))
    <2>1. {k \in Listed : k[1] = key[1]} = {k \in Listed : k \in Room}
      BY DEF Listed
    <2>2. Room \in SUBSET Keys
      OBVIOUS
    <2> HIDE DEF Room
    <2> QED
      BY <2>1, <2>2, TotalIsAtWork
  <1> HIDE DEF Room
  <1>5. CASE key \in Listed
    <2>1. history[key] = Recent(acceptedAt[<<key, Pruned[key]>>])
      BY <1>5, PrunedBuckets DEF Listed
    <2>2. /\ Busy[key] \in Nat
          /\ Cardinality(AtWork({key})) =
               IF Busy[key] <= MaxGlobal THEN Busy[key] ELSE MaxGlobal
      BY <1>5, AtWorkOfOne
    <2>3. /\ Cardinality(AtWork({key})) <= Cardinality(AtWork(Keys))
          /\ Cardinality(AtWork(Keys)) \in Nat
      <3>1. AtWork({key}) \in SUBSET AtWork(Keys)
        BY DEF AtWork, Objects
      <3> QED
        BY <3>1, TotalIsAtWork, FS_Subset
    <2>4. Cardinality(AtWork(Keys)) < MaxGlobal => Cardinality(AtWork({key})) = Busy[key]
      BY <2>2, <2>3
    <2> QED
      BY <1>1, <1>2, <1>3, <1>4, <1>5, <2>1, <2>4
  <1>6. CASE key \notin Listed
    <2>1. history[key] = {} /\ AtWork({key}) = {}
      BY <1>6, ListedIsKnown
    <2>2. Cardinality(history[key]) = 0 /\ Cardinality(AtWork({key})) = 0
      BY <2>1, FS_EmptySet
    <2>3. Cardinality(history[key]) < MaxAccepted /\ Cardinality(AtWork({key})) < MaxPerActor
      BY <2>2
    <2> QED
      BY <1>1, <1>2, <1>3, <1>4, <1>6, <2>3
  <1> QED
    BY <1>5, <1>6

-----------------------------------------------------------------------------
(* Bounds.                                                                  *)

\* One more command at work of an object is one more of its key at most.
LEMMA AtWorkMore ==
    ASSUME CommandsInv, NEW b \in Objects, NEW K \in SUBSET Keys,
           leases' = [leases EXCEPT ![b] = leases[b] + 1]
    PROVE  /\ b[1] \notin K => AtWork(K)' = AtWork(K)
           /\ Cardinality(AtWork(K)') <= Cardinality(AtWork(K)) + 1
           /\ Cardinality(AtWork(K)') \in Nat
  <1> DEFINE new == <<b, leases[b] + 1>>
             A == {w \in Objects \X (1..MaxGlobal) : w[1][1] \in K /\ w[2] <= leases'[w[1]]}
  <1>1. leases[b] \in Nat /\ leases'[b] = leases[b] + 1
        /\ \A o \in Objects \ {b} : leases'[o] = leases[o]
    BY LimiterTypes
  <1>2. AtWork(K)' = A
    BY DEF AtWork
  <1>3. ASSUME NEW w \in A PROVE w \in AtWork(K) \/ (w = new /\ b[1] \in K)
    <2>1. /\ w = <<w[1], w[2]>> /\ w[1] \in Objects /\ w[2] \in 1..MaxGlobal
          /\ w[1][1] \in K /\ w[2] <= leases'[w[1]] /\ w \in Objects \X (1..MaxGlobal)
      OBVIOUS
    <2> HIDE DEF A, new
    <2>2. CASE w[1] # b \/ w[2] <= leases[b]
      <3>1. w[2] <= leases[w[1]]
        BY <1>1, <2>1, <2>2
      <3> QED
        BY <2>1, <3>1 DEF AtWork
    <2>3. CASE w[1] = b /\ ~(w[2] <= leases[b])
      <3>1. w[2] = leases[b] + 1
        <4>1. w[2] \in Nat /\ w[2] <= leases[b] + 1
          BY <1>1, <2>1, <2>3
        <4> QED
          BY <1>1, <2>3, <4>1
      <3> QED
        BY <2>1, <2>3, <3>1 DEF new
    <2> QED
      BY <2>2, <2>3
  <1>4. ASSUME NEW w \in AtWork(K) PROVE w \in A
    <2>1. /\ w \in Objects \X (1..MaxGlobal) /\ w[1] \in Objects /\ w[2] \in 1..MaxGlobal
          /\ w[1][1] \in K /\ w[2] <= leases[w[1]]
      BY DEF AtWork
    <2>2. w[2] \in Nat
      BY <2>1
    <2>3. w[2] <= leases'[w[1]]
      BY <1>1, <2>1, <2>2
    <2> QED
      BY <2>1, <2>3
  <1> HIDE DEF A, new
  <1>5. IsFiniteSet(AtWork(K)) /\ Cardinality(AtWork(K)) \in Nat
    BY TotalIsAtWork
  <1>6. A \in SUBSET (AtWork(K) \union {new})
    BY <1>3
  <1>7. /\ IsFiniteSet(AtWork(K) \union {new})
        /\ Cardinality(AtWork(K) \union {new}) <= Cardinality(AtWork(K)) + 1
        /\ Cardinality(AtWork(K) \union {new}) \in Nat
    <2>1. /\ IsFiniteSet(AtWork(K) \union {new})
          /\ \/ Cardinality(AtWork(K) \union {new}) = Cardinality(AtWork(K))
             \/ Cardinality(AtWork(K) \union {new}) = Cardinality(AtWork(K)) + 1
      BY <1>5, FS_AddElement
    <2> DEFINE c == Cardinality(AtWork(K))
               d == Cardinality(AtWork(K) \union {new})
    <2>2. c \in Nat /\ (d = c \/ d = c + 1)
      BY <1>5, <2>1
    <2> HIDE DEF c, d
    <2>3. d <= c + 1 /\ d \in Nat
      BY <2>2
    <2> QED
      BY <2>1, <2>3 DEF c, d
  <1>8. /\ Cardinality(A) <= Cardinality(AtWork(K) \union {new})
        /\ Cardinality(A) \in Nat
    BY <1>6, <1>7, FS_Subset, FS_CardinalityType
  <1> QED
    BY <1>2, <1>3, <1>4, <1>5, <1>7, <1>8

\* Where no object has more at work, no keys have.
LEMMA AtWorkLess ==
    ASSUME CommandsInv, NEW K \in SUBSET Keys,
           \A o \in Objects : leases'[o] \in Nat /\ leases'[o] <= leases[o]
    PROVE  /\ Cardinality(AtWork(K)') <= Cardinality(AtWork(K))
           /\ Cardinality(AtWork(K)') \in Nat /\ Cardinality(AtWork(K)) \in Nat
  <1> DEFINE A == {w \in Objects \X (1..MaxGlobal) : w[1][1] \in K /\ w[2] <= leases'[w[1]]}
  <1>1. AtWork(K)' = A
    BY DEF AtWork
  <1>2. ASSUME NEW w \in A PROVE w \in AtWork(K)
    <2>1. /\ w \in Objects \X (1..MaxGlobal) /\ w[1] \in Objects /\ w[2] \in 1..MaxGlobal
          /\ w[1][1] \in K /\ w[2] <= leases'[w[1]]
      OBVIOUS
    <2>2. leases'[w[1]] \in Nat /\ leases'[w[1]] <= leases[w[1]] /\ leases[w[1]] \in Nat
          /\ w[2] \in Nat
      BY <2>1, LimiterTypes
    <2>3. w[2] <= leases[w[1]]
      BY <2>1, <2>2
    <2> QED
      BY <2>1, <2>3 DEF AtWork
  <1> HIDE DEF A
  <1>3. IsFiniteSet(AtWork(K)) /\ Cardinality(AtWork(K)) \in Nat
    BY TotalIsAtWork
  <1>4. A \in SUBSET AtWork(K)
    BY <1>2
  <1>5. Cardinality(A) <= Cardinality(AtWork(K)) /\ Cardinality(A) \in Nat
    BY <1>3, <1>4, FS_Subset, FS_CardinalityType
  <1> QED
    BY <1>1, <1>3, <1>5

\* How many events there are when times are pruned, put down or grow older.
LEMMA RecentCount ==
    ASSUME NEW S, Events(S, Window)
    PROVE  /\ Cardinality(S) \in Nat /\ Cardinality(Recent(S)) \in Nat
           /\ Cardinality(Recent(S)) <= Cardinality(S)
           /\ Recent(S) = S => Cardinality(WithNow(S)) = Cardinality(S) + 1
           /\ Cardinality(Recent(Older(S))) <= Cardinality(S)
           /\ Cardinality(Expiring(S)) <= Cardinality(S)
  <1> USE LimiterConstants
  <1>1. IsFiniteSet(S) /\ Cardinality(S) \in Nat
    BY FS_CardinalityType DEF Events
  <1>2. Recent(S) \in SUBSET S
    BY DEF Recent, Within
  <1>3. /\ IsFiniteSet(Recent(S)) /\ Cardinality(Recent(S)) \in Nat
        /\ Cardinality(Recent(S)) <= Cardinality(S)
    BY <1>1, <1>2, FS_Subset, FS_CardinalityType
  <1>4. ASSUME Recent(S) = S PROVE Cardinality(WithNow(S)) = Cardinality(S) + 1
    <2>1. Recent(WithNow(S)) = WithNow(S)
      BY <1>4, RecentEvents
    <2>2. Cardinality(Within(WithNow(S), Window)) = Cardinality(Within(S, Window)) + 1
      BY NowEvents
    <2> QED
      BY <1>4, <2>1, <2>2 DEF Recent
  <1>5. Cardinality(Recent(Older(S))) <= Cardinality(S)
    <2>1. Window - 1 \in Nat /\ Window - 1 + 1 = Window
      OBVIOUS
    <2>2. Cardinality(Recent(Older(S))) = Cardinality(Within(S, Window - 1))
      BY <2>1, OlderEvents DEF Recent
    <2>3. Within(S, Window - 1) \in SUBSET S
      BY DEF Within
    <2> QED
      BY <1>1, <2>2, <2>3, FS_Subset
  <1>6. Cardinality(Expiring(S)) <= Cardinality(S)
    <2> DEFINE R == Recent(S)
               O == Older(R)
               D == S \ R
    <2>1. Events(R, Window) /\ Recent(R) = R
      BY RecentEvents
    <2>2. Events(O, Window + 1)
          /\ Cardinality(Within(O, Window + 1)) = Cardinality(Within(R, Window))
      BY <2>1, OlderEvents
    <2>3. Within(O, Window + 1) = O
      <3>1. Window + 1 \in Nat
        OBVIOUS
      <3>2. \A e \in O : e[1] \in Nat
        BY <2>2, <3>1, EventIsPair DEF Events
      <3>3. \A e \in O : e[1] < Window + 1
        <4>1. \A e \in O : <<e[1] - 1, e[2]>> \in R
          BY <2>1, OlderEvents
        <4>2. \A d \in R : d[1] < Window
          BY DEF Recent, Within
        <4>3. ASSUME NEW e \in O PROVE e[1] < Window + 1
          <5> DEFINE d == <<e[1] - 1, e[2]>>
          <5>1. d \in R /\ d[1] = e[1] - 1
            BY <4>1
          <5>2. d[1] < Window
            <6> HIDE DEF d
            <6> QED
              BY <4>2, <5>1
          <5> QED
            BY <3>2, <5>1, <5>2
        <4> QED
          BY <4>3
      <3> QED
        BY <3>3 DEF Within
    <2>4. IsFiniteSet(O) /\ Cardinality(O) = Cardinality(R)
      BY <2>1, <2>2, <2>3 DEF Events, Recent
    <2>5. S \intersect R = R
      BY <1>2
    <2>6. IsFiniteSet(D) /\ Cardinality(D) = Cardinality(S) - Cardinality(R)
      <3>1. Cardinality(D) = Cardinality(S) - Cardinality(S \intersect R)
        BY <1>1, FS_Difference
      <3> QED
        BY <1>1, <2>5, <3>1, FS_Difference
    <2>7. Expiring(S) = O \union D
      BY DEF Expiring
    <2> HIDE DEF O, D, R
    <2>8. Cardinality(O \union D) = Cardinality(O) + Cardinality(D) - Cardinality(O \intersect D)
      BY <2>4, <2>6, FS_Union
    <2>9. Cardinality(O \intersect D) \in Nat
      <3>1. O \intersect D \in SUBSET D
        OBVIOUS
      <3> QED
        BY <2>6, <3>1, FS_Subset, FS_CardinalityType
    <2>10. Cardinality(R) \in Nat
      BY <1>3 DEF R
    <2> QED
      BY <1>1, <2>4, <2>6, <2>7, <2>8, <2>9, <2>10
  <1> QED
    BY <1>1, <1>3, <1>4, <1>5, <1>6

\* The bounds of the limiter of commands.
CommandBounds ==
    /\ CapsAreKept
    /\ Cardinality({k \in Keys : buckets[k] # NoBucket}) <= MaxEntries
    /\ \A b \in Objects : Cardinality(acceptedAt[b]) <= MaxAccepted

\* What each of its steps does to what is bounded.
LEMMA HistoryIsRecent ==
    ASSUME CommandsInv, NEW k \in Keys
    PROVE  Events(history[k], Window) /\ Recent(history[k]) = history[k]
  <1>1. CASE Pruned[k] = NoBucket
    <2>1. history[k] = {}
      BY <1>1, PrunedBuckets
    <2>2. Recent({}) = {}
      BY DEF Recent, Within
    <2> QED
      BY <2>1, <2>2, NoEvents, LimiterConstants
  <1>2. CASE Pruned[k] # NoBucket
    <2>1. <<k, Pruned[k]>> \in Objects /\ history[k] = Recent(acceptedAt[<<k, Pruned[k]>>])
      BY <1>2, PrunedBuckets DEF Objects
    <2> QED
      BY <2>1, LimiterTypes, RecentEvents
  <1> QED
    BY <1>1, <1>2

\* Accepting a command only where there is room for it.
LEMMA TryAcquireBounds ==
    ASSUME CommandsInv, CommandBounds, NEW key \in Keys, TryAcquire(key)
    PROVE  CommandBounds'
  <1> USE LimiterConstants
  <1> DEFINE Room == {k \in Keys : k[1] = key[1]}
  <1>1. /\ Cardinality(AtWork(Keys)) < MaxGlobal
        /\ Cardinality(AtWork(Room)) < MaxPerRoom
        /\ Cardinality(AtWork({key})) < MaxPerActor
        /\ Cardinality(history[key]) < MaxAccepted
        /\ key \in Listed \/ Cardinality(Listed) < MaxEntries
    <2>1. Entitled(key)
      BY CommandsAreDecided DEF CommandsDecidedByHistory, TryAcquire
    <2> QED
      BY <2>1, ListedIsKnown DEF Entitled
  <1>2. PICK n \in Numbers : LET found == Pruned[key] # NoBucket IN
          /\ IF found THEN n = Pruned[key] ELSE New(key, n)
          /\ buckets' = [Pruned EXCEPT ![key] = n]
          /\ acceptedAt' = [RecentOnly EXCEPT ![<<key, n>>] = WithNow(IF found THEN @ ELSE {})]
          /\ inFlight' = [inFlight EXCEPT ![<<key, n>>] = IF found THEN @ + 1 ELSE 1]
          /\ leases' = [leases EXCEPT ![<<key, n>>] = @ + 1]
    BY DEF TryAcquire
  <1> DEFINE b == <<key, n>>
  <1>3. b \in Objects /\ b[1] = key
    BY DEF Objects
  <1>4. leases' = [leases EXCEPT ![b] = leases[b] + 1] /\ leases[b] \in Nat
    BY <1>2, <1>3, LimiterTypes
  <1>5. Events(history[key], Window) /\ Recent(history[key]) = history[key]
    BY HistoryIsRecent
  <1>6. acceptedAt' = [RecentOnly EXCEPT ![b] = WithNow(history[key])]
    <2>1. CASE Pruned[key] # NoBucket
      <3>1. n = Pruned[key] /\ RecentOnly[b] = history[key]
        BY <1>2, <1>3, <2>1, PrunedBuckets, LimiterTypes
      <3> QED
        BY <1>2, <2>1, <3>1
    <2>2. CASE Pruned[key] = NoBucket
      <3>1. history[key] = {}
        BY <2>2, PrunedBuckets
      <3> QED
        BY <1>2, <2>2, <3>1
    <2> QED
      BY <2>1, <2>2
  <1>7. history' = [history EXCEPT ![key] = WithNow(history[key])]
    BY DEF TryAcquire
  <1>8. Cardinality(WithNow(history[key])) <= MaxAccepted
    <2>1. Cardinality(WithNow(history[key])) = Cardinality(history[key]) + 1
          /\ Cardinality(history[key]) \in Nat
      BY <1>5, RecentCount
    <2> QED
      BY <1>1, <2>1
  <1>9. leases[b] < MaxGlobal
    <2>1. CASE Pruned[key] = NoBucket
      <3>1. leases[b] = 0
        BY <2>1, PrunedBuckets
      <3> QED
        BY <3>1
    <2>2. CASE Pruned[key] # NoBucket
      <3>1. key \in Listed /\ n = Pruned[key]
        BY <1>2, <2>2 DEF Listed
      <3>2. Busy[key] = leases[b]
        BY <1>3, <3>1, LimiterTypes DEF Busy
      <3>3. Cardinality(AtWork({key})) =
              IF leases[b] <= MaxGlobal THEN leases[b] ELSE MaxGlobal
        BY <3>1, <3>2, AtWorkOfOne
      <3>4. Cardinality(AtWork({key})) <= Cardinality(AtWork(Keys))
            /\ Cardinality(AtWork(Keys)) \in Nat
        <4>1. AtWork({key}) \in SUBSET AtWork(Keys)
          BY DEF AtWork, Objects
        <4> QED
          BY <4>1, TotalIsAtWork, FS_Subset
      <3> QED
        BY <1>1, <1>4, <3>3, <3>4
    <2> QED
      BY <2>1, <2>2
  <1> HIDE DEF b
  <1>10. \A o \in Objects : leases'[o] <= MaxGlobal
    <2>1. \A o \in Objects \ {b} : leases'[o] = leases[o]
      BY <1>4, LimiterTypes
    <2>2. leases'[b] = leases[b] + 1
      BY <1>3, <1>4, LimiterTypes
    <2>3. leases'[b] <= MaxGlobal
      BY <1>4, <1>9, <2>2
    <2> QED
      BY <2>1, <2>3 DEF CommandBounds, CapsAreKept
  <1>11. ASSUME NEW K \in SUBSET Keys
         PROVE  /\ key \notin K => AtWork(K)' = AtWork(K)
                /\ Cardinality(AtWork(K)') <= Cardinality(AtWork(K)) + 1
                /\ Cardinality(AtWork(K)') \in Nat /\ Cardinality(AtWork(K)) \in Nat
    BY <1>3, <1>4, AtWorkMore, TotalIsAtWork
  <1>12. Cardinality(AtWork(Keys)') <= MaxGlobal
    <2>1. Keys \in SUBSET Keys
      OBVIOUS
    <2> QED
      BY <1>1, <1>11, <2>1
  <1>13. ASSUME NEW k \in Keys
         PROVE  /\ Cardinality(AtWork({o \in Keys : o[1] = k[1]})') <= MaxPerRoom
                /\ Cardinality(AtWork({k})') <= MaxPerActor
                /\ Cardinality(history'[k]) <= MaxAccepted
    <2> DEFINE K == {o \in Keys : o[1] = k[1]}
    <2>1. K \in SUBSET Keys /\ {k} \in SUBSET Keys
      OBVIOUS
    <2>2. /\ Cardinality(AtWork(K)) <= MaxPerRoom
          /\ Cardinality(AtWork({k})) <= MaxPerActor
          /\ Cardinality(history[k]) <= MaxAccepted
      BY DEF CommandBounds, CapsAreKept
    <2>3. Cardinality(AtWork(K)') <= MaxPerRoom
      <3>1. CASE key \in K
        <4>1. K = Room
          BY <3>1
        <4>2. Cardinality(AtWork(K)) < MaxPerRoom
          BY <1>1, <4>1
        <4>3. /\ Cardinality(AtWork(K)') <= Cardinality(AtWork(K)) + 1
              /\ Cardinality(AtWork(K)') \in Nat /\ Cardinality(AtWork(K)) \in Nat
          <5> HIDE DEF K, Room
          <5> QED
            BY <1>11, <2>1
        <4> HIDE DEF K, Room
        <4> QED
          BY <4>2, <4>3
      <3>2. CASE key \notin K
        <4> HIDE DEF K, Room
        <4>1. AtWork(K)' = AtWork(K)
          BY <1>11, <2>1, <3>2
        <4> QED
          BY <2>2, <4>1
      <3> QED
        BY <3>1, <3>2
    <2>4. Cardinality(AtWork({k})') <= MaxPerActor
      <3>1. CASE k = key
        BY <1>1, <1>11, <2>1, <3>1
      <3>2. CASE k # key
        BY <1>11, <2>1, <2>2, <3>2
      <3> QED
        BY <3>1, <3>2
    <2>5. Cardinality(history'[k]) <= MaxAccepted
      BY <1>7, <1>8, <2>2, LimiterTypes
    <2> QED
      BY <2>3, <2>4, <2>5
  <1>14. \A o \in Objects : Cardinality(acceptedAt'[o]) <= MaxAccepted
    <2>1. ASSUME NEW o \in Objects, o # b PROVE Cardinality(acceptedAt'[o]) <= MaxAccepted
      <3>1. acceptedAt'[o] = Recent(acceptedAt[o])
        BY <1>6, <2>1, LimiterTypes
      <3>2. /\ Cardinality(Recent(acceptedAt[o])) <= Cardinality(acceptedAt[o])
            /\ Cardinality(Recent(acceptedAt[o])) \in Nat /\ Cardinality(acceptedAt[o]) \in Nat
        BY LimiterTypes, RecentCount
      <3>3. Cardinality(acceptedAt[o]) <= MaxAccepted
        BY DEF CommandBounds
      <3> QED
        BY <3>1, <3>2, <3>3
    <2>2. acceptedAt'[b] = WithNow(history[key])
      BY <1>3, <1>6, LimiterTypes
    <2> QED
      BY <1>8, <2>1, <2>2
  <1>15. Cardinality({k \in Keys : buckets'[k] # NoBucket}) <= MaxEntries
    <2>1. buckets' = [Pruned EXCEPT ![key] = n]
      BY <1>2
    <2>2. {k \in Keys : buckets'[k] # NoBucket} = Listed \union {key}
      <3>1. Pruned \in [Keys -> Numbers \union {NoBucket}]
        BY PrunedBuckets
      <3> QED
        BY <2>1, <3>1 DEF Listed
    <2>3. IsFiniteSet(Listed) /\ Cardinality(Listed) \in Nat
      BY PrunedIsFinite, FS_CardinalityType DEF Listed
    <2>4. CASE key \in Listed
      <3>1. Listed \union {key} = Listed
        BY <2>4
      <3>2. Listed \in SUBSET {k \in Keys : buckets[k] # NoBucket}
        BY PrunedBuckets DEF Listed
      <3>3. /\ Cardinality(Listed) <= Cardinality({k \in Keys : buckets[k] # NoBucket})
            /\ Cardinality({k \in Keys : buckets[k] # NoBucket}) \in Nat
        BY <3>2, FS_Subset, FS_CardinalityType DEF CommandsInv
      <3>4. Cardinality({k \in Keys : buckets[k] # NoBucket}) <= MaxEntries
        BY DEF CommandBounds
      <3> QED
        BY <2>2, <2>3, <3>1, <3>3, <3>4
    <2>5. CASE key \notin Listed
      <3>1. Cardinality(Listed \union {key}) = Cardinality(Listed) + 1
        BY <2>3, <2>5, FS_AddElement
      <3>2. Cardinality(Listed) < MaxEntries
        BY <1>1, <2>5
      <3>3. Cardinality(Listed \union {key}) <= MaxEntries
        <4> DEFINE c == Cardinality(Listed)
        <4>1. c \in Nat /\ c < MaxEntries
          BY <2>3, <3>2
        <4> HIDE DEF c
        <4>2. c + 1 <= MaxEntries
          BY <4>1
        <4> QED
          BY <3>1, <4>2 DEF c
      <3> QED
        BY <2>2, <3>3
    <2> QED
      BY <2>4, <2>5
  <1> QED
    BY <1>10, <1>12, <1>13, <1>14, <1>15 DEF CommandBounds, CapsAreKept

\* The other steps only take away, or let time pass.
LEMMA OtherCommandBounds ==
    ASSUME CommandsInv, CommandBounds,
           Deny \/ (\E key \in Keys, n \in Numbers : Release(key, n)) \/ LimiterTick
    PROVE  CommandBounds'
  <1> USE LimiterConstants
  <1>1. \A o \in Objects : leases'[o] \in Nat /\ leases'[o] <= leases[o]
    <2>1. CASE Deny \/ LimiterTick
      <3>1. leases' = leases
        BY <2>1 DEF Deny, LimiterTick
      <3>2. \A o \in Objects : leases[o] \in Nat
        BY LimiterTypes
      <3> QED
        BY <3>1, <3>2
    <2>2. ASSUME NEW key \in Keys, NEW n \in Numbers, Release(key, n),
                 NEW o \in Objects
          PROVE  leases'[o] \in Nat /\ leases'[o] <= leases[o]
      <3>1. /\ leases' = [leases EXCEPT ![<<key, n>>] = leases[<<key, n>>] - 1]
            /\ leases[<<key, n>>] > 0 /\ <<key, n>> \in Objects
        BY <2>2, LimiterTypes DEF Release
      <3>2. leases[<<key, n>>] \in Nat /\ leases[o] \in Nat
        BY <3>1, LimiterTypes
      <3>3. leases'[o] = IF o = <<key, n>> THEN leases[o] - 1 ELSE leases[o]
        BY <3>1, LimiterTypes
      <3> QED
        BY <3>1, <3>2, <3>3
    <2> QED
      BY <2>1, <2>2
  <1>2. ASSUME NEW k \in Keys PROVE Cardinality(history'[k]) <= MaxAccepted
    <2>1. Cardinality(history[k]) <= MaxAccepted
      BY DEF CommandBounds, CapsAreKept
    <2>2. history'[k] = history[k] \/ history'[k] = Recent(Older(history[k]))
      BY DEF Deny, Release, LimiterTick
    <2>3. /\ Cardinality(Recent(Older(history[k]))) <= Cardinality(history[k])
          /\ Cardinality(history[k]) \in Nat /\ Cardinality(Recent(Older(history[k]))) \in Nat
      <3>1. Events(history[k], Window)
        BY HistoryIsRecent
      <3>2. IsFiniteSet(Recent(Older(history[k])))
        <4>1. IsFiniteSet(Older(history[k]))
          BY <3>1, OlderEvents DEF Events
        <4>2. Recent(Older(history[k])) \in SUBSET Older(history[k])
          BY DEF Recent, Within
        <4> QED
          BY <4>1, <4>2, FS_Subset
      <3> QED
        BY <3>1, <3>2, RecentCount, FS_CardinalityType
    <2> QED
      BY <2>1, <2>2, <2>3
  <1>3. ASSUME NEW o \in Objects PROVE Cardinality(acceptedAt'[o]) <= MaxAccepted
    <2> DEFINE S == acceptedAt[o]
    <2>1. Cardinality(S) <= MaxAccepted /\ Events(S, Window)
      BY LimiterTypes DEF CommandBounds
    <2>2. acceptedAt'[o] = S \/ acceptedAt'[o] = Recent(S) \/ acceptedAt'[o] = Expiring(S)
      <3>1. CASE Deny
        BY <3>1, LimiterTypes DEF Deny
      <3>2. CASE LimiterTick
        BY <3>2 DEF LimiterTick
      <3>3. ASSUME NEW key \in Keys, NEW n \in Numbers, Release(key, n)
            PROVE  acceptedAt'[o] = S \/ acceptedAt'[o] = Recent(S)
        <4>1. acceptedAt' = [acceptedAt EXCEPT ![<<key, n>>] = Recent(acceptedAt[<<key, n>>])]
          BY <3>3 DEF Release
        <4> QED
          BY <4>1, LimiterTypes
      <3> QED
        BY <3>1, <3>2, <3>3
    <2>3. /\ Cardinality(Recent(S)) <= Cardinality(S) /\ Cardinality(Expiring(S)) <= Cardinality(S)
          /\ Cardinality(S) \in Nat /\ Cardinality(Recent(S)) \in Nat
          /\ Cardinality(Expiring(S)) \in Nat
      <3>1. IsFiniteSet(Expiring(S))
        BY <2>1, ExpiringEvents DEF Events
      <3> QED
        BY <2>1, <3>1, RecentCount, FS_CardinalityType
    <2> HIDE DEF S
    <2> QED
      BY <2>1, <2>2, <2>3
  <1>4. Cardinality({k \in Keys : buckets'[k] # NoBucket}) <= MaxEntries
    <2> DEFINE T == {k \in Keys : buckets[k] # NoBucket}
               U == {k \in Keys : buckets'[k] # NoBucket}
    <2>1. U \in SUBSET T
      <3>1. CASE Deny
        BY <3>1, PrunedBuckets DEF Deny
      <3>2. CASE LimiterTick
        BY <3>2 DEF LimiterTick
      <3>3. ASSUME NEW key \in Keys, NEW n \in Numbers, Release(key, n) PROVE U \in SUBSET T
        <4>1. buckets' = [buckets EXCEPT ![key] = NoBucket] \/ buckets' = buckets
          BY <3>3 DEF Release
        <4> QED
          BY <4>1, LimiterTypes
      <3> QED
        BY <3>1, <3>2, <3>3
    <2>2. IsFiniteSet(T) /\ Cardinality(T) <= MaxEntries
      BY DEF CommandsInv, CommandBounds
    <2> HIDE DEF T, U
    <2>3. Cardinality(U) <= Cardinality(T) /\ Cardinality(U) \in Nat /\ Cardinality(T) \in Nat
      BY <2>1, <2>2, FS_Subset, FS_CardinalityType
    <2>4. Cardinality(U) <= MaxEntries
      BY <2>2, <2>3
    <2> QED
      BY <2>4 DEF U
  <1>5. ASSUME NEW K \in SUBSET Keys, NEW m \in Nat, Cardinality(AtWork(K)) <= m
        PROVE  Cardinality(AtWork(K)') <= m
    <2>1. /\ Cardinality(AtWork(K)') <= Cardinality(AtWork(K))
          /\ Cardinality(AtWork(K)') \in Nat /\ Cardinality(AtWork(K)) \in Nat
      BY <1>1, AtWorkLess
    <2> QED
      BY <1>5, <2>1
  <1>6. Cardinality(AtWork(Keys)') <= MaxGlobal
    <2>1. Keys \in SUBSET Keys /\ Cardinality(AtWork(Keys)) <= MaxGlobal
      BY DEF CommandBounds, CapsAreKept
    <2> QED
      BY <1>5, <2>1
  <1>7. ASSUME NEW k \in Keys
        PROVE  /\ Cardinality(AtWork({o \in Keys : o[1] = k[1]})') <= MaxPerRoom
               /\ Cardinality(AtWork({k})') <= MaxPerActor
    <2> DEFINE K == {o \in Keys : o[1] = k[1]}
    <2>1. /\ Cardinality(AtWork(K)) <= MaxPerRoom
          /\ Cardinality(AtWork({k})) <= MaxPerActor
      BY DEF CommandBounds, CapsAreKept
    <2>2. K \in SUBSET Keys /\ {k} \in SUBSET Keys
      OBVIOUS
    <2> HIDE DEF K
    <2>3. Cardinality(AtWork(K)') <= MaxPerRoom /\ Cardinality(AtWork({k})') <= MaxPerActor
      BY <1>5, <2>1, <2>2
    <2> QED
      BY <2>3 DEF K
  <1>8. \A o \in Objects : leases'[o] <= MaxGlobal
    <2>1. ASSUME NEW o \in Objects PROVE leases'[o] <= MaxGlobal
      <3>1. leases[o] <= MaxGlobal /\ leases[o] \in Nat
        BY LimiterTypes DEF CommandBounds, CapsAreKept
      <3> QED
        BY <1>1, <3>1
    <2> QED
      BY <2>1
  <1> QED
    BY <1>2, <1>3, <1>4, <1>6, <1>7, <1>8 DEF CommandBounds, CapsAreKept

-----------------------------------------------------------------------------
(* The process.                                                             *)

LimitsInv == CommandsInv /\ SourcesInv /\ NoncesInv

\* An empty table accounts for no traffic.
LEMMA LimitsInvInit == Init => LimitsInv
  <1> SUFFICES ASSUME Init PROVE LimitsInv
    OBVIOUS
  <1>1. CommandsInv
    <2> USE LimiterConstants
    <2>1. /\ buckets = [k \in Keys |-> NoBucket] /\ acceptedAt = [b \in Objects |-> {}]
          /\ inFlight = [b \in Objects |-> 0] /\ leases = inFlight
          /\ history = [k \in Keys |-> {}]
      BY DEF Init, InitLimiter
    <2>2. Events({}, Window)
      BY NoEvents
    <2>3. LimiterTypeOK
      BY <2>1 DEF LimiterTypeOK, Counts
    <2>4. {k \in Keys : buckets[k] # NoBucket} = {}
      BY <2>1
    <2>5. \A b \in Objects : acceptedAt[b] = {} /\ ~(leases[b] > 0)
      BY <2>1
    <2>6. \A k \in Keys : history[k] = {} /\ buckets[k] = NoBucket
      BY <2>1
    <2> QED
      BY <2>1, <2>2, <2>3, <2>4, <2>5, <2>6, FS_EmptySet DEF CommandsInv
  <1>2. SourcesInv
    <2> USE SourceConstants
    <2>1. /\ sources = [s \in Sources |-> NoWindow] /\ nextCleanup = 0
          /\ passed = [s \in Sources |-> {}]
      BY DEF Init, InitSources
    <2>2. SourceTypeOK
      BY <2>1 DEF SourceTypeOK
    <2>3. ASSUME NEW s \in Sources PROVE SourceInv(s)
      <3>1. passed[s] = {} /\ sources[s] = NoWindow /\ ~Runs(s)
        BY <2>1 DEF Runs
      <3>2. Events({}, WindowMs + CleanupInterval)
        BY NoEvents
      <3>3. PassedWithin(s, WindowMs) = 0
        <4>1. Within(passed[s], WindowMs) = {}
          BY <3>1 DEF Within
        <4> QED
          BY <4>1, FS_EmptySet DEF PassedWithin
      <3> QED
        BY <3>1, <3>2, <3>3 DEF SourceInv
    <2>4. {s \in Sources : passed[s] # {}} = {}
      BY <2>1
    <2> QED
      BY <2>2, <2>3, <2>4, FS_EmptySet DEF SourcesInv
  <1>3. NoncesInv
    <2> USE NonceConstants
    <2>1. /\ nonces = [n \in Nonces |-> Unused] /\ nextNonceCleanup = 0
          /\ consumed = [n \in Nonces |-> {}]
      BY DEF Init, InitNonces
    <2>2. NonceTypeOK
      BY <2>1 DEF NonceTypeOK
    <2>3. ASSUME NEW n \in Nonces PROVE NonceInv(n)
      <3>1. consumed[n] = {} /\ nonces[n] = Unused /\ nonces[n] # 0
        BY <2>1
      <3>2. Events({}, NonceLifetime + NonceCleanupInterval)
        BY NoEvents
      <3> QED
        BY <3>1, <3>2 DEF NonceInv
    <2>4. {n \in Nonces : consumed[n] # {}} = {}
      BY <2>1
    <2> QED
      BY <2>2, <2>3, <2>4, FS_EmptySet DEF NoncesInv
  <1> QED
    BY <1>1, <1>2, <1>3 DEF LimitsInv

\* A table that is left alone still accounts for its traffic.
LEMMA CommandsUnchanged == CommandsInv /\ UNCHANGED limiterVars => CommandsInv'
  BY DEF CommandsInv, limiterVars, LimiterTypeOK

LEMMA SourcesUnchanged == SourcesInv /\ UNCHANGED sourceVars => SourcesInv'
  BY DEF SourcesInv, SourceInv, PassedWithin, Runs, sourceVars, SourceTypeOK

LEMMA NoncesUnchanged == NoncesInv /\ UNCHANGED nonceVars => NoncesInv'
  BY DEF NoncesInv, NonceInv, nonceVars, NonceTypeOK

\* Every step leaves each table accounting for its traffic.
LEMMA LimitsInvNext == LimitsInv /\ [Next]_vars => LimitsInv'
  <1> SUFFICES ASSUME LimitsInv, [Next]_vars PROVE LimitsInv'
    OBVIOUS
  <1> USE DEF LimitsInv
  <1>1. ASSUME LimiterStep PROVE CommandsInv'
    BY <1>1, TryAcquireKeeps, DenyKeeps, ReleaseKeeps DEF LimiterStep
  <1>2. ASSUME SourceStep PROVE SourcesInv'
    BY <1>2, CountOnKeeps, OpenWindowKeeps, RefuseKeeps DEF SourceStep
  <1>3. ASSUME NonceStep PROVE NoncesInv'
    BY <1>3, ConsumeKeeps, RejectKeeps DEF NonceStep
  <1>4. CASE LimiterStep /\ UNCHANGED <<sourceVars, nonceVars>>
    BY <1>1, <1>4, SourcesUnchanged, NoncesUnchanged
  <1>5. CASE SourceStep /\ UNCHANGED <<limiterVars, nonceVars>>
    BY <1>2, <1>5, CommandsUnchanged, NoncesUnchanged
  <1>6. CASE NonceStep /\ UNCHANGED <<limiterVars, sourceVars>>
    BY <1>3, <1>6, CommandsUnchanged, SourcesUnchanged
  <1>7. CASE Tick
    BY <1>7, LimiterTickKeeps, SourceTickKeeps, NonceTickKeeps DEF Tick
  <1>8. CASE UNCHANGED vars
    BY <1>8, CommandsUnchanged, SourcesUnchanged, NoncesUnchanged DEF vars
  <1> QED
    BY <1>4, <1>5, <1>6, <1>7, <1>8 DEF Next

LEMMA LimitsInvInductive == Spec => []LimitsInv
  BY LimitsInvInit, LimitsInvNext, PTL DEF Spec

\* The variables of the three limiters have their types.
THEOREM TypesOfLimits == Spec => []TypeOK
  <1>1. LimitsInv => TypeOK
    BY DEF LimitsInv, CommandsInv, SourcesInv, NoncesInv, TypeOK
  <1> QED
    BY <1>1, LimitsInvInductive, PTL

\* A !calendar command is accepted exactly when the commands at work and those accepted in
\* the last window leave room for it, for any number of rooms and actors, any limits and
\* any window: pruning late and making bucket objects anew changes no decision.
THEOREM CommandsDecided == Spec => []CommandsDecidedByHistory
  <1>1. LimitsInv => CommandsDecidedByHistory
    BY CommandsAreDecided DEF LimitsInv
  <1> QED
    BY <1>1, LimitsInvInductive, PTL

\* A source gets at most twice its requests in any span of a window, is refused for its own
\* sake only after all of them, and for the table's sake only when enough others came
\* lately, for any number of sources and any limits with a cleanup interval within the window.
THEOREM SourcesDecided == Spec => []SourcesDecidedByHistory
  <1>1. LimitsInv => SourcesDecidedByHistory
    BY SourcesAreDecided DEF LimitsInv
  <1> QED
    BY <1>1, LimitsInvInductive, PTL

\* Callbacks with the same nonce are accepted a lifetime apart, and refused only because of
\* those accepted lately, for any nonces, any cap and any lifetime.
THEOREM NoncesDecided == Spec => []NoncesDecidedByHistory
  <1>1. LimitsInv => NoncesDecidedByHistory
    BY NoncesAreDecided DEF LimitsInv
  <1> QED
    BY <1>1, LimitsInvInductive, PTL


-----------------------------------------------------------------------------
(* What the process remembers.                                              *)

\* The bounds of the tables of sources and of nonces.
SourceBound ==
    LET table == {s \in Sources : sources[s] # NoWindow}
    IN  IsFiniteSet(table) /\ Cardinality(table) <= MaxSources

NonceBound ==
    LET table == {n \in Nonces : nonces[n] # Unused}
    IN  IsFiniteSet(table) /\ Cardinality(table) <= MaxNonces

\* A part of a table is within the bound of the table, also with one more entry when the
\* other entries do not fill it.
LEMMA WithinBound ==
    ASSUME NEW T, NEW U, NEW bound \in Nat, IsFiniteSet(T), Cardinality(T) <= bound
    PROVE  /\ U \in SUBSET T => IsFiniteSet(U) /\ Cardinality(U) <= bound
           /\ \A x, W : /\ U \in SUBSET T
                        /\ W \in SUBSET ((U \ {x}) \union {x})
                        /\ Cardinality(U \ {x}) < bound
                 => IsFiniteSet(W) /\ Cardinality(W) <= bound
  <1>1. Cardinality(T) \in Nat
    BY FS_CardinalityType
  <1>2. ASSUME NEW S, S \in SUBSET T
        PROVE  IsFiniteSet(S) /\ Cardinality(S) \in Nat /\ Cardinality(S) <= bound
    <2>1. IsFiniteSet(S) /\ Cardinality(S) \in Nat /\ Cardinality(S) <= Cardinality(T)
      BY <1>2, FS_Subset, FS_CardinalityType
    <2> QED
      BY <1>1, <2>1
  <1>3. ASSUME NEW x, NEW W, U \in SUBSET T, W \in SUBSET ((U \ {x}) \union {x}),
               Cardinality(U \ {x}) < bound
        PROVE  IsFiniteSet(W) /\ Cardinality(W) <= bound
    <2> DEFINE S == U \ {x}
    <2>1. IsFiniteSet(S) /\ Cardinality(S) \in Nat /\ x \notin S
      <3>1. S \in SUBSET T
        BY <1>3
      <3> QED
        BY <1>2, <3>1
    <2>2. Cardinality(S) < bound /\ W \in SUBSET (S \union {x})
      BY <1>3
    <2> HIDE DEF S
    <2>3. IsFiniteSet(S \union {x}) /\ Cardinality(S \union {x}) = Cardinality(S) + 1
      BY <2>1, FS_AddElement
    <2>4. IsFiniteSet(W) /\ Cardinality(W) <= Cardinality(S \union {x}) /\ Cardinality(W) \in Nat
      BY <2>2, <2>3, FS_Subset, FS_CardinalityType
    <2> QED
      BY <2>1, <2>2, <2>3, <2>4
  <1> QED
    BY <1>2, <1>3

\* The table of sources stays within its bound.
LEMMA SourceBounds ==
    ASSUME SourcesInv, SourceBound, SourceStep \/ SourceTick
    PROVE  SourceBound'
  <1> DEFINE T == {s \in Sources : sources[s] # NoWindow}
             U == {s \in Sources : sources'[s] # NoWindow}
  <1>1. IsFiniteSet(T) /\ Cardinality(T) <= MaxSources /\ MaxSources \in Nat
    BY SourceConstants DEF SourceBound
  <1>2. Counted \in SUBSET T
    BY CleanedEntries DEF Counted
  <1>3. ASSUME NEW s \in Sources, OpenWindow(s)
        PROVE  IsFiniteSet(U) /\ Cardinality(U) <= MaxSources
    <2>1. U \in SUBSET ((Counted \ {s}) \union {s})
      <3>1. \A o \in Sources : o # s => sources'[o] = Cleaned[o]
        BY <1>3 DEF OpenWindow
      <3> QED
        BY <3>1 DEF Counted
    <2>2. Cardinality(Counted \ {s}) < MaxSources
      <3>1. Counted \ {s} \in SUBSET T
        BY <1>2
      <3>2. Cardinality(Counted \ {s}) \in Nat
        <4> HIDE DEF T
        <4> QED
          BY <1>1, <3>1, FS_Subset, FS_CardinalityType
      <3>3. ~(Cardinality(Counted \ {s}) >= MaxSources)
        BY <1>3 DEF OpenWindow, TableFull
      <3> QED
        BY <1>1, <3>2, <3>3
    <2> HIDE DEF T, U
    <2> QED
      BY <1>1, <1>2, <2>1, <2>2, WithinBound
  <1>4. ASSUME NEW s \in Sources, CountOn(s) \/ RefuseOverLimit(s) \/ RefuseFull(s)
        PROVE  U \in SUBSET T
    <2>1. ASSUME NEW o \in Sources, sources[o] = NoWindow PROVE sources'[o] = NoWindow
      <3>1. Cleaned[o] = NoWindow /\ DOMAIN Cleaned = Sources
        BY <2>1, CleanedEntries DEF Runs
      <3>2. ~Open(o)
        BY <3>1 DEF Open
      <3>3. CASE CountOn(s)
        <4>1. o # s /\ \E r : sources' = [Cleaned EXCEPT ![s] = r]
          BY <3>2, <3>3 DEF CountOn
        <4> QED
          BY <3>1, <4>1
      <3>4. CASE RefuseOverLimit(s)
        BY <3>1, <3>4 DEF RefuseOverLimit
      <3>5. CASE RefuseFull(s)
        BY <3>1, <3>5 DEF RefuseFull
      <3> QED
        BY <1>4, <3>3, <3>4, <3>5
    <2> QED
      BY <2>1
  <1>5. ASSUME SourceTick PROVE U \in SUBSET T
    BY <1>5 DEF SourceTick
  <1>6. IsFiniteSet(U) /\ Cardinality(U) <= MaxSources
    <2>1. CASE U \in SUBSET T
      <3> HIDE DEF T, U
      <3> QED
        BY <1>1, <2>1, WithinBound
    <2> QED
      BY <1>3, <1>4, <1>5, <2>1 DEF SourceStep
  <1> QED
    BY <1>6 DEF SourceBound

\* The table of nonces stays within its bound.
LEMMA NonceBounds ==
    ASSUME NoncesInv, NonceBound, NonceStep \/ NonceTick
    PROVE  NonceBound'
  <1> DEFINE T == {n \in Nonces : nonces[n] # Unused}
             U == {n \in Nonces : nonces'[n] # Unused}
  <1>1. IsFiniteSet(T) /\ Cardinality(T) <= MaxNonces /\ MaxNonces \in Nat
    BY NonceConstants DEF NonceBound
  <1>2. Stored(Kept) \in SUBSET T
    BY KeptNonces, NonceConstants DEF Stored
  <1>3. ASSUME NEW n \in Nonces, Consume(n)
        PROVE  IsFiniteSet(U) /\ Cardinality(U) <= MaxNonces
    <2>1. n \notin Stored(Kept) /\ Cardinality(Stored(Kept)) < MaxNonces
      BY <1>3 DEF Consume, Fresh
    <2>2. U \in SUBSET ((Stored(Kept) \ {n}) \union {n})
      <3>1. \A o \in Nonces : o # n => nonces'[o] = Kept[o]
        BY <1>3 DEF Consume
      <3> QED
        BY <3>1 DEF Stored
    <2>3. Stored(Kept) \ {n} = Stored(Kept)
      BY <2>1
    <2> HIDE DEF T, U
    <2> QED
      BY <1>1, <1>2, <2>1, <2>2, <2>3, WithinBound
  <1>4. ASSUME NEW n \in Nonces, Reject(n) PROVE U \in SUBSET T
    BY <1>2, <1>4 DEF Reject, Stored
  <1>5. ASSUME NonceTick PROVE U \in SUBSET T
    BY <1>5 DEF NonceTick
  <1>6. IsFiniteSet(U) /\ Cardinality(U) <= MaxNonces
    <2>1. CASE U \in SUBSET T
      <3> HIDE DEF T, U
      <3> QED
        BY <1>1, <2>1, WithinBound
    <2> QED
      BY <1>3, <1>4, <1>5, <2>1 DEF NonceStep
  <1> QED
    BY <1>6 DEF NonceBound

\* The bounds hold of empty tables and are kept by every step.
BoundsInv == LimitsInv /\ CommandBounds /\ SourceBound /\ NonceBound

LEMMA BoundsInvInit == Init => BoundsInv
  <1> SUFFICES ASSUME Init PROVE BoundsInv
    OBVIOUS
  <1>1. /\ \A b \in Objects : acceptedAt[b] = {} /\ leases[b] = 0
        /\ \A k \in Keys : history[k] = {}
        /\ {k \in Keys : buckets[k] # NoBucket} = {}
        /\ {s \in Sources : sources[s] # NoWindow} = {}
        /\ {n \in Nonces : nonces[n] # Unused} = {}
    BY DEF Init, InitLimiter, InitSources, InitNonces
  <1>2. IsFiniteSet({}) /\ Cardinality({}) = 0
    BY FS_EmptySet
  <1>3. \A K : AtWork(K) = {}
    <2>1. \A i \in 1..MaxGlobal : ~(i <= 0)
      BY LimiterConstants
    <2> QED
      BY <1>1, <2>1 DEF AtWork
  <1>4. \A m \in Nat : 0 <= m
    OBVIOUS
  <1>5. \A K : Cardinality(AtWork(K)) = 0
    BY <1>2, <1>3
  <1>6. CapsAreKept
    <2> USE LimiterConstants
    <2>1. Cardinality(AtWork(Keys)) <= MaxGlobal
      BY <1>4, <1>5
    <2>2. \A b \in Objects : leases[b] <= MaxGlobal
      BY <1>1, <1>4
    <2>3. ASSUME NEW k \in Keys
          PROVE  /\ Cardinality(AtWork({o \in Keys : o[1] = k[1]})) <= MaxPerRoom
                 /\ Cardinality(AtWork({k})) <= MaxPerActor
                 /\ Cardinality(history[k]) <= MaxAccepted
      <3>1. Cardinality(history[k]) = 0
        BY <1>1, <1>2
      <3>2. Cardinality(AtWork({o \in Keys : o[1] = k[1]})) = 0 /\ Cardinality(AtWork({k})) = 0
        BY <1>5
      <3> QED
        BY <1>4, <3>1, <3>2
    <2> QED
      BY <2>1, <2>2, <2>3 DEF CapsAreKept
  <1>7. CommandBounds
    <2>1. Cardinality({k \in Keys : buckets[k] # NoBucket}) <= MaxEntries
      BY <1>1, <1>2, <1>4, LimiterConstants
    <2>2. \A b \in Objects : Cardinality(acceptedAt[b]) <= MaxAccepted
      BY <1>1, <1>2, <1>4, LimiterConstants
    <2> QED
      BY <1>6, <2>1, <2>2 DEF CommandBounds
  <1>8. SourceBound
    BY <1>1, <1>2, <1>4, SourceConstants DEF SourceBound
  <1>9. NonceBound
    BY <1>1, <1>2, <1>4, NonceConstants DEF NonceBound
  <1> QED
    BY <1>7, <1>8, <1>9, LimitsInvInit DEF BoundsInv

LEMMA BoundsInvNext == BoundsInv /\ [Next]_vars => BoundsInv'
  <1> SUFFICES ASSUME BoundsInv, [Next]_vars PROVE BoundsInv'
    OBVIOUS
  <1>0. LimitsInv /\ CommandsInv /\ SourcesInv /\ NoncesInv
        /\ CommandBounds /\ SourceBound /\ NonceBound
    BY DEF BoundsInv, LimitsInv
  <1>1. CommandBounds'
    <2>1. ASSUME UNCHANGED limiterVars PROVE CommandBounds'
      BY <1>0, <2>1 DEF CommandBounds, CapsAreKept, AtWork, limiterVars
    <2>2. ASSUME LimiterStep \/ LimiterTick PROVE CommandBounds'
      BY <1>0, <2>2, TryAcquireBounds, OtherCommandBounds DEF LimiterStep
    <2> QED
      BY <2>1, <2>2 DEF Next, Tick, vars
  <1>2. SourceBound'
    <2>1. ASSUME UNCHANGED sourceVars PROVE SourceBound'
      BY <1>0, <2>1 DEF SourceBound, sourceVars
    <2> QED
      BY <1>0, <2>1, SourceBounds DEF Next, Tick, vars
  <1>3. NonceBound'
    <2>1. ASSUME UNCHANGED nonceVars PROVE NonceBound'
      BY <1>0, <2>1 DEF NonceBound, nonceVars
    <2> QED
      BY <1>0, <2>1, NonceBounds DEF Next, Tick, vars
  <1> QED
    BY <1>0, <1>1, <1>2, <1>3, LimitsInvNext DEF BoundsInv

LEMMA BoundsInvInductive == Spec => []BoundsInv
  BY BoundsInvInit, BoundsInvNext, PTL DEF Spec

\* No more commands are at work in the process, in a room and of an actor than their caps,
\* and no more are accepted of an actor in any window, though nobody counts them but the
\* buckets, which come and go: for any rooms and actors, any caps and any window.
THEOREM CommandsAreCapped == Spec => []CapsAreKept
  <1>1. BoundsInv => CapsAreKept
    BY DEF BoundsInv, CommandBounds
  <1> QED
    BY <1>1, BoundsInvInductive, PTL

\* None of the tables outgrows its cap, though expired entries leave only when somebody
\* comes by, whoever comes and whatever the caps.
THEOREM TablesStayBounded == Spec => []TablesAreBounded
  <1>1. BoundsInv => TablesAreBounded
    BY DEF BoundsInv, CommandBounds, SourceBound, NonceBound, TablesAreBounded
  <1> QED
    BY <1>1, BoundsInvInductive, PTL

=============================================================================
