-------------------------- MODULE AuthThrottleProofs -------------------------
(***************************************************************************)
(* What AuthThrottle promises of any number of addresses and requests, any *)
(* limits, windows and blocks.                                             *)
(***************************************************************************)
EXTENDS AuthThrottle, FiniteSetTheorems, TLAPS

(***************************************************************************)
(* The inductive invariant.                                                *)
(***************************************************************************)
\* A moment is used at most MaxWait after it was taken.
Punctual ==
  \A r \in Requests : requests[r].pc = "entered" =>
    requests[r].time <= now /\ now <= requests[r].time + MaxWait

\* A row that is not there is blank, and so is its history; one that is there
\* knows its sources, which are its own.
RowsSound ==
  \A k \in Keys :
    /\ IF buckets[k].present THEN ledger[k].sources # {} /\ buckets[k].started <= now
       ELSE buckets[k] = NoBucket /\ ledger[k].sources = {}
    /\ IsFiniteSet(ledger[k].counted) /\ IsFiniteSet(ledger[k].sources)
    /\ \A i \in Identities, a \in Ips : <<i, a>> \in ledger[k].sources => k = Key(k[1], i, a)

(***************************************************************************)
(* A row b behind the pair row p, where all that b has counted came past p.*)
(* In a window of b there are at most two of p, each letting one less than *)
(* the limit of a pair pass: b counts in the first as p does, and in the   *)
(* second on top of what the first let pass.  After that, whoever passes   *)
(* comes at a moment behind the window of b: a gate x in front of b is     *)
(* blocked for longer, or the clock has gone on too far.                   *)
(***************************************************************************)
Passable == Limit["pair"] - 1

FirstWindow(b, p) ==
  /\ p.present /\ p.started + Window >= b.started
  /\ b.attempts <= p.attempts /\ b.attempts <= Passable

SecondWindow(b, p) ==
  p.present /\ p.started > b.started /\ b.attempts <= p.attempts + Passable

Shut(b, x) ==
  /\ x.present /\ x.blocked > b.started + Window
  /\ x.expires + MaxWait >= b.started + Window + Block

Fed(b, p, e) ==
  /\ b.blocked = 0 /\ b.attempts <= 2 * Passable
  /\ p.present => p.expires + MaxWait >= b.started + Window + Block
  /\ \/ FirstWindow(b, p) \/ SecondWindow(b, p) \/ Shut(b, p) \/ Shut(b, e)
     \/ now > b.started + Window + MaxWait

SpreadInv ==
  \A k \in Keys, i \in Identities, a \in Ips :
    k[1] # "pair" /\ ledger[k].sources = {<<i, a>>} =>
      Fed(buckets[k], buckets[Key("pair", i, a)], buckets[Key("identity", i, a)])

ThrottleInv == TypeOK /\ Punctual /\ RowsSound /\ FailuresAreCounted

(***************************************************************************)
(* Keys and rows.                                                          *)
(***************************************************************************)
LEMMA KeyFacts ==
  /\ \A d \in Dimensions, i \in Identities, a \in Ips :
       Key(d, i, a) \in Keys /\ Key(d, i, a)[1] = d
  /\ \A k \in Keys : k[1] \in Dimensions
<1>1. \A d \in Dimensions, i \in Identities, a \in Ips : Key(d, i, a)[1] = d
  BY DEF Dimensions, Key
<1>2. \A d \in Dimensions, i \in Identities, a \in Ips : Key(d, i, a) \in Keys
  BY DEF Keys
<1>3. ASSUME NEW k \in Keys PROVE k[1] \in Dimensions
  <2>1. PICK d \in Dimensions, i \in Identities, a \in Ips : k = Key(d, i, a)
    BY DEF Keys
  <2> QED
    BY <1>1, <2>1
<1> QED
  BY <1>1, <1>2, <1>3

LEMMA UpsertType ==
  ASSUME NEW b \in Bucket, NEW limit \in Nat, NEW t \in Nat
  PROVE  Upsert(b, limit, t) \in Bucket
BY AuthThrottleAssumption DEF Bucket, Upsert

LEMMA ReleasedType ==
  ASSUME NEW b \in Bucket
  PROVE  /\ Released(b) \in Bucket
         /\ Released(b).attempts = IF b.attempts > 0 THEN b.attempts - 1 ELSE 0
         /\ Released(b).present = b.present /\ Released(b).started = b.started
         /\ Released(b).blocked = b.blocked /\ Released(b).expires = b.expires
BY DEF Bucket, Released

LEMMA ThrottleInit == Init => ThrottleInv
<1> SUFFICES ASSUME Init PROVE ThrottleInv
  OBVIOUS
<1>1. NoBucket \in Bucket /\ NoLedger \in Ledger /\ 1 \in 1 .. MaxTime
  BY AuthThrottleAssumption DEF NoBucket, Bucket, NoLedger, Ledger
<1>2. TypeOK
  BY <1>1 DEF Init, TypeOK
<1>3. Punctual
  BY DEF Init, Punctual
<1>4. \A k \in Keys : buckets[k] = NoBucket /\ ledger[k] = NoLedger
  BY DEF Init
<1>5. RowsSound
  BY <1>4, FS_EmptySet DEF RowsSound, NoBucket, NoLedger
<1>6. FailuresAreCounted
  BY <1>4, FS_EmptySet DEF FailuresAreCounted, NoBucket, NoLedger
<1> QED
  BY <1>2, <1>3, <1>5, <1>6 DEF ThrottleInv

(***************************************************************************)
(* What the steps do.                                                      *)
(***************************************************************************)
\* One row of reserve(), and its history.
Counted(k, r, t, src) ==
  /\ buckets'[k] = Upsert(buckets[k], Limit[k[1]], t)
  /\ ledger'[k] =
       LET fresh == Restarts(buckets[k], t)
       IN  [counted  |-> (IF fresh THEN {} ELSE ledger[k].counted) \cup {r},
            forgiven |-> IF fresh THEN 0 ELSE ledger[k].forgiven,
            sources  |-> (IF buckets[k].present THEN ledger[k].sources ELSE {}) \cup {src}]

Kept(k) == buckets'[k] = buckets[k] /\ ledger'[k] = ledger[k]

\* A request with the moment it took, and the rows it writes.
Reserved(r, i, a, t) ==
  /\ t <= now /\ now <= t + MaxWait
  /\ \A d \in Walk(buckets, i, a, t) : Counted(Key(d, i, a), r, t, <<i, a>>)
  /\ \A k \in Keys : (\A d \in Walk(buckets, i, a, t) : k # Key(d, i, a)) => Kept(k)
  /\ now' = now
  /\ buckets' = [k \in Keys |-> buckets'[k]] /\ ledger' = [k \in Keys |-> ledger'[k]]
  /\ \/ requests' = [requests EXCEPT ![r] = [pc |-> "over"]]
     \/ requests' = [requests EXCEPT ![r] =
                       [pc |-> "admitted", identity |-> i, ip |-> a]]

LEMMA ReserveFacts ==
  ASSUME ThrottleInv, NEW r \in Requests, Reserve(r)
  PROVE  \E i \in Identities, a \in Ips, t \in 1 .. MaxTime : Reserved(r, i, a, t)
<1> DEFINE q == requests[r]
           touched == {Key(d, q.identity, q.ip) : d \in Walk(buckets, q.identity, q.ip, q.time)}
<1>1. /\ q.identity \in Identities /\ q.ip \in Ips /\ q.time \in 1 .. MaxTime
      /\ q.time <= now /\ now <= q.time + MaxWait
  BY DEF Reserve, ThrottleInv, TypeOK, Punctual
<1>2. Walk(buckets, q.identity, q.ip, q.time) \subseteq Dimensions
  BY DEF Walk, Dimensions
<1>3. touched \subseteq Keys
  BY <1>1, <1>2, KeyFacts
<1>4. /\ buckets' = [k \in Keys |-> IF k \in touched
                                    THEN Upsert(buckets[k], Limit[k[1]], q.time) ELSE buckets[k]]
      /\ ledger' = [k \in Keys |->
           IF k \notin touched THEN ledger[k]
           ELSE LET fresh == Restarts(buckets[k], q.time)
                IN  [counted  |-> (IF fresh THEN {} ELSE ledger[k].counted) \cup {r},
                     forgiven |-> IF fresh THEN 0 ELSE ledger[k].forgiven,
                     sources  |-> (IF buckets[k].present THEN ledger[k].sources ELSE {})
                                  \cup {<<q.identity, q.ip>>}]]
      /\ now' = now
  BY DEF Reserve
<1>5. \A k \in touched : Counted(k, r, q.time, <<q.identity, q.ip>>)
  BY <1>3, <1>4 DEF Counted
<1>6. \A k \in Keys \ touched : Kept(k)
  BY <1>4 DEF Kept
<1>7. buckets' = [k \in Keys |-> buckets'[k]] /\ ledger' = [k \in Keys |-> ledger'[k]]
  BY <1>4
<1>8. \/ requests' = [requests EXCEPT ![r] = [pc |-> "over"]]
      \/ requests' = [requests EXCEPT ![r] =
                        [pc |-> "admitted", identity |-> q.identity, ip |-> q.ip]]
  BY DEF Reserve
<1> QED
  BY <1>1, <1>4, <1>5, <1>6, <1>7, <1>8 DEF Reserved

(***************************************************************************)
(* The rows and their histories, step by step.                             *)
(***************************************************************************)
\* What is to hold of one row.
RowSound(k) ==
  /\ buckets[k] \in Bucket /\ ledger[k] \in Ledger
  /\ IF buckets[k].present THEN ledger[k].sources # {} /\ buckets[k].started <= now
     ELSE buckets[k] = NoBucket /\ ledger[k].sources = {}
  /\ IsFiniteSet(ledger[k].counted) /\ IsFiniteSet(ledger[k].sources)
  /\ \A i \in Identities, a \in Ips : <<i, a>> \in ledger[k].sources => k = Key(k[1], i, a)
  /\ buckets[k].attempts + ledger[k].forgiven >= Cardinality(ledger[k].counted)

LEMMA RowByRow ==
  ASSUME ThrottleInv, NEW k \in Keys
  PROVE  RowSound(k)
BY DEF ThrottleInv, TypeOK, RowsSound, FailuresAreCounted, RowSound

LEMMA RowsTogether ==
  ASSUME TypeOK', Punctual', \A k \in Keys : RowSound(k)'
  PROVE  ThrottleInv'
BY DEF ThrottleInv, RowsSound, FailuresAreCounted, RowSound

LEMMA CountedSound ==
  ASSUME ThrottleInv, NEW d \in Dimensions, NEW i \in Identities, NEW a \in Ips,
         NEW r \in Requests, NEW t \in 1 .. MaxTime, t <= now, now' = now,
         Counted(Key(d, i, a), r, t, <<i, a>>)
  PROVE  RowSound(Key(d, i, a))'
<1> DEFINE k == Key(d, i, a)
           b == buckets[k]
           fresh == Restarts(b, t)
           before == IF fresh THEN {} ELSE ledger[k].counted
           known == IF b.present THEN ledger[k].sources ELSE {}
<1>1. k \in Keys /\ k[1] = d /\ Limit[d] \in Nat /\ t \in Nat /\ now \in Nat
  BY KeyFacts, AuthThrottleAssumption DEF ThrottleInv, TypeOK
<1>2. RowSound(k)
  BY <1>1, RowByRow
<1>3. /\ buckets'[k] = Upsert(b, Limit[d], t)
      /\ ledger'[k] = [counted  |-> before \cup {r},
                       forgiven |-> IF fresh THEN 0 ELSE ledger[k].forgiven,
                       sources  |-> known \cup {<<i, a>>}]
  BY <1>1 DEF Counted
<1>4. buckets'[k] \in Bucket
  BY <1>1, <1>2, <1>3, UpsertType DEF RowSound
<1>5. /\ buckets'[k].present /\ buckets'[k].started <= now
      /\ buckets'[k].attempts = IF fresh THEN 1 ELSE b.attempts + 1
  BY <1>1, <1>2, <1>3 DEF Upsert, Restarts, RowSound
<1>6. ledger'[k] \in Ledger
  BY <1>2, <1>3 DEF RowSound, Ledger
<1>7. /\ IsFiniteSet(before) /\ IsFiniteSet(known)
      /\ IsFiniteSet(before \cup {r}) /\ IsFiniteSet(known \cup {<<i, a>>})
      /\ Cardinality(before) \in Nat
      /\ Cardinality(before \cup {r}) <= Cardinality(before) + 1
  <2>1. IsFiniteSet(before) /\ IsFiniteSet(known)
    BY <1>2, FS_EmptySet DEF RowSound
  <2> HIDE DEF before, known
  <2>2. Cardinality(before) \in Nat
    BY <2>1, FS_CardinalityType
  <2>3. /\ IsFiniteSet(before \cup {r})
        /\ Cardinality(before \cup {r}) =
             IF r \in before THEN Cardinality(before) ELSE Cardinality(before) + 1
    BY <2>1, FS_AddElement
  <2>4. IsFiniteSet(known \cup {<<i, a>>})
    BY <2>1, FS_AddElement
  <2> QED
    BY <2>1, <2>2, <2>3, <2>4
<1>8. \A j \in Identities, c \in Ips :
        <<j, c>> \in known \cup {<<i, a>>} => k = Key(k[1], j, c)
  BY <1>1, <1>2 DEF RowSound
<1>9. buckets'[k].attempts + ledger'[k].forgiven >= Cardinality(before \cup {r})
  <2>1. CASE fresh
    <3>1. Cardinality(before) = 0
      BY <2>1, FS_EmptySet
    <3> QED
      BY <1>3, <1>5, <1>7, <2>1, <3>1
  <2>2. CASE ~fresh
    <3>1. b.attempts + ledger[k].forgiven >= Cardinality(before)
      BY <1>2, <2>2 DEF RowSound
    <3>2. b.attempts \in Nat /\ ledger[k].forgiven \in Nat
      BY <1>2 DEF RowSound, Bucket, Ledger
    <3>3. /\ buckets'[k].attempts = b.attempts + 1
          /\ ledger'[k].forgiven = ledger[k].forgiven
      BY <1>3, <1>5, <2>2
    <3>4. Cardinality(before \cup {r}) \in Nat
      BY <1>7, FS_CardinalityType
    <3> HIDE DEF before, b
    <3> QED
      BY <1>7, <3>1, <3>2, <3>3, <3>4
  <2> QED
    BY <2>1, <2>2
<1> HIDE DEF before, known, fresh, b
<1> QED
  BY <1>1, <1>3, <1>4, <1>5, <1>6, <1>7, <1>8, <1>9 DEF RowSound

LEMMA KeptSound ==
  ASSUME ThrottleInv, NEW k \in Keys, Kept(k), now' \in Nat, now <= now'
  PROVE  RowSound(k)'
<1>1. RowSound(k) /\ now \in Nat
  BY RowByRow DEF ThrottleInv, TypeOK
<1>2. buckets[k].started \in Nat
  BY <1>1 DEF RowSound, Bucket
<1> QED
  BY <1>1, <1>2 DEF RowSound, Kept

LEMMA ReserveStep ==
  ASSUME ThrottleInv, NEW r \in Requests, Reserve(r)
  PROVE  ThrottleInv'
<1>1. PICK i \in Identities, a \in Ips, t \in 1 .. MaxTime : Reserved(r, i, a, t)
  BY ReserveFacts
<1>2. now \in Nat /\ Walk(buckets, i, a, t) \subseteq Dimensions
  BY DEF ThrottleInv, TypeOK, Walk, Dimensions
<1>3. ASSUME NEW k \in Keys PROVE RowSound(k)'
  <2>1. CASE \E d \in Walk(buckets, i, a, t) : k = Key(d, i, a)
    BY <1>1, <1>2, <2>1, CountedSound DEF Reserved
  <2>2. CASE \A d \in Walk(buckets, i, a, t) : k # Key(d, i, a)
    BY <1>1, <1>2, <2>2, KeptSound DEF Reserved
  <2> QED
    BY <2>1, <2>2
<1>4. buckets' \in [Keys -> Bucket] /\ ledger' \in [Keys -> Ledger]
  BY <1>1, <1>3 DEF Reserved, RowSound
<1>5. TypeOK' /\ Punctual'
  BY <1>1, <1>4 DEF Reserved, ThrottleInv, TypeOK, Punctual
<1> QED
  BY <1>3, <1>5, RowsTogether

LEMMA EnterStep ==
  ASSUME ThrottleInv, NEW r \in Requests, Enter(r)
  PROVE  ThrottleInv'
<1>1. PICK i \in Identities, a \in Ips :
        requests' = [requests EXCEPT ![r] =
          [pc |-> "entered", identity |-> i, ip |-> a, time |-> now]]
  BY DEF Enter
<1>2. UNCHANGED <<now, buckets, ledger>> /\ now \in Nat
  BY DEF Enter, ThrottleInv, TypeOK
<1>3. TypeOK'
  BY <1>1, <1>2 DEF ThrottleInv, TypeOK
<1>4. Punctual'
  BY <1>1, <1>2, AuthThrottleAssumption DEF ThrottleInv, TypeOK, Punctual
<1> QED
  BY <1>2, <1>3, <1>4, KeptSound, RowsTogether DEF Kept

LEMMA TickStep ==
  ASSUME ThrottleInv, Tick
  PROVE  ThrottleInv'
<1>1. /\ now \in Nat /\ now' = now + 1 /\ now' \in 1 .. MaxTime
      /\ UNCHANGED <<buckets, requests, ledger>>
  BY AuthThrottleAssumption DEF Tick, ThrottleInv, TypeOK
<1>2. TypeOK'
  BY <1>1 DEF ThrottleInv, TypeOK
<1>3. Punctual'
  BY <1>1, AuthThrottleAssumption DEF Tick, ThrottleInv, TypeOK, Punctual
<1> QED
  BY <1>1, <1>2, <1>3, KeptSound, RowsTogether DEF Kept

LEMMA CleanupFacts ==
  ASSUME ThrottleInv, Cleanup
  PROVE  /\ \A k \in Keys :
              \/ Kept(k)
              \/ Stale(buckets[k]) /\ buckets'[k] = NoBucket /\ ledger'[k] = NoLedger
         /\ buckets' = [k \in Keys |-> buckets'[k]] /\ ledger' = [k \in Keys |-> ledger'[k]]
         /\ UNCHANGED <<now, requests>>
<1>1. PICK batch \in SUBSET {k \in Keys : Stale(buckets[k])} :
        /\ buckets' = [k \in Keys |-> IF k \in batch THEN NoBucket ELSE buckets[k]]
        /\ ledger' = [k \in Keys |-> IF k \in batch THEN NoLedger ELSE ledger[k]]
        /\ UNCHANGED <<now, requests>>
  BY DEF Cleanup
<1> QED
  BY <1>1 DEF Kept

LEMMA CleanupStep ==
  ASSUME ThrottleInv, Cleanup
  PROVE  ThrottleInv'
<1>1. now \in Nat /\ UNCHANGED <<now, requests>>
  BY CleanupFacts DEF ThrottleInv, TypeOK
<1>2. ASSUME NEW k \in Keys PROVE RowSound(k)'
  <2>1. CASE Kept(k)
    BY <1>1, <2>1, KeptSound
  <2>2. CASE buckets'[k] = NoBucket /\ ledger'[k] = NoLedger
    <3>1. NoBucket \in Bucket /\ NoLedger \in Ledger
      BY DEF NoBucket, Bucket, NoLedger, Ledger
    <3> QED
      BY <2>2, <3>1, FS_EmptySet DEF RowSound, NoBucket, NoLedger
  <2> QED
    BY <2>1, <2>2, CleanupFacts
<1>3. buckets' \in [Keys -> Bucket] /\ ledger' \in [Keys -> Ledger]
  BY <1>2, CleanupFacts DEF RowSound
<1>4. TypeOK' /\ Punctual'
  BY <1>1, <1>3 DEF ThrottleInv, TypeOK, Punctual
<1> QED
  BY <1>2, <1>4, RowsTogether

\* Where release() finds an attempt to take, it takes one.
Returned(r, i, a) ==
  /\ \A k \in Keys : (\A d \in Dimensions : k # Key(d, i, a)) => Kept(k)
  /\ \A d \in Dimensions :
       LET k == Key(d, i, a) IN
       IF buckets[k].present
       THEN /\ buckets'[k] = Released(buckets[k])
            /\ ledger'[k] = IF r \in ledger[k].counted
                            THEN [ledger[k] EXCEPT !.counted = @ \ {r}]
                            ELSE [ledger[k] EXCEPT !.forgiven = @ + 1]
       ELSE Kept(k)
  /\ buckets' = [k \in Keys |-> buckets'[k]] /\ ledger' = [k \in Keys |-> ledger'[k]]
  /\ now' = now /\ requests' = [requests EXCEPT ![r] = [pc |-> "over"]]

LEMMA ReleaseFacts ==
  ASSUME ThrottleInv, NEW r \in Requests, Release(r)
  PROVE  \E i \in Identities, a \in Ips : Returned(r, i, a)
<1> DEFINE i == requests[r].identity
           a == requests[r].ip
<1>1. i \in Identities /\ a \in Ips
  BY DEF Release, ThrottleInv, TypeOK
<1>2. Mine(r) = {Key(d, i, a) : d \in Dimensions} /\ Mine(r) \subseteq Keys
  BY <1>1, KeyFacts DEF Mine
<1>3. /\ buckets' = [k \in Keys |-> IF k \in Mine(r) /\ buckets[k].present
                                    THEN Released(buckets[k]) ELSE buckets[k]]
      /\ ledger' = [k \in Keys |->
           IF k \in Mine(r) /\ buckets[k].present
           THEN IF r \in ledger[k].counted
                THEN [ledger[k] EXCEPT !.counted = @ \ {r}]
                ELSE [ledger[k] EXCEPT !.forgiven = @ + 1]
           ELSE ledger[k]]
      /\ now' = now /\ requests' = [requests EXCEPT ![r] = [pc |-> "over"]]
  BY DEF Release
<1>4. \A k \in Keys : k \notin Mine(r) => Kept(k)
  BY <1>3 DEF Kept
<1>5. \A k \in Mine(r) :
        IF buckets[k].present
        THEN /\ buckets'[k] = Released(buckets[k])
             /\ ledger'[k] = IF r \in ledger[k].counted
                             THEN [ledger[k] EXCEPT !.counted = @ \ {r}]
                             ELSE [ledger[k] EXCEPT !.forgiven = @ + 1]
        ELSE Kept(k)
  BY <1>2, <1>3 DEF Kept
<1>6. buckets' = [k \in Keys |-> buckets'[k]] /\ ledger' = [k \in Keys |-> ledger'[k]]
  BY <1>3
<1> HIDE DEF i, a
<1> QED
  BY <1>1, <1>2, <1>3, <1>4, <1>5, <1>6 DEF Returned

LEMMA ReleaseStep ==
  ASSUME ThrottleInv, NEW r \in Requests, Release(r)
  PROVE  ThrottleInv'
<1>1. PICK i \in Identities, a \in Ips : Returned(r, i, a)
  BY ReleaseFacts
<1>2. now \in Nat
  BY DEF ThrottleInv, TypeOK
<1>3. ASSUME NEW d \in Dimensions, buckets[Key(d, i, a)].present PROVE RowSound(Key(d, i, a))'
  <2> DEFINE k == Key(d, i, a)
             b == buckets[k]
             l == ledger[k]
  <2>1. RowSound(k) /\ buckets'[k] = Released(b) /\ b \in Bucket /\ l \in Ledger
    BY <1>1, <1>3, KeyFacts, RowByRow DEF Returned, RowSound
  <2>2. /\ buckets'[k] \in Bucket /\ buckets'[k].present /\ buckets'[k].started = b.started
        /\ buckets'[k].attempts = IF b.attempts > 0 THEN b.attempts - 1 ELSE 0
    BY <1>3, <2>1, ReleasedType
  <2>3. /\ ledger'[k] \in Ledger /\ ledger'[k].sources = l.sources
        /\ IF r \in l.counted
           THEN ledger'[k].counted = l.counted \ {r} /\ ledger'[k].forgiven = l.forgiven
           ELSE ledger'[k].counted = l.counted /\ ledger'[k].forgiven = l.forgiven + 1
    <3>1. ledger'[k] = IF r \in l.counted THEN [l EXCEPT !.counted = @ \ {r}]
                                          ELSE [l EXCEPT !.forgiven = @ + 1]
      BY <1>1, <1>3 DEF Returned
    <3> HIDE DEF l
    <3> QED
      BY <2>1, <3>1 DEF Ledger
  <2>4. /\ IsFiniteSet(l.counted) /\ IsFiniteSet(l.counted \ {r})
        /\ Cardinality(l.counted) \in Nat /\ Cardinality(l.counted \ {r}) \in Nat
        /\ r \in l.counted => Cardinality(l.counted \ {r}) = Cardinality(l.counted) - 1
    <3>1. IsFiniteSet(l.counted)
      BY <2>1 DEF RowSound
    <3> HIDE DEF l
    <3> QED
      BY <3>1, FS_RemoveElement, FS_CardinalityType
  <2>5. b.attempts \in Nat /\ l.forgiven \in Nat
    BY <2>1 DEF Bucket, Ledger
  <2>6. buckets'[k].attempts + ledger'[k].forgiven >= Cardinality(ledger'[k].counted)
    <3>1. b.attempts + l.forgiven >= Cardinality(l.counted)
      BY <2>1 DEF RowSound
    <3> HIDE DEF b, l, k
    <3>2. CASE r \in l.counted
      <4>1. /\ Cardinality(ledger'[k].counted) = Cardinality(l.counted) - 1
            /\ ledger'[k].forgiven = l.forgiven
        BY <2>3, <2>4, <3>2
      <4> QED
        BY <2>2, <2>4, <2>5, <3>1, <4>1
    <3>3. CASE r \notin l.counted
      BY <2>2, <2>3, <2>4, <2>5, <3>1, <3>3
    <3> QED
      BY <3>2, <3>3
  <2>7. IsFiniteSet(ledger'[k].counted)
    BY <2>3, <2>4
  <2> QED
    BY <1>1, <1>3, <2>1, <2>2, <2>3, <2>6, <2>7 DEF Returned, RowSound
<1>4. ASSUME NEW k \in Keys PROVE RowSound(k)'
  <2>1. CASE \E d \in Dimensions : k = Key(d, i, a) /\ buckets[k].present
    BY <1>3, <2>1
  <2>2. CASE Kept(k)
    BY <1>1, <1>2, <2>2, KeptSound DEF Returned
  <2> QED
    BY <1>1, <2>1, <2>2 DEF Returned
<1>5. buckets' \in [Keys -> Bucket] /\ ledger' \in [Keys -> Ledger]
  BY <1>1, <1>4 DEF Returned, RowSound
<1>6. TypeOK' /\ Punctual'
  BY <1>1, <1>5 DEF Returned, ThrottleInv, TypeOK, Punctual
<1> QED
  BY <1>4, <1>6, RowsTogether

LEMMA ThrottleStep ==
  ASSUME ThrottleInv, [Next]_vars
  PROVE  ThrottleInv'
<1>1. CASE UNCHANGED vars
  BY <1>1 DEF vars, ThrottleInv, TypeOK, Punctual, RowsSound, FailuresAreCounted, Ledger
<1> QED
  BY <1>1, EnterStep, ReserveStep, ReleaseStep, CleanupStep, TickStep DEF Next

(***************************************************************************)
(* One row behind its pair.                                                *)
(***************************************************************************)
\* What the limits and the times must be: a pair may pass twice in a window of
\* a wider row, and nobody waits longer for a row lock than half a block.
Settings ==
  /\ \A d \in Dimensions \ {"pair"} : Limit[d] > 2 * Passable
  /\ 2 * MaxWait <= Block

\* What y keeps of x, and what it adds.
Upserted(x, limit, t, y) ==
  /\ y \in Bucket /\ y.present /\ y.expires = t + Window + Block
  /\ y.blocked >= x.blocked
  /\ IF Restarts(x, t) THEN y.attempts = 1 /\ y.started = t
     ELSE /\ x.present /\ x.started + Window >= t
          /\ y.attempts = x.attempts + 1 /\ y.started = x.started
  /\ IF y.attempts >= limit THEN y.blocked >= t + Block ELSE y.blocked = x.blocked

LEMMA UpsertFacts ==
  ASSUME NEW x \in Bucket, NEW limit \in Nat, NEW t \in Nat
  PROVE  Upserted(x, limit, t, Upsert(x, limit, t))
<1>1. Upsert(x, limit, t) \in Bucket
  BY UpsertType
<1>2. Window \in Nat /\ Block \in Nat /\ x.blocked \in Nat /\ x.started \in Nat
  BY AuthThrottleAssumption DEF Bucket
<1> QED
  BY <1>1, <1>2 DEF Upserted, Upsert, Restarts

\* Attempts that pass the pair and are counted by the row.
LEMMA FedPassing ==
  ASSUME Settings, now \in Nat, NEW t \in Nat, t <= now, now <= t + MaxWait,
         NEW b \in Bucket, NEW p \in Bucket, NEW e \in Bucket,
         IF b.present THEN Fed(b, p, e) /\ b.started <= now ELSE b.blocked = 0,
         NEW q, q = Upsert(p, Limit["pair"], t), q.blocked <= t, e.blocked <= t,
         NEW limit \in Nat, limit > 2 * Passable,
         NEW c, c = Upsert(b, limit, t)
  PROVE  /\ c.blocked = 0 /\ c.attempts <= 2 * Passable
         /\ q.expires + MaxWait >= c.started + Window + Block
         /\ FirstWindow(c, q) \/ SecondWindow(c, q)
<1>1. /\ Limit["pair"] \in Nat \ {0} /\ Passable \in Nat
      /\ Window \in Nat \ {0} /\ Block \in Nat \ {0} /\ MaxWait \in Nat
  BY AuthThrottleAssumption DEF Dimensions, Passable
<1>2. /\ q \in Bucket /\ q.present /\ q.expires = t + Window + Block /\ q.blocked >= p.blocked
      /\ IF Restarts(p, t) THEN q.attempts = 1 /\ q.started = t
         ELSE /\ p.present /\ p.started + Window >= t
              /\ q.attempts = p.attempts + 1 /\ q.started = p.started
      /\ q.attempts >= Limit["pair"] => q.blocked >= t + Block
  <2>1. Upserted(p, Limit["pair"], t, q)
    BY <1>1, UpsertFacts
  <2> QED
    BY <2>1 DEF Upserted
<1>3. /\ c \in Bucket
      /\ IF Restarts(b, t) THEN c.attempts = 1 /\ c.started = t
         ELSE /\ b.present /\ b.started + Window >= t
              /\ c.attempts = b.attempts + 1 /\ c.started = b.started
      /\ c.attempts < limit => c.blocked = b.blocked
  <2>1. Upserted(b, limit, t, c)
    BY UpsertFacts
  <2> QED
    BY <2>1 DEF Upserted, Bucket
<1>4. /\ q.attempts \in Nat /\ q.started \in Nat /\ q.blocked \in Nat
      /\ p.attempts \in Nat /\ p.started \in Nat /\ p.blocked \in Nat /\ e.blocked \in Nat
      /\ b.attempts \in Nat /\ b.started \in Nat /\ c.attempts \in Nat /\ c.started \in Nat
  BY <1>2, <1>3 DEF Bucket
<1>5. q.attempts <= Passable /\ q.attempts >= 1
  BY <1>1, <1>2, <1>4 DEF Passable
<1>6. q.started + Window >= t
  BY <1>1, <1>2, <1>4
<1>7. CASE Restarts(b, t)
  <2>1. FirstWindow(c, q) /\ c.attempts <= 2 * Passable
    BY <1>1, <1>2, <1>3, <1>4, <1>5, <1>6, <1>7 DEF FirstWindow
  <2>2. c.blocked = 0
    BY <1>1, <1>3, <1>4, <2>1 DEF Fed
  <2> QED
    BY <1>1, <1>2, <1>3, <1>4, <1>7, <2>1, <2>2
<1>8. CASE ~Restarts(b, t)
  <2>1. b.present /\ b.started + Window >= t /\ c.attempts = b.attempts + 1 /\ c.started = b.started
    BY <1>3, <1>8
  <2>2. Fed(b, p, e) /\ b.started <= now
    BY <2>1
  <2>3. ~Shut(b, p) /\ ~Shut(b, e) /\ ~(now > b.started + Window + MaxWait)
    BY <1>1, <1>2, <1>4, <2>1 DEF Shut
  <2>4. FirstWindow(b, p) \/ SecondWindow(b, p)
    BY <2>2, <2>3 DEF Fed
  <2>5. FirstWindow(c, q) \/ SecondWindow(c, q)
    <3>1. CASE Restarts(p, t)
      <4>1. p.present => p.started + Window < t
        BY <3>1 DEF Restarts
      <4>2. FirstWindow(b, p)
        BY <1>1, <1>4, <2>1, <2>4, <4>1 DEF SecondWindow
      <4> QED
        BY <1>1, <1>2, <1>4, <1>5, <2>1, <3>1, <4>1, <4>2 DEF FirstWindow, SecondWindow
    <3>2. CASE ~Restarts(p, t)
      BY <1>1, <1>2, <1>4, <1>5, <2>1, <2>4, <3>2 DEF FirstWindow, SecondWindow
    <3> QED
      BY <3>1, <3>2
  <2>6. c.attempts <= 2 * Passable
    BY <1>1, <1>4, <1>5, <2>5 DEF FirstWindow, SecondWindow
  <2>7. c.blocked = 0
    BY <1>3, <1>4, <1>1, <2>2, <2>6 DEF Fed
  <2>8. q.expires + MaxWait >= c.started + Window + Block
    BY <1>1, <1>2, <1>4, <2>1, <2>2
  <2> QED
    BY <2>5, <2>6, <2>7, <2>8
<1> QED
  BY <1>7, <1>8

\* Attempts that are stopped in front of the row, at the pair or behind it.
LEMMA FedWaiting ==
  ASSUME Settings, now \in Nat, NEW t \in Nat, t <= now, now <= t + MaxWait,
         NEW b \in Bucket, NEW p \in Bucket, NEW e, NEW f,
         Fed(b, p, e), b.started <= now,
         Shut(b, e) => Shut(b, f),
         NEW q, q = Upsert(p, Limit["pair"], t),
         q.blocked > t \/ (f.present /\ f.blocked > t /\ f.expires = t + Window + Block),
         f.blocked \in Nat
  PROVE  Fed(b, q, f)
<1>1. /\ Limit["pair"] \in Nat \ {0} /\ Passable \in Nat
      /\ Window \in Nat \ {0} /\ Block \in Nat \ {0} /\ MaxWait \in Nat
  BY AuthThrottleAssumption DEF Dimensions, Passable
<1>2. /\ q \in Bucket /\ q.present /\ q.expires = t + Window + Block /\ q.blocked >= p.blocked
      /\ IF Restarts(p, t) THEN q.attempts = 1 /\ q.started = t
         ELSE /\ p.present /\ p.started + Window >= t
              /\ q.attempts = p.attempts + 1 /\ q.started = p.started
  <2>1. Upserted(p, Limit["pair"], t, q)
    BY <1>1, UpsertFacts
  <2> QED
    BY <2>1 DEF Upserted
<1>3. /\ q.attempts \in Nat /\ q.started \in Nat /\ q.blocked \in Nat
      /\ p.attempts \in Nat /\ p.started \in Nat /\ p.blocked \in Nat
      /\ b.attempts \in Nat /\ b.started \in Nat
  BY <1>2 DEF Bucket
<1>4. q.expires + MaxWait >= b.started + Window + Block
  BY <1>1, <1>2, <1>3
<1>5. ASSUME FirstWindow(b, p) \/ SecondWindow(b, p)
      PROVE  FirstWindow(b, q) \/ SecondWindow(b, q) \/ Shut(b, q) \/ Shut(b, f)
  <2>1. CASE ~Restarts(p, t)
    BY <1>1, <1>2, <1>3, <1>5, <2>1 DEF FirstWindow, SecondWindow
  <2>2. CASE Restarts(p, t)
    <3>1. p.started + Window < t /\ q.started = t /\ q.attempts = 1
      BY <1>2, <1>5, <2>2 DEF Restarts, FirstWindow, SecondWindow
    <3>2. CASE FirstWindow(b, p)
      BY <1>1, <1>2, <1>3, <3>1, <3>2 DEF FirstWindow, SecondWindow
    <3>3. CASE SecondWindow(b, p)
      <4>1. t > b.started + Window
        BY <1>1, <1>3, <3>1, <3>3 DEF SecondWindow
      <4>2. CASE q.blocked > t
        BY <1>1, <1>2, <1>3, <1>4, <4>1, <4>2 DEF Shut
      <4>3. CASE f.present /\ f.blocked > t /\ f.expires = t + Window + Block
        BY <1>1, <1>2, <1>3, <1>4, <4>1, <4>3 DEF Shut
      <4> QED
        BY <4>2, <4>3
    <3> QED
      BY <1>5, <3>2, <3>3
  <2> QED
    BY <2>1, <2>2
<1>6. Shut(b, p) => Shut(b, q)
  BY <1>1, <1>2, <1>3, <1>4 DEF Shut
<1> QED
  BY <1>4, <1>5, <1>6 DEF Fed

\* The row, or the row and its pair, give an attempt back; or nothing happens to
\* either.
LEMMA FedReleased ==
  ASSUME NEW b \in Bucket, NEW c \in Bucket, NEW p \in Bucket, NEW q \in Bucket, NEW e, NEW f,
         Fed(b, p, e), Shut(b, e) => Shut(b, f),
         c.blocked = b.blocked, c.started = b.started,
         q.present = p.present, q.blocked = p.blocked,
         q.started = p.started, q.expires = p.expires,
         \/ c.attempts <= b.attempts /\ q.attempts = p.attempts
         \/ /\ c.attempts = IF b.attempts > 0 THEN b.attempts - 1 ELSE 0
            /\ q.attempts = IF p.attempts > 0 THEN p.attempts - 1 ELSE 0
  PROVE  Fed(c, q, f)
<1>1. Passable \in Nat
  BY AuthThrottleAssumption DEF Dimensions, Passable
<1>2. /\ c.attempts \in Nat /\ b.attempts \in Nat /\ p.attempts \in Nat /\ q.attempts \in Nat
      /\ c.attempts <= b.attempts
  BY DEF Bucket
<1>3. c.blocked = 0 /\ c.attempts <= 2 * Passable
  BY <1>1, <1>2 DEF Fed
<1>4. q.present => q.expires + MaxWait >= c.started + Window + Block
  BY DEF Fed
<1>5. FirstWindow(b, p) => FirstWindow(c, q)
  BY <1>1, <1>2 DEF FirstWindow
<1>6. SecondWindow(b, p) => SecondWindow(c, q)
  BY <1>1, <1>2 DEF SecondWindow
<1>7. (Shut(b, p) => Shut(c, q)) /\ (Shut(b, f) => Shut(c, f))
  BY DEF Shut
<1> QED
  BY <1>3, <1>4, <1>5, <1>6, <1>7 DEF Fed

\* Rows in front of it are swept.
LEMMA FedSwept ==
  ASSUME Settings, now \in Nat, NEW b \in Bucket, NEW p \in Bucket, NEW e \in Bucket, NEW q, NEW f,
         Fed(b, p, e), ~p.present => q = p,
         q = p \/ (q = NoBucket /\ Stale(p)), f = e \/ (f = NoBucket /\ Stale(e))
  PROVE  Fed(b, q, f)
<1>1. /\ Window \in Nat /\ Block \in Nat /\ MaxWait \in Nat
      /\ b.started \in Nat /\ p.expires \in Nat /\ e.expires \in Nat
  BY AuthThrottleAssumption DEF Bucket
<1>2. CASE Stale(p) /\ q = NoBucket
  <2>1. now > b.started + Window + MaxWait
    BY <1>1, <1>2 DEF Settings, Stale, Fed
  <2> QED
    BY <1>2, <2>1 DEF Fed, NoBucket
<1>3. CASE q = p /\ Stale(e) /\ Shut(b, e)
  <2>1. now > b.started + Window + MaxWait
    BY <1>1, <1>3 DEF Settings, Stale, Shut
  <2> QED
    BY <1>3, <2>1 DEF Fed
<1>4. CASE q = p /\ (f = e \/ ~Shut(b, e))
  BY <1>4 DEF Fed
<1> QED
  BY <1>2, <1>3, <1>4

(***************************************************************************)
(* All the rows, step by step.                                             *)
(***************************************************************************)
PairOf(i, a) == Key("pair", i, a)
IdentityOf(i, a) == Key("identity", i, a)

\* A row fed by one pair alone.
Alone(k, i, a) == k[1] # "pair" /\ ledger[k].sources = {<<i, a>>}

LEMMA AloneFacts ==
  ASSUME ThrottleInv, NEW k \in Keys, NEW i \in Identities, NEW a \in Ips, Alone(k, i, a)
  PROVE  /\ k = Key(k[1], i, a) /\ k[1] \in Dimensions \ {"pair"}
         /\ buckets[k].present /\ buckets[k].started <= now
<1>1. RowSound(k) /\ <<i, a>> \in ledger[k].sources
  BY RowByRow DEF Alone
<1> QED
  BY <1>1, KeyFacts DEF RowSound, Alone

LEMMA BucketsTyped ==
  ASSUME ThrottleInv, NEW i \in Identities, NEW a \in Ips
  PROVE  /\ PairOf(i, a) \in Keys /\ IdentityOf(i, a) \in Keys
         /\ buckets[PairOf(i, a)] \in Bucket /\ buckets[IdentityOf(i, a)] \in Bucket
BY KeyFacts DEF PairOf, IdentityOf, Dimensions, ThrottleInv, TypeOK

LEMMA WalkFacts ==
  ASSUME NEW bs, NEW i, NEW a, NEW t
  PROVE  LET Blocks(d) == Upsert(bs[Key(d, i, a)], Limit[d], t).blocked > t IN
         /\ "pair" \in Walk(bs, i, a, t)
         /\ "identity" \in Walk(bs, i, a, t) <=> ~Blocks("pair")
         /\ "ip" \in Walk(bs, i, a, t) <=> ~Blocks("pair") /\ ~Blocks("identity")
BY DEF Walk

\* The gate of the identity stays shut whoever comes.
LEMMA StaysShut ==
  ASSUME Settings, ThrottleInv, NEW d \in Dimensions, NEW i \in Identities, NEW a \in Ips,
         NEW r, NEW t \in 1 .. MaxTime, now <= t + MaxWait, NEW src,
         Counted(Key(d, i, a), r, t, src), NEW b \in Bucket, b.started <= now,
         Shut(b, buckets[Key(d, i, a)])
  PROVE  Shut(b, buckets'[Key(d, i, a)])
<1> DEFINE x == buckets[Key(d, i, a)]
           y == buckets'[Key(d, i, a)]
<1>1. x \in Bucket /\ now \in Nat /\ t \in Nat /\ Limit[d] \in Nat
  BY KeyFacts, AuthThrottleAssumption DEF ThrottleInv, TypeOK
<1>2. y = Upsert(x, Limit[d], t)
  BY KeyFacts DEF Counted
<1>3. Upserted(x, Limit[d], t, y)
  BY <1>1, <1>2, UpsertFacts
<1>4. Window \in Nat /\ Block \in Nat /\ MaxWait \in Nat
  BY AuthThrottleAssumption
<1>5. y \in Bucket /\ y.present /\ y.expires = t + Window + Block /\ y.blocked >= x.blocked
  BY <1>3 DEF Upserted
<1> HIDE DEF x, y
<1>6. Shut(b, x)
  BY DEF x
<1>7. Shut(b, y)
  BY <1>1, <1>4, <1>5, <1>6 DEF Shut, Bucket
<1> QED
  BY <1>7 DEF y

LEMMA SpreadReserve ==
  ASSUME Settings, ThrottleInv, SpreadInv, NEW r \in Requests, Reserve(r)
  PROVE  SpreadInv'
<1>0. PICK i \in Identities, a \in Ips, t \in 1 .. MaxTime : Reserved(r, i, a, t)
  BY ReserveFacts
<1>1. /\ t <= now /\ now <= t + MaxWait
      /\ \A d \in Walk(buckets, i, a, t) : Counted(Key(d, i, a), r, t, <<i, a>>)
      /\ \A k \in Keys : (\A d \in Walk(buckets, i, a, t) : k # Key(d, i, a)) => Kept(k)
      /\ now' = now
  BY <1>0 DEF Reserved
<1>2. ThrottleInv' /\ now \in Nat /\ t \in Nat
  BY ReserveStep DEF ThrottleInv, TypeOK
<1>3. Walk(buckets, i, a, t) \subseteq Dimensions
  BY DEF Walk, Dimensions
<1> SUFFICES ASSUME NEW k \in Keys, NEW j \in Identities, NEW c \in Ips, Alone(k, j, c)'
             PROVE  Fed(buckets[k], buckets[PairOf(j, c)], buckets[IdentityOf(j, c)])'
  BY DEF SpreadInv, Alone, PairOf, IdentityOf
<1> DEFINE b == buckets[k]
           p == buckets[PairOf(j, c)]
           e == buckets[IdentityOf(j, c)]
           q == buckets'[PairOf(j, c)]
           f == buckets'[IdentityOf(j, c)]
<1>4. k = Key(k[1], j, c) /\ k[1] \in Dimensions \ {"pair"}
  <2>1. RowSound(k)'
    BY <1>2 DEF ThrottleInv, TypeOK, RowsSound, FailuresAreCounted, RowSound
  <2>2. <<j, c>> \in ledger'[k].sources /\ k[1] # "pair"
    BY DEF Alone
  <2> QED
    BY <2>1, <2>2, KeyFacts DEF RowSound
<1>5. b \in Bucket /\ p \in Bucket /\ e \in Bucket /\ q \in Bucket /\ f \in Bucket
  BY <1>2, BucketsTyped DEF ThrottleInv, TypeOK
<1>6. Kept(k) => Alone(k, j, c) /\ b.present /\ b.started <= now /\ Fed(b, p, e)
  BY AloneFacts DEF Alone, Kept, SpreadInv, PairOf, IdentityOf
<1>7. Shut(b, e) /\ b.started <= now => Shut(b, f)
  <2>1. CASE \E d \in Walk(buckets, i, a, t) : IdentityOf(j, c) = Key(d, i, a)
    BY <1>1, <1>3, <1>5, <2>1, StaysShut
  <2>2. CASE \A d \in Walk(buckets, i, a, t) : IdentityOf(j, c) # Key(d, i, a)
    <3>1. f = e
      BY <1>1, <2>2, BucketsTyped DEF Kept
    <3> QED
      BY <3>1
  <2> QED
    BY <2>1, <2>2
<1>8. CASE j = i /\ c = a
  <2>1. /\ q = Upsert(p, Limit["pair"], t)
        /\ k[1] \in Walk(buckets, i, a, t) =>
             /\ buckets'[k] = Upsert(b, Limit[k[1]], t) /\ q.blocked <= t
             /\ Counted(k, r, t, <<i, a>>)
    <3>1. Counted(PairOf(j, c), r, t, <<i, a>>) /\ PairOf(j, c)[1] = "pair"
      BY <1>1, <1>8, WalkFacts, KeyFacts DEF PairOf, Dimensions
    <3>2. q = Upsert(p, Limit["pair"], t)
      BY <3>1 DEF Counted
    <3>3. q.blocked \in Nat
      BY <1>5 DEF Bucket
    <3>4. k[1] \in Walk(buckets, i, a, t) => ~(q.blocked > t)
      BY <1>4, <1>8, <3>2, WalkFacts DEF Dimensions, PairOf
    <3> QED
      BY <1>1, <1>2, <1>4, <1>8, <3>2, <3>3, <3>4 DEF Counted
  <2>2. CASE k[1] \in Walk(buckets, i, a, t)
    <3>1. IF b.present THEN Fed(b, p, e) /\ b.started <= now ELSE b.blocked = 0
      <4>1. CASE b.present
        <5>1. Alone(k, j, c)
          BY <2>1, <2>2, <4>1, RowByRow, <1>8 DEF Alone, Counted, RowSound
        <5> QED
          BY <4>1, <5>1, AloneFacts DEF SpreadInv, Alone, PairOf, IdentityOf
      <4>2. CASE ~b.present
        BY <4>2, RowByRow DEF RowSound, NoBucket
      <4> QED
        BY <4>1, <4>2
    <3>2. e.blocked <= t
      <4>1. CASE k[1] = "identity"
        <5>1. e = b
          BY <1>4, <4>1 DEF IdentityOf
        <5>2. b.blocked = 0
          BY <3>1 DEF Fed
        <5> QED
          BY <1>2, <5>1, <5>2
      <4>2. CASE k[1] = "ip"
        <5>1. Upserted(e, Limit["identity"], t, Upsert(e, Limit["identity"], t))
          BY <1>2, <1>5, UpsertFacts, AuthThrottleAssumption DEF Dimensions
        <5>2. ~(Upsert(e, Limit["identity"], t).blocked > t)
          BY <1>8, <2>2, <4>2, WalkFacts DEF IdentityOf
        <5> QED
          BY <1>2, <1>5, <5>1, <5>2 DEF Upserted, Bucket
      <4> QED
        BY <1>4, <4>1, <4>2 DEF Dimensions
    <3>3. Limit[k[1]] \in Nat /\ Limit[k[1]] > 2 * Passable
      BY <1>4, AuthThrottleAssumption DEF Settings
    <3>4. /\ buckets'[k].blocked = 0 /\ buckets'[k].attempts <= 2 * Passable
          /\ q.expires + MaxWait >= buckets'[k].started + Window + Block
          /\ FirstWindow(buckets'[k], q) \/ SecondWindow(buckets'[k], q)
      <4> DEFINE new == buckets'[k]
                 limit == Limit[k[1]]
      <4>1. new = Upsert(b, limit, t) /\ q = Upsert(p, Limit["pair"], t) /\ q.blocked <= t
        BY <2>1, <2>2
      <4>2. limit \in Nat /\ limit > 2 * Passable
        BY <3>3
      <4> HIDE DEF new, limit, b, p, e, q
      <4>3. /\ new.blocked = 0 /\ new.attempts <= 2 * Passable
            /\ q.expires + MaxWait >= new.started + Window + Block
            /\ FirstWindow(new, q) \/ SecondWindow(new, q)
        BY <1>1, <1>2, <1>5, <3>1, <3>2, <4>1, <4>2, FedPassing
      <4> QED
        BY <4>3 DEF new
    <3> QED
      BY <3>4 DEF Fed, FirstWindow, SecondWindow
  <2>3. CASE k[1] \notin Walk(buckets, i, a, t)
    <3>1. Kept(k)
      BY <1>1, <1>3, <1>4, <2>3, KeyFacts
    <3>2. q.blocked > t \/ (f.present /\ f.blocked > t /\ f.expires = t + Window + Block)
      <4>1. CASE ~(q.blocked > t)
        <5>1. "identity" \in Walk(buckets, i, a, t)
          BY <1>8, <2>1, <4>1, WalkFacts DEF PairOf
        <5>2. f = Upsert(e, Limit["identity"], t)
          BY <1>1, <1>8, <5>1, KeyFacts DEF Counted, IdentityOf, Dimensions
        <5>3. k[1] = "ip"
          BY <1>4, <2>3, <5>1 DEF Dimensions
        <5>4. f.blocked > t
          BY <1>8, <2>1, <2>3, <4>1, <5>2, <5>3, WalkFacts DEF PairOf, IdentityOf
        <5>5. Upserted(e, Limit["identity"], t, f)
          BY <1>2, <1>5, <5>2, UpsertFacts, AuthThrottleAssumption DEF Dimensions
        <5> QED
          BY <5>4, <5>5 DEF Upserted
      <4> QED
        BY <4>1
    <3>3. f.blocked \in Nat /\ Fed(b, p, e) /\ b.started <= now /\ (Shut(b, e) => Shut(b, f))
      BY <1>5, <1>6, <1>7, <3>1 DEF Bucket
    <3>4. Fed(b, q, f)
      <4> HIDE DEF b, p, e, q, f
      <4> QED
        BY <1>1, <1>2, <1>5, <2>1, <3>2, <3>3, FedWaiting
    <3> QED
      BY <1>1, <3>1, <3>4 DEF Kept, Fed, FirstWindow, SecondWindow, Shut
  <2> QED
    BY <2>2, <2>3
<1>9. CASE ~(j = i /\ c = a)
  <2>1. Kept(k)
    <3>1. ASSUME NEW d \in Walk(buckets, i, a, t), k = Key(d, i, a) PROVE FALSE
      <4>1. <<i, a>> \in ledger'[k].sources
        <5>1. Counted(k, r, t, <<i, a>>)
          BY <1>1, <3>1
        <5>2. ledger'[k].sources =
                (IF buckets[k].present THEN ledger[k].sources ELSE {}) \cup {<<i, a>>}
          BY <5>1 DEF Counted
        <5> QED
          BY <5>2
      <4> QED
        BY <1>9, <4>1 DEF Alone
    <3> QED
      BY <1>1, <3>1
  <2>2. q = p
    <3>1. PairOf(j, c) = <<"pair", j, c>>
      BY DEF PairOf, Key
    <3>2. \A d \in Dimensions : PairOf(j, c) # Key(d, i, a)
      <4>1. \A d \in Dimensions \ {"pair"} : PairOf(j, c) # Key(d, i, a)
        BY KeyFacts DEF PairOf, Dimensions
      <4>2. Key("pair", i, a) = <<"pair", i, a>>
        BY DEF Key
      <4> QED
        BY <1>9, <3>1, <4>1, <4>2
    <3> QED
      BY <1>1, <1>3, <3>2, BucketsTyped DEF Kept
  <2>3. Fed(b, p, e) /\ (Shut(b, e) => Shut(b, f))
    BY <1>6, <1>7, <2>1
  <2>4. Fed(b, q, f)
    BY <2>2, <2>3 DEF Fed
  <2> QED
    BY <1>1, <2>1, <2>4 DEF Kept, Fed, FirstWindow, SecondWindow, Shut
<1> QED
  BY <1>8, <1>9

\* What release() does to a row, and to the one of the pair if it is in front.
LEMMA SpreadRelease ==
  ASSUME Settings, ThrottleInv, SpreadInv, NEW r \in Requests, Release(r)
  PROVE  SpreadInv'
<1>1. PICK i \in Identities, a \in Ips : Returned(r, i, a)
  BY ReleaseFacts
<1>2. ThrottleInv' /\ now' = now
  BY <1>1, ReleaseStep DEF Returned
<1>3. ASSUME NEW k \in Keys
      PROVE  /\ ledger'[k].sources = ledger[k].sources
             /\ \/ Kept(k)
                \/ /\ buckets[k].present /\ buckets'[k] = Released(buckets[k])
                   /\ \E d \in Dimensions : k = Key(d, i, a)
  <2>1. CASE \E d \in Dimensions : k = Key(d, i, a) /\ buckets[k].present
    <3>1. buckets'[k] = Released(buckets[k])
      BY <1>1, <2>1 DEF Returned
    <3>2. \/ ledger'[k] = [ledger[k] EXCEPT !.counted = @ \ {r}]
          \/ ledger'[k] = [ledger[k] EXCEPT !.forgiven = @ + 1]
      BY <1>1, <2>1 DEF Returned
    <3>3. ledger[k] \in Ledger
      BY DEF ThrottleInv, TypeOK
    <3>4. ledger'[k].sources = ledger[k].sources
      BY <3>2, <3>3 DEF Ledger
    <3> QED
      BY <2>1, <3>1, <3>4
  <2>2. CASE Kept(k)
    BY <2>2 DEF Kept
  <2> QED
    BY <1>1, <2>1, <2>2 DEF Returned
<1> SUFFICES ASSUME NEW k \in Keys, NEW j \in Identities, NEW c \in Ips, Alone(k, j, c)'
             PROVE  Fed(buckets[k], buckets[PairOf(j, c)], buckets[IdentityOf(j, c)])'
  BY DEF SpreadInv, Alone, PairOf, IdentityOf
<1> DEFINE b == buckets[k]
           p == buckets[PairOf(j, c)]
           e == buckets[IdentityOf(j, c)]
           new == buckets'[k]
           q == buckets'[PairOf(j, c)]
           f == buckets'[IdentityOf(j, c)]
<1>4. /\ b \in Bucket /\ p \in Bucket /\ e \in Bucket
      /\ new \in Bucket /\ q \in Bucket /\ f \in Bucket
  BY <1>2, BucketsTyped DEF ThrottleInv, TypeOK
<1>5. Alone(k, j, c) /\ Fed(b, p, e)
  BY <1>3 DEF Alone, SpreadInv, PairOf, IdentityOf
<1>6. k = Key(k[1], j, c) /\ b.present /\ k[1] \in Dimensions
  BY <1>5, AloneFacts
<1>7. \A x \in Bucket : /\ Released(x).present = x.present /\ Released(x).started = x.started
                        /\ Released(x).blocked = x.blocked /\ Released(x).expires = x.expires
                        /\ Released(x).attempts = IF x.attempts > 0 THEN x.attempts - 1 ELSE 0
  BY ReleasedType
<1>8. Shut(b, e) => Shut(b, f)
  <2>1. f = e \/ f = Released(e)
    BY <1>3, BucketsTyped DEF Kept
  <2> QED
    BY <1>4, <1>7, <2>1 DEF Shut
<1>9. /\ new.blocked = b.blocked /\ new.started = b.started
      /\ q.present = p.present /\ q.blocked = p.blocked
      /\ q.started = p.started /\ q.expires = p.expires
  <2>1. (new = b \/ new = Released(b)) /\ (q = p \/ q = Released(p))
    BY <1>3, BucketsTyped DEF Kept
  <2> QED
    BY <1>4, <1>7, <2>1
<1>10. \/ new.attempts <= b.attempts /\ q.attempts = p.attempts
       \/ /\ new.attempts = IF b.attempts > 0 THEN b.attempts - 1 ELSE 0
          /\ q.attempts = IF p.attempts > 0 THEN p.attempts - 1 ELSE 0
  <2>1. CASE q = p
    <3>1. new = b \/ new = Released(b)
      BY <1>3 DEF Kept
    <3>2. b.attempts \in Nat
      BY <1>4 DEF Bucket
    <3> QED
      BY <1>4, <1>7, <2>1, <3>1, <3>2
  <2>2. CASE q # p
    <3>1. q = Released(p) /\ \E d \in Dimensions : PairOf(j, c) = Key(d, i, a)
      BY <1>3, <2>2, BucketsTyped DEF Kept
    <3>2. PairOf(j, c) = Key("pair", i, a)
      BY <3>1, KeyFacts DEF PairOf, Dimensions
    <3>3. j = i /\ c = a
      BY <3>2 DEF PairOf, Key
    <3>4. new = Released(b)
      BY <1>1, <1>6, <3>3 DEF Returned
    <3> QED
      BY <1>4, <1>7, <3>1, <3>4
  <2> QED
    BY <2>1, <2>2
<1>11. Fed(new, q, f)
  <2> HIDE DEF b, p, e, new, q, f
  <2> QED
    BY <1>4, <1>5, <1>8, <1>9, <1>10, FedReleased
<1> QED
  BY <1>2, <1>11 DEF Fed, FirstWindow, SecondWindow, Shut

LEMMA SpreadCleanup ==
  ASSUME Settings, ThrottleInv, SpreadInv, Cleanup
  PROVE  SpreadInv'
<1>1. /\ \A k \in Keys : \/ Kept(k)
                         \/ /\ Stale(buckets[k])
                            /\ buckets'[k] = NoBucket /\ ledger'[k] = NoLedger
      /\ now' = now /\ now \in Nat
  BY CleanupFacts DEF ThrottleInv, TypeOK
<1> SUFFICES ASSUME NEW k \in Keys, NEW j \in Identities, NEW c \in Ips, Alone(k, j, c)'
             PROVE  Fed(buckets[k], buckets[PairOf(j, c)], buckets[IdentityOf(j, c)])'
  BY DEF SpreadInv, Alone, PairOf, IdentityOf
<1> DEFINE b == buckets[k]
           p == buckets[PairOf(j, c)]
           e == buckets[IdentityOf(j, c)]
           q == buckets'[PairOf(j, c)]
           f == buckets'[IdentityOf(j, c)]
<1>2. Kept(k)
  <2>1. <<j, c>> \in ledger'[k].sources
    BY DEF Alone
  <2>2. NoLedger.sources = {}
    BY DEF NoLedger
  <2> QED
    BY <1>1, <2>1, <2>2
<1>3. Fed(b, p, e) /\ b \in Bucket /\ p \in Bucket /\ e \in Bucket
  BY <1>2, BucketsTyped DEF Kept, Alone, SpreadInv, PairOf, IdentityOf, ThrottleInv, TypeOK
<1>4. (q = p \/ (q = NoBucket /\ Stale(p))) /\ (f = e \/ (f = NoBucket /\ Stale(e)))
  BY <1>1, BucketsTyped DEF Kept
<1>5. ~p.present => q = p
  BY <1>4 DEF Stale
<1>6. Fed(b, q, f)
  <2> HIDE DEF b, p, e, q, f
  <2> QED
    BY <1>1, <1>3, <1>4, <1>5, FedSwept
<1> QED
  BY <1>1, <1>2, <1>6 DEF Kept, Fed, FirstWindow, SecondWindow, Shut

LEMMA SpreadQuiet ==
  ASSUME ThrottleInv, SpreadInv, UNCHANGED <<buckets, ledger>>, now' = now \/ Tick
  PROVE  SpreadInv'
<1>1. now \in Nat /\ now' >= now /\ now' \in Nat
  BY DEF ThrottleInv, TypeOK, Tick
<1>2. ASSUME NEW b \in Bucket, NEW p, NEW e, Fed(b, p, e)
      PROVE  /\ b.blocked = 0 /\ b.attempts <= 2 * Passable
             /\ p.present => p.expires + MaxWait >= b.started + Window + Block
             /\ \/ FirstWindow(b, p) \/ SecondWindow(b, p) \/ Shut(b, p) \/ Shut(b, e)
                \/ now' > b.started + Window + MaxWait
  BY <1>1, <1>2, AuthThrottleAssumption DEF Fed, Bucket
<1> SUFFICES ASSUME NEW k \in Keys, NEW j \in Identities, NEW c \in Ips, Alone(k, j, c)
             PROVE  Fed(buckets[k], buckets[PairOf(j, c)], buckets[IdentityOf(j, c)])'
  BY DEF SpreadInv, Alone, PairOf, IdentityOf
<1>3. /\ buckets[k] \in Bucket
      /\ Fed(buckets[k], buckets[PairOf(j, c)], buckets[IdentityOf(j, c)])
  BY DEF ThrottleInv, TypeOK, SpreadInv, Alone, PairOf, IdentityOf
<1> QED
  BY <1>2, <1>3 DEF Fed, FirstWindow, SecondWindow, Shut

LEMMA SpreadStep ==
  ASSUME Settings, ThrottleInv, SpreadInv, [Next]_vars
  PROVE  SpreadInv'
<1>1. ASSUME NEW r \in Requests, Enter(r) PROVE SpreadInv'
  BY <1>1, SpreadQuiet DEF Enter
<1>2. CASE Tick
  BY <1>2, SpreadQuiet DEF Tick
<1>3. CASE UNCHANGED vars
  BY <1>3, SpreadQuiet DEF vars
<1> QED
  BY <1>1, <1>2, <1>3, SpreadReserve, SpreadRelease, SpreadCleanup DEF Next

(***************************************************************************)
(* The theorems.                                                           *)
(***************************************************************************)
\* The types, the moments and the rows are as they should be in every
\* reachable state.
THEOREM Throttling == Spec => []ThrottleInv
BY ThrottleInit, ThrottleStep, PTL DEF Spec

\* No failed attempt is forgotten while its window lasts, but for what the
\* releases of an earlier window take (auth_throttle.py:206-217).
THEOREM FailuresCount == Spec => []FailuresAreCounted
<1>1. ThrottleInv => FailuresAreCounted
  BY DEF ThrottleInv
<1> QED
  BY <1>1, Throttling, PTL

\* A running block is neither shortened nor swept, in whatever order late
\* requests get to their rows (auth_throttle.py:136-142, 227-231).
THEOREM BlocksAreKept == Spec => BlockIsKept
<1> DEFINE Goal == \A k \in Keys :
                     buckets[k].blocked >= now => buckets'[k].blocked >= buckets[k].blocked
<1>1. ASSUME ThrottleInv, Next PROVE Goal
  <2>1. \A k \in Keys : buckets[k].blocked \in Nat /\ now \in Nat
    BY <1>1 DEF ThrottleInv, TypeOK, Bucket
  <2>2. ASSUME NEW r \in Requests, Reserve(r) PROVE Goal
    <3>1. PICK i \in Identities, a \in Ips, t \in 1 .. MaxTime : Reserved(r, i, a, t)
      BY <1>1, <2>2, ReserveFacts
    <3>2. ASSUME NEW d \in Walk(buckets, i, a, t)
          PROVE  buckets'[Key(d, i, a)].blocked >= buckets[Key(d, i, a)].blocked
      <4>1. d \in Dimensions /\ t \in Nat /\ Limit[d] \in Nat
        BY <3>2, AuthThrottleAssumption DEF Walk, Dimensions
      <4>2. buckets[Key(d, i, a)] \in Bucket /\ Key(d, i, a)[1] = d
        BY <1>1, <4>1, KeyFacts DEF ThrottleInv, TypeOK
      <4>3. Upserted(buckets[Key(d, i, a)], Limit[d], t, buckets'[Key(d, i, a)])
        <5>1. buckets'[Key(d, i, a)] = Upsert(buckets[Key(d, i, a)], Limit[d], t)
          BY <3>1, <3>2, <4>2 DEF Reserved, Counted
        <5> QED
          BY <4>1, <4>2, <5>1, UpsertFacts
      <4> QED
        BY <4>3 DEF Upserted
    <3> QED
      BY <2>1, <3>1, <3>2 DEF Reserved, Kept
  <2>3. ASSUME NEW r \in Requests, Release(r) PROVE Goal
    <3>1. PICK i \in Identities, a \in Ips : Returned(r, i, a)
      BY <1>1, <2>3, ReleaseFacts
    <3>2. \A k \in Keys : buckets'[k] = buckets[k] \/ buckets'[k] = Released(buckets[k])
      BY <3>1 DEF Returned, Kept
    <3>3. \A k \in Keys : Released(buckets[k]).blocked = buckets[k].blocked
      BY <1>1, ReleasedType DEF ThrottleInv, TypeOK
    <3> QED
      BY <2>1, <3>2, <3>3
  <2>4. CASE Cleanup
    BY <1>1, <2>1, <2>4, CleanupFacts DEF Kept, Stale
  <2>5. CASE UNCHANGED buckets
    BY <2>1, <2>5
  <2> QED
    BY <1>1, <2>2, <2>3, <2>4, <2>5 DEF Next, Enter, Tick
<1>2. ThrottleInv /\ [Next]_vars => [Goal]_vars
  BY <1>1
<1> QED
  BY <1>2, Throttling, PTL DEF Spec, BlockIsKept

\* Whoever comes from one address alone never locks an e-mail address, nor
\* whoever tries one e-mail alone an address: provided that the wider limits
\* are more than twice what a pair lets pass, since the windows of the two rows
\* are not the same, and that no request waits half a block for its rows
\* (auth_throttle.py:167-173).
THEOREM LocksNeedSpread == ASSUME Settings PROVE Spec => []LockNeedsSpread
<1> DEFINE Inv == ThrottleInv /\ SpreadInv
<1>1. Init => Inv
  <2>1. Init => SpreadInv
    <3>1. Init => \A k \in Keys : ledger[k].sources = {}
      BY DEF Init, NoLedger
    <3>2. \A i, a : {<<i, a>>} # {}
      OBVIOUS
    <3> QED
      BY <3>1, <3>2 DEF SpreadInv
  <2> QED
    BY <2>1, ThrottleInit
<1>2. Inv /\ [Next]_vars => Inv'
  BY ThrottleStep, SpreadStep
<1>3. Inv => LockNeedsSpread
  <2> SUFFICES ASSUME Inv, NEW k \in Keys, k[1] # "pair", buckets[k].blocked > 0
               PROVE  Cardinality(ledger[k].sources) > 1
    BY DEF LockNeedsSpread
  <2> DEFINE S == ledger[k].sources
  <2>1. RowSound(k)
    BY RowByRow
  <2>2. S # {} /\ IsFiniteSet(S) /\ S \subseteq Identities \X Ips
    BY <2>1 DEF RowSound, NoBucket, Ledger
  <2>3. \A x : S # {x}
    <3>1. ASSUME NEW x, S = {x} PROVE FALSE
      <4>1. PICK i \in Identities, a \in Ips : x = <<i, a>>
        BY <2>2, <3>1
      <4>2. buckets[k].blocked = 0
        BY <3>1, <4>1 DEF SpreadInv, Fed
      <4> QED
        BY <4>2
    <3> QED
      BY <3>1
  <2> HIDE DEF S
  <2>4. Cardinality(S) \in Nat /\ Cardinality(S) # 0 /\ Cardinality(S) # 1
    BY <2>2, <2>3, FS_CardinalityType, FS_EmptySet, FS_Singleton
  <2> QED
    BY <2>4 DEF S
<1> QED
  BY <1>1, <1>2, <1>3, PTL DEF Spec

=============================================================================
