---------------------------- MODULE ApiSyncProofs ----------------------------
(***************************************************************************)
(* What ApiSync promises of listings of any length, budgets of any size    *)
(* and any number of changes, crashes and days.                            *)
(***************************************************************************)
EXTENDS ApiSync, FiniteSetTheorems, WellFoundedInduction, SequenceTheorems, TLAPS

(***************************************************************************)
(* The inductive invariant.                                                *)
(***************************************************************************)
\* A feed in hand is one of the connection's, and "running" from its head on.
PassSound ==
  /\ pass.pc # "idle" => pass.k \in DOMAIN feeds
  /\ pass.pc \in {"asking", "answered"} => state[Feed].status = "running"

KeysDiffer == \A i, j \in Items : i # j => shop[i].key # shop[j].key

\* The walk has yet to meet what comes after the cursor, and the page in hand.
\* The coverage remembers what the walk dropped.
TokenWalk ==
  LET cursor == state["listing"].cursor
      page == pass.page
  IN
  /\ cursor # 0 =>
       /\ \A i \in walk.due : shop[i].key > cursor
       /\ walk.dropped => coverage.skipped
  /\ pass.pc = "answered" /\ Feed = "listing" =>
       /\ \A i \in walk.due \ {page.item} : page.next # 0 /\ shop[i].key > page.next
       /\ cursor = 0 => ~walk.dropped

\* Coverage is written with the page that earns it.
WalkInv ==
  /\ \A i \in walk.due : shop[i].row \in Evidence
  /\ Paging = "offset" => ~coverage.complete
  /\ "listing" \in FeedSet =>
       /\ Paging = "token" => TokenWalk
       /\ coverage.complete /\ ~coverage.skipped => walk.whole

SyncInv == TypeOK /\ PassSound /\ KeysDiffer /\ WalkInv /\ HistoryIsKept
(***************************************************************************)
(* The operators.                                                          *)
(***************************************************************************)
LEMMA LeastOf ==
  ASSUME NEW S, S \subseteq Nat, S # {}
  PROVE  \E m \in S : \A n \in S : m <= n
<1>1. PICK m \in S : \A n \in S : <<n, m>> \notin OpToRel(<, Nat)
  BY WFMin, NatLessThanWellFounded, Zenon
<1>2. \A n \in S : ~(n < m)
  BY <1>1, Zenon DEF OpToRel
<1> QED
  BY <1>2, SMT

LEMMA Bounded ==
  ASSUME NEW N \in Nat, NEW f \in [1 .. N -> Nat]
  PROVE  \E b \in Nat : \A i \in 1 .. N : f[i] <= b
<1> DEFINE Bound(n, b) == \A i \in 1 .. n : f[i] <= b
           S == {n \in Nat : n <= N /\ \A b \in Nat : ~Bound(n, b)}
<1>1. SUFFICES ASSUME \A b \in Nat : ~Bound(N, b) PROVE FALSE
  OBVIOUS
<1>2. N \in S /\ S \subseteq Nat
  <2>1. N <= N
    OBVIOUS
  <2> QED
    BY <1>1, <2>1, Zenon
<1>3. PICK m \in S : \A n \in S : m <= n
  BY <1>2, LeastOf
<1>4. m \in Nat /\ m <= N /\ ~Bound(m, 0)
  BY <1>3
<1>5. m - 1 \in Nat /\ ~(m <= m - 1)
  BY <1>4
<1>6. PICK b \in Nat : Bound(m - 1, b)
  <2>1. m - 1 \notin S
    BY <1>3, <1>5
  <2>2. m - 1 <= N
    BY <1>4
  <2> QED
    BY <1>5, <2>1, <2>2, Zenon
<1>7. f[m] \in Nat
  BY <1>4, <1>5
<1>8. \A i \in 1 .. m : f[i] <= b + f[m]
  <2> TAKE i \in 1 .. m
  <2>1. f[i] \in Nat
    BY <1>4
  <2>2. i = m \/ i \in 1 .. m - 1
    BY <1>4
  <2> QED
    BY <1>6, <1>7, <2>1, <2>2
<1>9. ~Bound(m, b + f[m])
  <2>1. b + f[m] \in Nat
    BY <1>7
  <2> QED
    BY <1>3, <2>1, Zenon
<1> QED
  BY <1>8, <1>9

LEMMA GreatestOf ==
  ASSUME NEW S, S \subseteq Nat, S # {}, NEW b \in Nat, \A n \in S : n <= b
  PROVE  Greatest(S) \in S /\ \A n \in S : n <= Greatest(S)
<1> DEFINE Above == {u \in Nat : \A n \in S : n <= u}
<1>1. PICK u \in Above : \A v \in Above : u <= v
  BY LeastOf
<1>2. u \in S
  <2> SUFFICES ASSUME u \notin S PROVE FALSE
    OBVIOUS
  <2>1. \A n \in S : n < u /\ n \in Nat
    BY <1>1
  <2>2. u \in Nat /\ u > 0
    <3>1. PICK n \in S : TRUE
      OBVIOUS
    <3> QED
      BY <1>1, <2>1, <3>1
  <2>3. u - 1 \in Above /\ ~(u <= u - 1)
    BY <2>1, <2>2
  <2> QED
    BY <1>1, <2>3
<1> QED
  BY <1>1, <1>2 DEF Greatest

\* The last place of the listing.
LEMMA LastKey ==
  ASSUME TypeOK, NEW i \in Items
  PROVE  /\ Greatest({shop[j].key : j \in Items}) \in Nat \ {0}
         /\ \A k \in Items : shop[k].key <= Greatest({shop[j].key : j \in Items})
<1> DEFINE S == {shop[j].key : j \in Items}
           f == [j \in Items |-> shop[j].key]
<1>1. Items = 1 .. Cardinality(Items) /\ Cardinality(Items) \in Nat
  BY ApiSyncAssumption, FS_CardinalityType
<1>2. \A j \in Items : shop[j].key \in Nat \ {0}
  BY DEF TypeOK
<1>3. PICK b \in Nat : \A j \in Items : f[j] <= b
  <2>1. f \in [1 .. Cardinality(Items) -> Nat]
    BY <1>1, <1>2
  <2> QED
    BY <1>1, <2>1, Bounded
<1>4. S \subseteq Nat \ {0} /\ shop[i].key \in S /\ \A n \in S : n <= b
  BY <1>2, <1>3
<1>5. Greatest(S) \in S /\ \A n \in S : n <= Greatest(S)
  BY <1>4, GreatestOf
<1> QED
  BY <1>4, <1>5

\* The first offer of what is left of a listing.
LEMMA FirstOf ==
  ASSUME TypeOK, KeysDiffer, NEW S, S \subseteq Items, S # {}
  PROVE  First(S) \in S /\ \A j \in S \ {First(S)} : shop[First(S)].key < shop[j].key
<1> DEFINE K == {shop[j].key : j \in S}
<1>1. \A j \in Items : shop[j].key \in Nat
  BY DEF TypeOK
<1>2. PICK k \in K : \A n \in K : k <= n
  BY <1>1, LeastOf
<1>3. PICK i \in S : \A j \in S : shop[i].key <= shop[j].key
  BY <1>2
<1>4. First(S) \in S /\ \A j \in S : shop[First(S)].key <= shop[j].key
  BY <1>3 DEF First
<1> QED
  BY <1>1, <1>4 DEF KeysDiffer

LEMMA PageType ==
  ASSUME TypeOK, KeysDiffer, NEW cursor \in Nat
  PROVE  ListingPage(cursor) \in [item : Items \cup {0}, evidence : Rows, next : Nat]
<1> DEFINE rest == After(cursor)
<1>1. rest \subseteq Items
  BY DEF After, Listed
<1>2. CASE rest = {}
  BY <1>2 DEF ListingPage, NoPage, Rows
<1>3. CASE rest # {}
  <2>1. First(rest) \in Items
    BY <1>1, <1>3, FirstOf
  <2>2. shop[First(rest)].row \in Rows /\ shop[First(rest)].key \in Nat
    BY <2>1 DEF TypeOK
  <2> QED
    BY <1>3, <2>1, <2>2 DEF ListingPage
<1> QED
  BY <1>2, <1>3

(***************************************************************************)
(* Types, and the feed in hand.                                            *)
(***************************************************************************)
LEMMA FeedsAre == ASSUME TypeOK PROVE Len(feeds) \in Nat \ {0} /\ DOMAIN feeds = 1 .. Len(feeds)
<1>1. feeds \in Seq(DataTypes) /\ feeds # <<>>
  BY ApiSyncAssumption DEF TypeOK
<1> QED
  BY <1>1, EmptySeq, LenProperties

LEMMA IdleIsPass ==
  ASSUME TypeOK, NEW k \in DOMAIN feeds
  PROVE  Idle \in Pass /\ [Idle EXCEPT !.pc = "loop", !.k = k] \in Pass
<1>1. 0 \in 0 .. MaxPages - 1
  BY ApiSyncAssumption
<1> QED
  BY <1>1 DEF Idle, Pass, NoPage, Rows

LEMMA OnwardIsPass ==
  ASSUME TypeOK, pass.k \in DOMAIN feeds
  PROVE  /\ Onward \in Pass
         /\ Onward.pc \in {"idle", "loop"}
         /\ Onward.pc # "idle" => Onward.k \in DOMAIN feeds
<1>1. CASE pass.k < Len(feeds)
  <2>1. pass.k + 1 \in DOMAIN feeds
    BY <1>1, FeedsAre
  <2> QED
    BY <1>1, <2>1, IdleIsPass DEF Onward, Idle
<1>2. CASE ~(pass.k < Len(feeds))
  BY <1>2, IdleIsPass DEF Onward, Idle
<1> QED
  BY <1>1, <1>2

LEMMA FeedInHand ==
  ASSUME TypeOK, PassSound, pass.pc # "idle"
  PROVE  pass.k \in DOMAIN feeds /\ Feed \in FeedSet
BY DEF PassSound, Feed, FeedSet

\* A row of api_sync_states with another cursor.
LEMMA CursorSet ==
  ASSUME TypeOK, NEW f \in FeedSet, NEW c \in Nat, NEW t \in Nat
  PROVE  /\ [state EXCEPT ![f].cursor = c] \in [FeedSet -> State]
         /\ [state EXCEPT ![f].cursor = c, ![f].tokens = t] \in [FeedSet -> State]
<1>1. state \in [FeedSet -> State] /\ state[f] \in State
  BY DEF TypeOK
<1>2. [state[f] EXCEPT !.cursor = c] \in State
  BY <1>1 DEF State
<1>3. [state[f] EXCEPT !.cursor = c, !.tokens = t] \in State
  BY <1>1 DEF State
<1>4. [state EXCEPT ![f].cursor = c] = [state EXCEPT ![f] = [state[f] EXCEPT !.cursor = c]]
  BY <1>1
<1>5. [state EXCEPT ![f].cursor = c, ![f].tokens = t]
        = [state EXCEPT ![f] = [state[f] EXCEPT !.cursor = c, !.tokens = t]]
  <2>1. [state EXCEPT ![f].cursor = c, ![f].tokens = t]
          = [[state EXCEPT ![f].cursor = c] EXCEPT ![f].tokens = t]
    OBVIOUS
  <2>2. [state[f] EXCEPT !.cursor = c, !.tokens = t]
          = [[state[f] EXCEPT !.cursor = c] EXCEPT !.tokens = t]
    OBVIOUS
  <2> QED
    BY <1>1, <1>4, <2>1, <2>2
<1> QED
  BY <1>1, <1>2, <1>3, <1>4, <1>5

LEMMA SyncInit == Init => SyncInv
<1> SUFFICES ASSUME Init PROVE SyncInv
  OBVIOUS
<1>1. Items \subseteq Nat \ {0}
  BY ApiSyncAssumption, FS_CardinalityType
<1>2. /\ 0 \in 0 .. MaxPages - 1 /\ 1 \in 1 .. MaxDay
      /\ 0 \in 0 .. MaxChanges /\ 0 \in 0 .. MaxCrashes
  BY ApiSyncAssumption
<1>3. TypeOK
  <2>1. shop \in [Items -> [row : Rows, key : Nat \ {0}]]
    BY <1>1, ApiSyncAssumption DEF Init, Rows
  <2>2. pass \in Pass
    BY <1>2 DEF Init, Idle, Pass, NoPage, Rows
  <2>3. <<>> \in Seq(Version)
    BY EmptySeq
  <2>4. state \in [FeedSet -> State]
    BY DEF Init, State
  <2>5. /\ walk \in [due : SUBSET Items, dropped : BOOLEAN, whole : BOOLEAN]
        /\ versions \in [Items -> Seq(Version)] /\ story \in [Items -> Seq(Version)]
        /\ coverage \in [complete : BOOLEAN, skipped : BOOLEAN]
    BY <2>3 DEF Init
  <2>6. /\ feeds \in Plans /\ written \subseteq Items
        /\ mapped \in BOOLEAN /\ lost \in BOOLEAN
        /\ today \in 1 .. MaxDay /\ changes \in 0 .. MaxChanges /\ crashes \in 0 .. MaxCrashes
    <3>1. /\ feeds \in Plans /\ written = {} /\ mapped = TRUE /\ lost = FALSE
          /\ today = 1 /\ changes = 0 /\ crashes = 0
      BY Zenon DEF Init
    <3> QED
      BY <1>2, <3>1, Zenon
  <2> QED
    BY <2>1, <2>2, <2>4, <2>5, <2>6 DEF TypeOK
<1>4. PassSound /\ KeysDiffer
  BY DEF Init, PassSound, KeysDiffer, Idle
<1>5. WalkInv
  BY DEF Init, WalkInv, TokenWalk, Idle
<1>6. HistoryIsKept
  <2> SUFFICES Keeps(<<>>, <<>>)
    BY DEF Init, HistoryIsKept
  <2>1. DOMAIN <<>> = {} /\ <<>> \in [{} -> {}]
    OBVIOUS
  <2> QED
    BY <2>1 DEF Keeps
<1> QED
  BY <1>3, <1>4, <1>5, <1>6 DEF SyncInv

\* A batch of retention removes one superseded version.
LEMMA Removed ==
  ASSUME NEW S, NEW s \in Seq(S), NEW n \in 1 .. Len(s)
  PROVE  LET r == SubSeq(s, 1, n - 1) \o SubSeq(s, n + 1, Len(s)) IN
         /\ r \in Seq(S) /\ Len(r) = Len(s) - 1
         /\ \A m \in 1 .. Len(s) - 1 : r[m] = IF m < n THEN s[m] ELSE s[m + 1]
<1> DEFINE a == SubSeq(s, 1, n - 1)
           b == SubSeq(s, n + 1, Len(s))
<1>0. Len(s) \in Nat /\ \A i \in 1 .. Len(s) : s[i] \in S
  BY LenProperties, ElementOfSeq
<1>1. /\ a \in Seq(S) /\ Len(a) = n - 1
      /\ \A i \in 1 .. n - 1 : a[i] = s[i]
  <2>1. \A i \in 1 .. n - 1 : s[i] \in S
    BY <1>0
  <2> QED
    BY <1>0, <2>1, SubSeqProperties
<1>2. /\ b \in Seq(S) /\ Len(b) = Len(s) - n
      /\ \A i \in 1 .. Len(s) - n : b[i] = s[n + i]
  <2>1. \A i \in n + 1 .. Len(s) : s[i] \in S
    BY <1>0
  <2>2. Len(s) - (n + 1) + 1 = Len(s) - n /\ n + 1 \in Int /\ Len(s) \in Int
    BY <1>0
  <2>3. /\ b \in Seq(S)
        /\ Len(b) = IF n + 1 <= Len(s) THEN Len(s) - (n + 1) + 1 ELSE 0
        /\ \A i \in 1 .. Len(s) - (n + 1) + 1 : b[i] = s[n + 1 + i - 1]
    BY <2>1, <2>2, SubSeqProperties
  <2> QED
    BY <1>0, <2>3
<1> HIDE DEF a, b
<1>3. /\ a \o b \in Seq(S) /\ Len(a \o b) = Len(a) + Len(b)
      /\ \A i \in 1 .. Len(a) + Len(b) :
           (a \o b)[i] = IF i <= Len(a) THEN a[i] ELSE b[i - Len(a)]
  BY <1>1, <1>2, ConcatProperties
<1>4. Len(a) + Len(b) = Len(s) - 1
  BY <1>0, <1>1, <1>2
<1>5. ASSUME NEW m \in 1 .. Len(s) - 1
      PROVE  (a \o b)[m] = IF m < n THEN s[m] ELSE s[m + 1]
  <2>1. CASE m < n
    BY <1>0, <1>1, <1>3, <1>4, <2>1
  <2>2. CASE ~(m < n)
    <3>1. m - (n - 1) \in 1 .. Len(s) - n /\ n + (m - (n - 1)) = m + 1
      BY <1>0, <2>2
    <3>2. (a \o b)[m] = b[m - (n - 1)]
      BY <1>0, <1>1, <1>3, <1>4, <2>2
    <3> QED
      BY <1>2, <2>2, <3>1, <3>2
  <2> QED
    BY <2>1, <2>2
<1> QED
  BY <1>3, <1>4, <1>5 DEF a, b

\* What it does to the versions.
LEMMA SweepFacts ==
  ASSUME TypeOK, Sweep
  PROVE  \E i \in Items, n \in Nat :
           /\ n \in 1 .. Len(versions[i]) - 1 /\ Expired(versions[i][n])
           /\ versions' = [versions EXCEPT ![i] =
                SubSeq(@, 1, n - 1) \o SubSeq(@, n + 1, Len(@))]
<1>1. PICK c \in Candidates :
        versions' = [versions EXCEPT ![c[1]] =
          SubSeq(@, 1, c[2] - 1) \o SubSeq(@, c[2] + 1, Len(@))]
  BY DEF Sweep
<1>2. PICK i \in Items : \E n \in DOMAIN versions[i] :
        c = <<i, n>> /\ n < Len(versions[i]) /\ Expired(versions[i][n])
  BY <1>1 DEF Candidates
<1>3. PICK n \in DOMAIN versions[i] :
        c = <<i, n>> /\ n < Len(versions[i]) /\ Expired(versions[i][n])
  BY <1>2
<1>4. versions[i] \in Seq(Version)
  BY DEF TypeOK
<1>5. Len(versions[i]) \in Nat /\ DOMAIN versions[i] = 1 .. Len(versions[i])
  BY <1>4, LenProperties
<1>6. n \in Nat /\ n \in 1 .. Len(versions[i]) - 1
  BY <1>3, <1>5
<1> QED
  BY <1>1, <1>3, <1>6

LEMMA SweepKeepsType == ASSUME TypeOK, Sweep PROVE versions' \in [Items -> Seq(Version)]
<1>1. PICK i \in Items, n \in Nat :
        /\ n \in 1 .. Len(versions[i]) - 1
        /\ versions' = [versions EXCEPT ![i] =
             SubSeq(@, 1, n - 1) \o SubSeq(@, n + 1, Len(@))]
  BY SweepFacts
<1>2. versions[i] \in Seq(Version)
  BY DEF TypeOK
<1>3. Len(versions[i]) \in Nat
  BY <1>2, LenProperties
<1>4. n \in 1 .. Len(versions[i])
  BY <1>1, <1>3
<1>5. SubSeq(versions[i], 1, n - 1) \o SubSeq(versions[i], n + 1, Len(versions[i]))
        \in Seq(Version)
  BY <1>2, <1>4, Removed
<1> QED
  BY <1>1, <1>5 DEF TypeOK

LEMMA TypeStep ==
  ASSUME TypeOK, PassSound, KeysDiffer, [Next]_vars
  PROVE  TypeOK' /\ PassSound'
<1> DEFINE Goal == TypeOK' /\ PassSound'
           Rest == /\ UNCHANGED <<feeds, mapped, today, changes, shop>>
                   /\ lost' \in BOOLEAN
<1>a. ASSUME pass.pc # "idle" PROVE Feed \in FeedSet /\ pass.k \in DOMAIN feeds
  BY <1>a, FeedInHand
<1>b. ASSUME Rest, crashes' = crashes, pass' \in Pass,
             pass'.pc # "idle" => pass'.k \in DOMAIN feeds,
             state' \in [FeedSet -> State],
             pass'.pc \in {"asking", "answered"} => state'[feeds[pass'.k]].status = "running",
             coverage' \in [complete : BOOLEAN, skipped : BOOLEAN],
             versions' \in [Items -> Seq(Version)], story' \in [Items -> Seq(Version)],
             written' \subseteq Items,
             walk' \in [due : SUBSET Items, dropped : BOOLEAN, whole : BOOLEAN]
      PROVE  Goal
  <2>1. FeedSet' = FeedSet /\ Pass' = Pass /\ feeds' = feeds
    BY <1>b DEF FeedSet, Pass
  <2>2. TypeOK'
    BY <1>b, <2>1 DEF TypeOK
  <2>3. PassSound'
    BY <1>b, <2>1 DEF PassSound, Feed
  <2> QED
    BY <2>2, <2>3
<1>1. CASE UNCHANGED vars
  BY <1>1 DEF vars, TypeOK, PassSound, Feed, FeedSet, Pass
<1>2. ASSUME NEW i \in Items, Change(i) PROVE Goal
  <2> DEFINE last == Greatest({shop[j].key : j \in Items})
  <2>1. last \in Nat \ {0}
    BY LastKey, Zenon
  <2>2. PICK row \in Rows \ {shop[i].row} : \E key \in Places(i, row) :
          /\ shop' = [shop EXCEPT ![i] = [row |-> row, key |-> key]]
          /\ walk' = IF row \in Evidence THEN walk ELSE [walk EXCEPT !.due = @ \ {i}]
    BY <1>2 DEF Change
  <2>3. PICK key \in Places(i, row) :
          /\ shop' = [shop EXCEPT ![i] = [row |-> row, key |-> key]]
          /\ walk' = IF row \in Evidence THEN walk ELSE [walk EXCEPT !.due = @ \ {i}]
    BY <2>2
  <2>4. key \in Nat \ {0}
    BY <2>1, <2>3 DEF Places, TypeOK
  <2>5. shop' \in [Items -> [row : Rows, key : Nat \ {0}]]
    BY <2>3, <2>4 DEF TypeOK
  <2>6. walk' \in [due : SUBSET Items, dropped : BOOLEAN, whole : BOOLEAN]
    BY <2>3 DEF TypeOK
  <2>7. changes' \in 0 .. MaxChanges
    BY <1>2, ApiSyncAssumption DEF Change, TypeOK
  <2> QED
    BY <1>2, <2>5, <2>6, <2>7 DEF Change, dbVars, TypeOK, PassSound, Feed, FeedSet, Pass
<1>3. CASE NewDay
  BY <1>3, ApiSyncAssumption
     DEF NewDay, dbVars, history, TypeOK, PassSound, Feed, FeedSet, Pass
<1>4. CASE MapStore
  BY <1>4, ApiSyncAssumption
     DEF MapStore, dbVars, history, TypeOK, PassSound, Feed, FeedSet, Pass
<1>4a. CASE LoseReport
  BY <1>4a DEF LoseReport, dbVars, history, TypeOK, PassSound, Feed, FeedSet, Pass
<1>5. CASE PassStarts
  <2>1. 1 \in DOMAIN feeds
    BY FeedsAre
  <2> QED
    BY <1>5, <2>1, <1>b, IdleIsPass DEF PassStarts, Idle, dbVars, shopVars, history, TypeOK
<1>6. CASE Park
  <2>1. state' \in [FeedSet -> State]
    BY <1>6, <1>a DEF Park, TypeOK, State
  <2> QED
    BY <1>6, <1>a, <1>b, <2>1, OnwardIsPass DEF Park, shopVars, history, TypeOK
<1>7. CASE NotDue
  BY <1>7, <1>a, <1>b, OnwardIsPass DEF NotDue, dbVars, shopVars, history, TypeOK
<1>8. CASE StartFeed
  <2>1. pass' \in Pass /\ pass'.k = pass.k /\ pass.k \in DOMAIN feeds
    BY <1>8, <1>a DEF StartFeed, TypeOK, Pass
  <2>2. Feed \in FeedSet /\ state' = [state EXCEPT ![Feed].status = "running"]
    BY <1>8, <1>a DEF StartFeed
  <2>3. state' \in [FeedSet -> State] /\ state'[Feed].status = "running"
    BY <2>2 DEF TypeOK, State
  <2>4. state' \in [FeedSet -> State] /\ state'[feeds[pass'.k]].status = "running"
    BY <2>1, <2>3 DEF Feed
  <2> QED
    BY <1>8, <1>b, <2>1, <2>4 DEF StartFeed, shopVars, history, TypeOK
<1>9. CASE AnswerListing
  <2>1. state[Feed].cursor \in Nat
    BY <1>9, <1>a DEF AnswerListing, TypeOK, State
  <2>2. pass' \in Pass /\ pass'.k = pass.k
    BY <1>9, <2>1, PageType DEF AnswerListing, TypeOK, Pass
  <2>3. walk' \in [due : SUBSET Items, dropped : BOOLEAN, whole : BOOLEAN]
    BY <1>9 DEF AnswerListing, TypeOK
  <2>4. state[Feed].status = "running"
    BY <1>9 DEF AnswerListing, PassSound
  <2> QED
    BY <1>9, <1>a, <1>b, <2>2, <2>3, <2>4 DEF AnswerListing, dbVars, shopVars, TypeOK, Feed
<1>9a. CASE AnswerUnmapped
  <2>1. state' \in [FeedSet -> State]
    BY <1>9a, <1>a, CursorSet DEF AnswerUnmapped
  <2>2. pass' \in Pass /\ pass'.k = pass.k /\ pass'.pc = "stored"
    BY <1>9a DEF AnswerUnmapped, TypeOK, Pass
  <2> QED
    BY <1>9a, <1>a, <1>b, <2>1, <2>2 DEF AnswerUnmapped, shopVars, history, TypeOK
<1>10. CASE AnswerWindow
  <2>1. state[Feed].cursor \in Nat /\ today \in Nat
    BY <1>10, <1>a DEF AnswerWindow, TypeOK, State
  <2>2. pass' \in Pass /\ pass'.k = pass.k
    BY <1>10, <2>1 DEF AnswerWindow, TypeOK, Pass, NoPage, Rows
  <2>3. state[Feed].status = "running"
    BY <1>10 DEF AnswerWindow, PassSound
  <2> QED
    BY <1>10, <1>a, <1>b, <2>2, <2>3 DEF AnswerWindow, dbVars, shopVars, history, TypeOK, Feed
<1>11. ASSUME NEW ready \in BOOLEAN, ReportAnswers(ready) PROVE Goal
  <2>1. pass' \in Pass /\ pass'.k = pass.k
    BY <1>11 DEF ReportAnswers, TypeOK, Pass, NoPage, Rows
  <2>2. state[Feed].status = "running"
    BY <1>11 DEF ReportAnswers, PassSound
  <2> QED
    BY <1>11, <1>a, <1>b, <2>1, <2>2 DEF ReportAnswers, dbVars, shopVars, history, TypeOK, Feed
<1>12. CASE StoreListing
  <2> DEFINE page == pass.page
             version == [evidence |-> page.evidence, day |-> today]
  <2>1. page \in [item : Items \cup {0}, evidence : Rows, next : Nat]
    BY DEF TypeOK, Pass
  <2>2. page.evidence \in Evidence => version \in Version
    BY DEF TypeOK, Version
  <2>3. versions' \in [Items -> Seq(Version)]
    BY <1>12, <2>2, AppendProperties DEF StoreListing, TypeOK
  <2>4. story' \in [Items -> Seq(Version)]
    BY <1>12, <2>2, AppendProperties DEF StoreListing, TypeOK
  <2>5. written' \subseteq Items
    BY <1>12, <2>1, ApiSyncAssumption DEF StoreListing, TypeOK
  <2>6. state' \in [FeedSet -> State] /\ state'[Feed].status = "running"
    <3>1. Tokens(page.next) \in Nat
      BY <1>12, <1>a DEF Tokens, StoreListing, TypeOK, State
    <3>2. /\ state' = [state EXCEPT ![Feed].cursor = page.next, ![Feed].tokens = Tokens(page.next)]
          /\ state[Feed].status = "running" /\ page.next \in Nat /\ Feed \in FeedSet
      BY <1>12, <1>a, <2>1 DEF StoreListing, PassSound
    <3>3. PICK f \in FeedSet, c \in Nat, t \in Nat :
            /\ f = Feed /\ state[f].status = "running"
            /\ state' = [state EXCEPT ![f].cursor = c, ![f].tokens = t]
      BY <3>1, <3>2, Zenon
    <3>4. state' \in [FeedSet -> State]
      BY <3>3, CursorSet
    <3>5. state'[f].status = "running"
      BY <3>3 DEF TypeOK, State
    <3> QED
      BY <3>3, <3>4, <3>5
  <2>7. coverage' \in [complete : BOOLEAN, skipped : BOOLEAN]
    BY <1>12 DEF StoreListing, TypeOK, Skipped
  <2>8. walk' \in [due : SUBSET Items, dropped : BOOLEAN, whole : BOOLEAN]
    BY <1>12 DEF StoreListing, TypeOK
  <2>9. pass' \in Pass /\ pass'.k = pass.k
    <3>1. NoPage \in [item : Items \cup {0}, evidence : Rows, next : Nat]
      BY DEF NoPage, Rows
    <3>2. pass.pages + 1 < MaxPages => pass.pages + 1 \in 0 .. MaxPages - 1
      BY ApiSyncAssumption DEF TypeOK, Pass
    <3> QED
      BY <1>12, <3>1, <3>2 DEF StoreListing, TypeOK, Pass
  <2> QED
    BY <1>12, <1>a, <1>b, <2>3, <2>4, <2>5, <2>6, <2>7, <2>8, <2>9
       DEF StoreListing, shopVars, TypeOK, Feed
<1>13. CASE StoreWindow
  <2>1. state' \in [FeedSet -> State]
    <3>1. pass.page.next \in Nat /\ pass.pc # "idle"
      BY <1>13 DEF StoreWindow, TypeOK, Pass
    <3> QED
      BY <1>13, <1>a, <3>1, CursorSet DEF StoreWindow
  <2>2. pass' \in Pass /\ pass'.k = pass.k /\ pass'.pc = "stored"
    BY <1>13 DEF StoreWindow, TypeOK, Pass, NoPage, Rows
  <2> QED
    BY <1>13, <1>a, <1>b, <2>1, <2>2 DEF StoreWindow, shopVars, history, TypeOK
<1>14. CASE StoreReport
  <2>1. state' \in [FeedSet -> State]
    <3>1. pass.page.next \in Nat /\ pass.pc # "idle"
      BY <1>14 DEF StoreReport, TypeOK, Pass
    <3> QED
      BY <1>14, <1>a, <3>1, CursorSet DEF StoreReport
  <2>2. pass' \in Pass /\ pass'.k = pass.k /\ pass'.pc = "stored"
    BY <1>14 DEF StoreReport, TypeOK, Pass, NoPage, Rows
  <2> QED
    BY <1>14, <1>a, <1>b, <2>1, <2>2 DEF StoreReport, shopVars, history, TypeOK
<1>15. CASE EndFeed
  <2>1. state' \in [FeedSet -> State]
    BY <1>15, <1>a DEF EndFeed, TypeOK, State, StatusAfter
  <2> QED
    BY <1>15, <1>a, <1>b, <2>1, OnwardIsPass DEF EndFeed, shopVars, history, TypeOK
<1>16. CASE Refused
  <2>1. state' \in [FeedSet -> State]
    BY <1>16, <1>a DEF Refused, TypeOK, State
  <2> QED
    BY <1>16, <1>a, <1>b, <2>1, OnwardIsPass DEF Refused, shopVars, history, TypeOK
<1>17. ASSUME pass' = Idle, UNCHANGED <<dbVars, shopVars, history>>,
              crashes' \in 0 .. MaxCrashes
       PROVE  Goal
  <2>1. 1 \in DOMAIN feeds
    BY FeedsAre
  <2>2. Idle \in Pass
    BY <2>1, IdleIsPass
  <2> QED
    BY <1>17, <2>2 DEF Idle, dbVars, shopVars, history, TypeOK, PassSound, Feed, FeedSet, Pass
<1>18. CASE Collision
  BY <1>17, <1>18 DEF Collision, TypeOK
<1>19. CASE Crash
  BY <1>17, <1>19, ApiSyncAssumption DEF Crash, TypeOK
<1>20. CASE Sweep
  <2>1. versions' \in [Items -> Seq(Version)]
    BY <1>20, SweepKeepsType DEF Sweep
  <2>2. UNCHANGED <<state, coverage, written, feeds, shop, today, mapped, lost, changes, pass,
                    crashes, walk, story>>
    BY <1>20 DEF Sweep, shopVars, history
  <2> QED
    BY <1>b, <2>1, <2>2 DEF TypeOK, PassSound, Feed
<1> QED
  BY <1>1, <1>2, <1>3, <1>4, <1>4a, <1>5, <1>6, <1>7, <1>8, <1>9, <1>9a, <1>10, <1>11, <1>12,
     <1>13, <1>14, <1>15, <1>16, <1>18, <1>19, <1>20 DEF Next, Work

LEMMA KeysStep ==
  ASSUME TypeOK, KeysDiffer, [Next]_vars
  PROVE  KeysDiffer'
<1>1. ASSUME NEW i \in Items, Change(i) PROVE KeysDiffer'
  <2> DEFINE last == Greatest({shop[j].key : j \in Items})
  <2>1. last \in Nat /\ \A j \in Items : shop[j].key <= last
    BY LastKey, Zenon
  <2>2. PICK row \in Rows \ {shop[i].row} : \E key \in Places(i, row) :
          shop' = [shop EXCEPT ![i] = [row |-> row, key |-> key]]
    BY <1>1 DEF Change
  <2>3. PICK key \in Places(i, row) : shop' = [shop EXCEPT ![i] = [row |-> row, key |-> key]]
    BY <2>2
  <2>4. key = shop[i].key \/ key = last + 1
    BY <2>3 DEF Places
  <2> HIDE DEF last
  <2>5. \A j \in Items : shop[j].key # last + 1
    BY <2>1 DEF TypeOK
  <2> QED
    BY <2>3, <2>4, <2>5 DEF TypeOK, KeysDiffer
<1>2. CASE UNCHANGED shop
  BY <1>2 DEF KeysDiffer
<1> QED
  BY <1>1, <1>2 DEF Next, Work, vars, shopVars, NewDay, MapStore, LoseReport, PassStarts, Park,
     NotDue, StartFeed, AnswerListing, AnswerUnmapped, AnswerWindow, ReportAnswers, StoreListing, StoreWindow,
     StoreReport, EndFeed, Refused, Collision, Crash, Sweep

(***************************************************************************)
(* The history.                                                            *)
(***************************************************************************)
LEMMA KeepsLast ==
  ASSUME NEW s \in Seq(Version), NEW t \in Seq(Version), Keeps(s, t)
  PROVE  /\ s = <<>> <=> t = <<>>
         /\ t # <<>> => LastOf(s) = LastOf(t)
<1>1. /\ Len(s) \in Nat /\ DOMAIN s = 1 .. Len(s)
      /\ Len(t) \in Nat /\ DOMAIN t = 1 .. Len(t)
      /\ s # <<>> => Len(s) # 0
      /\ t # <<>> => Len(t) # 0
      /\ Len(<<>>) = 0
  BY LenProperties, EmptySeq
<1>2. PICK place \in [DOMAIN s -> DOMAIN t] :
        /\ \A m, n \in DOMAIN s : m < n => place[m] < place[n]
        /\ \A n \in DOMAIN s : s[n] = t[place[n]]
        /\ \A n \in DOMAIN t : n = Len(t) \/ ~Expired(t[n]) => \E m \in DOMAIN s : place[m] = n
  BY DEF Keeps
<1>3. CASE t = <<>>
  BY <1>1, <1>2, <1>3
<1>4. CASE t # <<>>
  <2>1. PICK m \in 1 .. Len(s) : place[m] = Len(t)
    BY <1>1, <1>2, <1>4
  <2>2. m = Len(s)
    <3>1. place[Len(s)] \in 1 .. Len(t)
      BY <1>1, <1>2, <2>1
    <3>2. m < Len(s) => place[m] < place[Len(s)]
      BY <1>1, <1>2, <2>1
    <3>3. m < Len(s) => Len(t) < place[Len(s)]
      BY <2>1, <3>2
    <3>4. ~(m < Len(s))
      BY <1>1, <3>1, <3>3
    <3>5. m \in 1 .. Len(s) /\ Len(s) \in Nat
      BY <1>1, <2>1
    <3> QED
      BY <3>4, <3>5
  <2> QED
    BY <1>1, <1>2, <1>4, <2>1, <2>2 DEF LastOf
<1> QED
  BY <1>3, <1>4

LEMMA KeepsAppend ==
  ASSUME NEW s \in Seq(Version), NEW t \in Seq(Version), Keeps(s, t), NEW v \in Version
  PROVE  Keeps(Append(s, v), Append(t, v))
<1> DEFINE a == Append(s, v)
           b == Append(t, v)
<1>1. /\ Len(s) \in Nat /\ DOMAIN s = 1 .. Len(s)
      /\ Len(t) \in Nat /\ DOMAIN t = 1 .. Len(t)
  BY LenProperties
<1>2. /\ a \in Seq(Version) /\ Len(a) = Len(s) + 1 /\ a[Len(s) + 1] = v
      /\ \A n \in 1 .. Len(s) : a[n] = s[n]
      /\ b \in Seq(Version) /\ Len(b) = Len(t) + 1 /\ b[Len(t) + 1] = v
      /\ \A n \in 1 .. Len(t) : b[n] = t[n]
  BY AppendProperties
<1>3. DOMAIN a = 1 .. Len(s) + 1 /\ DOMAIN b = 1 .. Len(t) + 1
  BY <1>2, LenProperties
<1> HIDE DEF a, b
<1>4. PICK place \in [DOMAIN s -> DOMAIN t] :
        /\ \A m, n \in DOMAIN s : m < n => place[m] < place[n]
        /\ \A n \in DOMAIN s : s[n] = t[place[n]]
        /\ \A n \in DOMAIN t : n = Len(t) \/ ~Expired(t[n]) => \E m \in DOMAIN s : place[m] = n
  BY DEF Keeps
<1> DEFINE new == [n \in DOMAIN a |-> IF n = Len(s) + 1 THEN Len(t) + 1 ELSE place[n]]
<1>5. \A n \in 1 .. Len(s) : new[n] = place[n] /\ place[n] \in 1 .. Len(t)
  BY <1>1, <1>3, <1>4
<1>6. new[Len(s) + 1] = Len(t) + 1
  BY <1>1, <1>3
<1>7. new \in [DOMAIN a -> DOMAIN b]
  BY <1>1, <1>3, <1>4
<1> HIDE DEF new
<1>8. \A n \in DOMAIN a : n = Len(s) + 1 \/ n \in 1 .. Len(s)
  BY <1>1, <1>3
<1>9. \A m, n \in DOMAIN a : m < n => new[m] < new[n]
  <2> SUFFICES ASSUME NEW m \in DOMAIN a, NEW n \in DOMAIN a, m < n PROVE new[m] < new[n]
    OBVIOUS
  <2>1. m \in 1 .. Len(s)
    BY <1>1, <1>3
  <2> QED
    BY <1>1, <1>4, <1>5, <1>6, <1>8, <2>1
<1>10. \A n \in DOMAIN a : a[n] = b[new[n]]
  BY <1>1, <1>2, <1>4, <1>5, <1>6, <1>8
<1>11. ASSUME NEW n \in DOMAIN b, n = Len(b) \/ ~Expired(b[n])
       PROVE  \E m \in DOMAIN a : new[m] = n
  <2>1. CASE n = Len(t) + 1
    BY <1>1, <1>3, <1>6, <2>1
  <2>2. CASE n # Len(t) + 1
    <3>1. n \in 1 .. Len(t) /\ b[n] = t[n] /\ n # Len(b)
      BY <1>1, <1>2, <1>3, <2>2
    <3>2. PICK m \in 1 .. Len(s) : place[m] = n
      BY <1>1, <1>4, <1>11, <3>1
    <3>3. m \in DOMAIN a /\ new[m] = n
      BY <1>1, <1>3, <1>5, <3>2
    <3> QED
      BY <3>3
  <2> QED
    BY <2>1, <2>2
<1> QED
  BY <1>7, <1>9, <1>10, <1>11 DEF Keeps, a, b

LEMMA KeepsRemoved ==
  ASSUME NEW s \in Seq(Version), NEW t \in Seq(Version), Keeps(s, t),
         NEW n \in 1 .. Len(s) - 1, Expired(s[n]),
         NEW r \in Seq(Version), Len(r) = Len(s) - 1,
         \A m \in 1 .. Len(s) - 1 : r[m] = IF m < n THEN s[m] ELSE s[m + 1]
  PROVE  Keeps(r, t)
<1>1. /\ Len(s) \in Nat /\ DOMAIN s = 1 .. Len(s)
      /\ Len(t) \in Nat /\ DOMAIN t = 1 .. Len(t)
      /\ DOMAIN r = 1 .. Len(s) - 1
  BY LenProperties
<1>2. PICK place \in [DOMAIN s -> DOMAIN t] :
        /\ \A m, k \in DOMAIN s : m < k => place[m] < place[k]
        /\ \A m \in DOMAIN s : s[m] = t[place[m]]
        /\ \A k \in DOMAIN t : k = Len(t) \/ ~Expired(t[k]) => \E m \in DOMAIN s : place[m] = k
  BY DEF Keeps
<1> DEFINE old(m) == IF m < n THEN m ELSE m + 1
           new == [m \in DOMAIN r |-> place[old(m)]]
<1>3. \A m \in DOMAIN r : old(m) \in DOMAIN s /\ r[m] = s[old(m)]
  BY <1>1
<1>4. new \in [DOMAIN r -> DOMAIN t] /\ \A m \in DOMAIN r : new[m] = place[old(m)]
  BY <1>3
<1>5. \A m, k \in DOMAIN r : m < k => old(m) < old(k)
  BY <1>1
<1>6. ASSUME NEW m \in DOMAIN s, m # n PROVE \E k \in DOMAIN r : old(k) = m
  <2>1. CASE m < n
    BY <1>1, <2>1
  <2>2. CASE m > n
    <3>1. m - 1 \in DOMAIN r /\ old(m - 1) = m
      BY <1>1, <2>2
    <3> QED
      BY <3>1
  <2> QED
    BY <1>1, <1>6, <2>1, <2>2
<1> HIDE DEF new, old
<1>7. \A m, k \in DOMAIN r : m < k => new[m] < new[k]
  BY <1>2, <1>3, <1>4, <1>5
<1>8. \A m \in DOMAIN r : r[m] = t[new[m]]
  BY <1>2, <1>3, <1>4
<1>9. ASSUME NEW k \in DOMAIN t, k = Len(t) \/ ~Expired(t[k])
      PROVE  \E m \in DOMAIN r : new[m] = k
  <2>1. PICK m \in DOMAIN s : place[m] = k
    BY <1>2, <1>9
  <2>2. m # n
    <3>1. n \in DOMAIN s /\ Len(s) \in DOMAIN s /\ n < Len(s)
      BY <1>1
    <3>2. place[n] < place[Len(s)] /\ place[n] \in Nat /\ place[Len(s)] \in 1 .. Len(t)
      BY <1>1, <1>2, <3>1
    <3>3. place[n] # Len(t) /\ Expired(t[place[n]])
      BY <1>1, <1>2, <3>1, <3>2
    <3> QED
      BY <1>9, <2>1, <3>3
  <2> QED
    BY <1>4, <1>6, <2>1, <2>2
<1> QED
  BY <1>4, <1>7, <1>8, <1>9 DEF Keeps

LEMMA HistoryStep ==
  ASSUME TypeOK, HistoryIsKept, [Next]_vars
  PROVE  HistoryIsKept'
<1>1. ASSUME versions' = versions, story' = story, today' = today \/ today' = today + 1
      PROVE  HistoryIsKept'
  <2> SUFFICES ASSUME NEW i \in Items PROVE Keeps(versions[i], story[i])'
    BY DEF HistoryIsKept
  <2>1. \A n \in DOMAIN story[i] : Expired(story[i][n]) => Expired(story[i][n])'
    <3>1. story[i] \in Seq(Version) /\ today \in Nat
      BY DEF TypeOK
    <3> SUFFICES ASSUME NEW n \in DOMAIN story[i], Expired(story[i][n])
                 PROVE  Expired(story[i][n])'
      OBVIOUS
    <3>2. n \in 1 .. Len(story[i])
      BY <3>1, LenProperties
    <3>3. story[i][n] \in Version
      BY <3>1, <3>2, ElementOfSeq
    <3> DEFINE day == story[i][n].day
               kept == Kept(story[i][n].evidence)
    <3>4. day \in Nat /\ kept \in Nat
      BY <3>3 DEF Version, Kept
    <3>5. today - day >= kept
      BY DEF Expired
    <3> HIDE DEF day, kept
    <3>6. today' - day >= kept
      BY <1>1, <3>1, <3>4, <3>5
    <3> QED
      BY <1>1, <3>6 DEF Expired, Kept, day, kept
  <2>2. Keeps(versions[i], story[i])
    BY DEF HistoryIsKept
  <2> QED
    BY <1>1, <2>1, <2>2 DEF Keeps
<1>2. CASE StoreListing
  <2> DEFINE page == pass.page
             v == [evidence |-> page.evidence, day |-> today]
             add == page.item # 0 /\ page.evidence \in Evidence /\ News(page.item, page.evidence)
  <2>1. today' = today
    BY <1>2 DEF StoreListing, shopVars
  <2> SUFFICES ASSUME NEW i \in Items PROVE Keeps(versions'[i], story'[i])
    BY <2>1 DEF HistoryIsKept, Keeps, Expired
  <2>2. i # 0
    BY ApiSyncAssumption, FS_CardinalityType
  <2>3. /\ versions'[i] = IF i = page.item /\ add THEN Append(versions[i], v) ELSE versions[i]
        /\ story'[i] =
             IF page.item = i /\ page.evidence \in Evidence
                /\ (story[i] = <<>> \/ LastOf(story[i]).evidence # page.evidence)
             THEN Append(story[i], v) ELSE story[i]
    BY <1>2 DEF StoreListing
  <2>4. /\ versions[i] \in Seq(Version) /\ story[i] \in Seq(Version)
        /\ Keeps(versions[i], story[i])
    BY DEF TypeOK, HistoryIsKept
  <2>5. /\ versions[i] = <<>> <=> story[i] = <<>>
        /\ story[i] # <<>> => LastOf(versions[i]) = LastOf(story[i])
    BY <2>4, KeepsLast
  <2>6. CASE i = page.item /\ add
    <3>1. v \in Version
      BY <2>6 DEF TypeOK, Version
    <3>2. versions'[i] = Append(versions[i], v) /\ story'[i] = Append(story[i], v)
      BY <2>3, <2>5, <2>6 DEF News
    <3> HIDE DEF v
    <3> QED
      BY <2>4, <3>1, <3>2, KeepsAppend
  <2>7. CASE ~(i = page.item /\ add)
    <3>1. versions'[i] = versions[i] /\ story'[i] = story[i]
      BY <2>2, <2>3, <2>5, <2>7 DEF News
    <3> QED
      BY <2>4, <3>1
  <2> QED
    BY <2>6, <2>7
<1>3. CASE Sweep
  <2>1. PICK i \in Items, n \in Nat :
          /\ n \in 1 .. Len(versions[i]) - 1 /\ Expired(versions[i][n])
          /\ versions' = [versions EXCEPT ![i] =
               SubSeq(@, 1, n - 1) \o SubSeq(@, n + 1, Len(@))]
    BY <1>3, SweepFacts
  <2>2. story' = story /\ today' = today
    BY <1>3 DEF Sweep, shopVars, history
  <2> SUFFICES ASSUME NEW j \in Items PROVE Keeps(versions'[j], story[j])
    BY <2>2 DEF HistoryIsKept, Keeps, Expired
  <2>3. /\ versions[j] \in Seq(Version) /\ story[j] \in Seq(Version)
        /\ Keeps(versions[j], story[j])
    BY DEF TypeOK, HistoryIsKept
  <2>4. CASE j = i
    <3> DEFINE r == SubSeq(versions[j], 1, n - 1)
                    \o SubSeq(versions[j], n + 1, Len(versions[j]))
    <3>1. Len(versions[j]) \in Nat
      BY <2>3, LenProperties
    <3>2. n \in 1 .. Len(versions[j])
      BY <2>1, <2>4, <3>1
    <3>3. /\ r \in Seq(Version) /\ Len(r) = Len(versions[j]) - 1
          /\ \A m \in 1 .. Len(versions[j]) - 1 :
               r[m] = IF m < n THEN versions[j][m] ELSE versions[j][m + 1]
      BY <2>3, <3>2, Removed
    <3>4. versions'[j] = r
      BY <2>1, <2>4 DEF TypeOK
    <3>5. n \in 1 .. Len(versions[j]) - 1 /\ Expired(versions[j][n])
      BY <2>1, <2>4
    <3> HIDE DEF r
    <3>6. Keeps(r, story[j])
      BY <2>3, <3>3, <3>5, KeepsRemoved
    <3> QED
      BY <3>4, <3>6
  <2>5. CASE j # i
    BY <2>1, <2>3, <2>5 DEF TypeOK
  <2> QED
    BY <2>4, <2>5
<1>4. CASE UNCHANGED <<versions, story, today>>
  BY <1>1, <1>4
<1>5. CASE NewDay
  BY <1>1, <1>5 DEF NewDay, dbVars, history
<1>6. ASSUME NEW i \in Items, Change(i) PROVE UNCHANGED <<versions, story, today>>
  BY <1>6 DEF Change, dbVars
<1>7. ASSUME NEW ready \in BOOLEAN, ReportAnswers(ready)
      PROVE  UNCHANGED <<versions, story, today>>
  BY <1>7 DEF ReportAnswers, dbVars, shopVars, history
<1> QED
  BY <1>2, <1>3, <1>4, <1>5, <1>6, <1>7 DEF Next, Work, vars, dbVars, shopVars, history,
     MapStore, LoseReport, PassStarts, Park, NotDue, StartFeed, AnswerListing, AnswerUnmapped,
     AnswerWindow, StoreWindow, StoreReport, EndFeed, Refused, Collision, Crash

(***************************************************************************)
(* The walk.                                                               *)
(***************************************************************************)
\* A token leads past the offer on the page and nothing else.
LEMMA PageOfToken ==
  ASSUME TypeOK, KeysDiffer, Paging = "token", NEW cursor \in Nat,
         NEW D, D \subseteq Items,
         \A i \in D : shop[i].row \in Evidence /\ shop[i].key > cursor,
         NEW i \in D \ {ListingPage(cursor).item}
  PROVE  ListingPage(cursor).next # 0 /\ shop[i].key > ListingPage(cursor).next
<1> DEFINE rest == After(cursor)
<1>1. rest \subseteq Items /\ D \subseteq rest
  BY ApiSyncAssumption DEF After, Listed
<1>2. rest # {} /\ i \in rest /\ i \in Items
  BY <1>1
<1>3. First(rest) \in rest /\ \A j \in rest \ {First(rest)} : shop[First(rest)].key < shop[j].key
  BY <1>1, <1>2, FirstOf
<1> HIDE DEF rest
<1>4. /\ ListingPage(cursor).item = First(rest)
      /\ ListingPage(cursor).next = IF rest = {First(rest)} THEN 0 ELSE shop[First(rest)].key
  BY <1>2 DEF ListingPage, rest
<1>5. rest # {First(rest)} /\ i # First(rest)
  BY <1>2, <1>4
<1>6. shop[First(rest)].key \in Nat \ {0} /\ shop[i].key \in Nat
  BY <1>1, <1>2, <1>3 DEF TypeOK
<1> QED
  BY <1>2, <1>3, <1>4, <1>5, <1>6

\* A step of the pass that leaves the listing's cursor, coverage and walk alone.
LEMMA WalkKept ==
  ASSUME WalkInv, UNCHANGED <<walk, shop, coverage, feeds>>,
         pass'.pc = "answered" => feeds[pass'.k] # "listing",
         "listing" \in FeedSet => state'["listing"].cursor \in {0, state["listing"].cursor}
  PROVE  WalkInv'
<1>1. FeedSet' = FeedSet
  BY DEF FeedSet
<1>2. ASSUME "listing" \in FeedSet, Paging = "token" PROVE TokenWalk'
  BY <1>2 DEF WalkInv, TokenWalk, Feed
<1> QED
  BY <1>1, <1>2 DEF WalkInv

LEMMA WalkStep ==
  ASSUME TypeOK, PassSound, KeysDiffer, WalkInv, [Next]_vars
  PROVE  WalkInv'
<1>a. ASSUME pass.pc # "idle" PROVE Feed \in FeedSet /\ pass.k \in DOMAIN feeds
  BY <1>a, FeedInHand
<1>b. Onward.pc \in {"idle", "loop"}
  BY DEF Onward, Idle
<1>c. \A f \in FeedSet : state[f] \in State
  BY DEF TypeOK
<1>1. CASE UNCHANGED <<feeds, shop, state, coverage, pass, walk>>
  BY <1>1 DEF WalkInv, TokenWalk, Feed, FeedSet
<1>2. ASSUME NEW i \in Items, Change(i) PROVE WalkInv'
  <2> DEFINE last == Greatest({shop[j].key : j \in Items})
  <2>1. last \in Nat /\ \A j \in Items : shop[j].key <= last
    BY LastKey, Zenon
  <2>2. PICK row \in Rows \ {shop[i].row} : \E key \in Places(i, row) :
          /\ shop' = [shop EXCEPT ![i] = [row |-> row, key |-> key]]
          /\ walk' = IF row \in Evidence THEN walk ELSE [walk EXCEPT !.due = @ \ {i}]
    BY <1>2 DEF Change
  <2>3. PICK key \in Places(i, row) :
          /\ shop' = [shop EXCEPT ![i] = [row |-> row, key |-> key]]
          /\ walk' = IF row \in Evidence THEN walk ELSE [walk EXCEPT !.due = @ \ {i}]
    BY <2>2
  <2>4. key = shop[i].key \/ key = last + 1
    BY <2>3 DEF Places
  <2> HIDE DEF last
  <2>5. \A j \in Items : shop[j].key \in Nat /\ shop'[j].key \in Nat /\ shop'[j].key >= shop[j].key
    BY <2>1, <2>3, <2>4 DEF TypeOK
  <2>6. /\ walk'.dropped = walk.dropped /\ walk'.whole = walk.whole /\ walk'.due \subseteq walk.due
        /\ \A j \in walk'.due : shop'[j].row \in Evidence
    BY <2>3 DEF TypeOK, WalkInv
  <2>7. UNCHANGED <<feeds, state, coverage, pass>>
    BY <1>2 DEF Change, dbVars
  <2>8. ASSUME "listing" \in FeedSet, Paging = "token" PROVE TokenWalk'
    <3>1. state["listing"].cursor \in Nat /\ pass.page.next \in Nat /\ walk.due \subseteq Items
      BY <1>c, <2>8 DEF TypeOK, Pass, State
    <3>2. TokenWalk
      BY <2>8 DEF WalkInv
    <3>3. ASSUME NEW j \in walk'.due, NEW n \in Nat, shop[j].key > n PROVE shop'[j].key > n
      BY <2>5, <2>6, <3>1, <3>3
    <3> QED
      BY <2>6, <2>7, <3>1, <3>2, <3>3 DEF TokenWalk, Feed
  <2>9. FeedSet' = FeedSet
    BY <2>7 DEF FeedSet
  <2> QED
    BY <2>6, <2>7, <2>8, <2>9 DEF WalkInv
<1>3. CASE PassStarts
  BY <1>3, WalkKept DEF PassStarts, Idle, dbVars, shopVars, history
<1>4. CASE Park
  BY <1>4, <1>a, <1>b, <1>c, WalkKept DEF Park, shopVars, history, TypeOK, State
<1>5. CASE NotDue
  BY <1>5, <1>b, WalkKept DEF NotDue, dbVars, shopVars, history
<1>6. CASE StartFeed
  BY <1>6, <1>a, <1>c, WalkKept DEF StartFeed, shopVars, history, TypeOK, State, Pass
<1>7. CASE AnswerListing
  <2> DEFINE cursor == state["listing"].cursor
  <2>1. /\ pass.pc = "asking" /\ Feed = "listing" /\ "listing" \in FeedSet
        /\ pass' = [pass EXCEPT !.pc = "answered", !.page = ListingPage(cursor)]
        /\ UNCHANGED <<feeds, shop, state, coverage>>
        /\ walk' = IF cursor = 0
                   THEN [walk EXCEPT !.due = {i \in Items : shop[i].row \in Evidence},
                                     !.dropped = FALSE]
                   ELSE walk
    BY <1>7, <1>a DEF AnswerListing, dbVars, shopVars
  <2>2. pass'.pc = "answered" /\ pass'.page = ListingPage(cursor)
    BY <2>1 DEF TypeOK, Pass
  <2>3. \A i \in walk'.due : i \in Items /\ shop[i].row \in Evidence
    BY <2>1 DEF TypeOK, WalkInv
  <2>5. walk'.whole = walk.whole
    BY <2>1 DEF TypeOK
  <2>6. ASSUME Paging = "token" PROVE TokenWalk'
    <3>1. cursor \in Nat /\ TokenWalk
      BY <1>c, <2>1, <2>6 DEF State, WalkInv
    <3>2. \A i \in walk'.due : shop[i].key > cursor
      <4>1. CASE cursor = 0
        BY <2>3, <4>1 DEF TypeOK
      <4>2. CASE cursor # 0
        BY <2>1, <3>1, <4>2 DEF TokenWalk
      <4> QED
        BY <4>1, <4>2
    <3>3. \A i \in walk'.due \ {ListingPage(cursor).item} :
            ListingPage(cursor).next # 0 /\ shop[i].key > ListingPage(cursor).next
      <4> HIDE DEF cursor
      <4>1. walk'.due \subseteq Items
        BY <2>3
      <4> QED
        BY <2>3, <2>6, <3>1, <3>2, <4>1, PageOfToken
    <3>4. cursor # 0 => (walk'.dropped => coverage.skipped)
      BY <2>1, <3>1 DEF TokenWalk
    <3>5. cursor = 0 => ~walk'.dropped
      BY <2>1
    <3> QED
      BY <2>1, <2>2, <3>2, <3>3, <3>4, <3>5 DEF TokenWalk
  <2> QED
    BY <2>1, <2>3, <2>5, <2>6 DEF WalkInv, FeedSet
<1>7a. CASE AnswerUnmapped
  BY <1>7a, <1>a, <1>c, WalkKept DEF AnswerUnmapped, shopVars, history, TypeOK, State, Pass
<1>8. CASE AnswerWindow
  BY <1>8, <1>a, WalkKept DEF AnswerWindow, dbVars, shopVars, history, TypeOK, Pass, Feed
<1>9. ASSUME NEW ready \in BOOLEAN, ReportAnswers(ready) PROVE WalkInv'
  BY <1>9, <1>a, WalkKept DEF ReportAnswers, dbVars, shopVars, history, TypeOK, Pass, Feed
<1>10. CASE StoreListing
  <2> DEFINE cursor == state["listing"].cursor
             page == pass.page
             fresh == cursor = 0
             dropped == page.evidence = Broken
             done == page.next = 0
  <2>1. /\ pass.pc = "answered" /\ Feed = "listing" /\ "listing" \in FeedSet
        /\ UNCHANGED <<feeds, shop>>
        /\ state'["listing"].cursor = page.next
        /\ coverage' = IF Paging = "offset" THEN coverage
                       ELSE [skipped |-> Skipped(fresh, dropped),
                             complete |-> done /\ ~Skipped(fresh, dropped)]
        /\ walk'.due = walk.due \ {page.item} /\ walk'.dropped = (walk.dropped \/ dropped)
        /\ walk'.whole = (done /\ walk'.due = {} /\ ~walk'.dropped)
    BY <1>10, <1>a, <1>c DEF StoreListing, shopVars, TypeOK, State
  <2>2. pass'.pc \in {"asking", "stored"}
    BY <1>10 DEF StoreListing, TypeOK, Pass
  <2>4. ASSUME Paging = "token" PROVE TokenWalk
    BY <2>1, <2>4 DEF WalkInv
  <2>5. ASSUME Paging = "token" PROVE walk'.dropped => coverage'.skipped
    <3>1. coverage'.skipped = Skipped(fresh, dropped)
      BY <2>1, <2>5
    <3>2. walk.dropped => ~fresh /\ coverage.skipped
      BY <2>1, <2>4, <2>5 DEF TokenWalk
    <3> QED
      BY <2>1, <3>1, <3>2 DEF Skipped
  <2>6. ASSUME Paging = "token" PROVE TokenWalk'
    <3>1. \A i \in walk'.due : page.next # 0 /\ shop[i].key > page.next
      BY <2>1, <2>4, <2>6 DEF TokenWalk
    <3> QED
      BY <2>1, <2>2, <2>5, <2>6, <3>1 DEF TokenWalk
  <2>7. ASSUME coverage'.complete, ~coverage'.skipped PROVE walk'.whole
    <3>1. Paging = "token"
      BY <2>1, <2>7, ApiSyncAssumption DEF WalkInv
    <3>2. done
      BY <2>1, <2>7, <3>1
    <3>3. walk.due \subseteq {page.item}
      BY <2>1, <2>4, <3>1, <3>2 DEF TokenWalk
    <3> QED
      BY <2>1, <2>5, <2>7, <3>1, <3>2, <3>3
  <2>8. \A i \in walk'.due : shop'[i].row \in Evidence
    BY <2>1 DEF WalkInv
  <2> QED
    BY <2>1, <2>6, <2>7, <2>8 DEF WalkInv, FeedSet
<1>11. CASE StoreWindow
  BY <1>11, <1>a, <1>c, WalkKept DEF StoreWindow, shopVars, history, TypeOK, Pass, Feed
<1>12. CASE StoreReport
  BY <1>12, <1>a, <1>c, WalkKept DEF StoreReport, shopVars, history, TypeOK, Pass, Feed
<1>13. CASE EndFeed
  BY <1>13, <1>a, <1>b, <1>c, WalkKept
     DEF EndFeed, StatusAfter, shopVars, history, TypeOK, State
<1>14. CASE Refused
  BY <1>14, <1>a, <1>b, <1>c, WalkKept DEF Refused, shopVars, history, TypeOK, State
<1>15. CASE Collision
  BY <1>15, WalkKept DEF Collision, Idle, dbVars, shopVars, history
<1>16. CASE Crash
  BY <1>16, WalkKept DEF Crash, Idle, dbVars, shopVars, history
<1>17. NewDay \/ MapStore \/ LoseReport \/ Sweep \/ UNCHANGED vars =>
         UNCHANGED <<feeds, shop, state, coverage, pass, walk>>
  BY DEF NewDay, MapStore, LoseReport, Sweep, vars, dbVars, shopVars, history
<1> QED
  BY <1>1, <1>2, <1>3, <1>4, <1>5, <1>6, <1>7, <1>7a, <1>8, <1>9, <1>10, <1>11, <1>12, <1>13,
     <1>14, <1>15, <1>16, <1>17 DEF Next, Work

LEMMA SyncStep == SyncInv /\ [Next]_vars => SyncInv'
BY TypeStep, KeysStep, WalkStep, HistoryStep DEF SyncInv

(***************************************************************************)
(* The theorems.                                                           *)
(***************************************************************************)
\* What the row of a feed, the walk, the listing and the versions have to do
\* with each other, between any two steps of a pass.
THEOREM Syncing == Spec => []SyncInv
BY SyncInit, SyncStep, PTL DEF Spec

\* Coverage that a reader trusts was earned by one walk that met every offer
\* listed throughout and dropped none, over any number of passes, crashes,
\* refusals and changes (models/api_sync_state.py:43-46).
THEOREM HonestCoverage == Spec => []CoverageIsHonest
<1>1. SyncInv => CoverageIsHonest
  BY DEF SyncInv, WalkInv, Eligible, CoverageIsHonest
<1> QED
  BY <1>1, Syncing, PTL

\* What retention leaves of the observations is the story of the changes, with
\* everything young and the version in force (observation_sweep.py:6-8).
THEOREM KeptHistory == Spec => []HistoryIsKept
<1>1. SyncInv => HistoryIsKept
  BY DEF SyncInv
<1> QED
  BY <1>1, Syncing, PTL

=============================================================================
