---------------------------- MODULE AuthThrottle ----------------------------
(***************************************************************************)
(* services/auth_throttle.py: the durable throttle in front of the login   *)
(* and code checks.  One action ("login") with its three dimensions, the   *)
(* pair of e-mail and address, the e-mail and the address, each a row of   *)
(* auth_rate_limit_buckets.                                                *)
(*                                                                         *)
(* reserve() and release() each write their rows in one transaction, in    *)
(* the order pair, identity, ip, and keep the row locks to the commit, so  *)
(* a transaction is one step here.  What is not one step is the moment     *)
(* `now`, taken before the first statement waits for its row: Enter takes  *)
(* it and Reserve uses it, later.                                          *)
(***************************************************************************)
EXTENDS Integers, FiniteSets

CONSTANTS
  Identities,     \* e-mail addresses, normalised
  Ips,            \* client addresses, normalised
  Requests,       \* login requests, each made once
  Limit,          \* dimension -> the limit of settings.auth_throttle_login_*
  Window,         \* settings.auth_throttle_window_seconds
  Block,          \* settings.auth_throttle_block_seconds
  MaxWait,        \* bound: how long a request waits for its row locks
  MaxTime         \* bound: the last moment of the model's clock

Dimensions == {"pair", "identity", "ip"}

ASSUME AuthThrottleAssumption ==
  /\ Limit \in [Dimensions -> Nat \ {0}]
  /\ Window \in Nat \ {0}
  /\ Block \in Nat \ {0}
  /\ MaxWait \in Nat /\ MaxWait < Window + Block
  /\ MaxTime \in Nat \ {0}

VARIABLES
  now,            \* the clock
  buckets,        \* key -> row of auth_rate_limit_buckets
  requests,       \* request -> where its handler stands
  ledger          \* history: what each bucket's present window really saw

vars == <<now, buckets, requests, ledger>>

(***************************************************************************)
(* Rows.  blocked = 0 is the NULL of blocked_until: moments start at 1.    *)
(***************************************************************************)
Key(d, i, a) == CASE d = "pair"     -> <<"pair", i, a>>
                  [] d = "identity" -> <<"identity", i>>
                  [] d = "ip"       -> <<"ip", a>>

Keys == {Key(d, i, a) : d \in Dimensions, i \in Identities, a \in Ips}

Bucket == [present : BOOLEAN, attempts : Nat, started : Nat, blocked : Nat, expires : Nat]

NoBucket == [present |-> FALSE, attempts |-> 0, started |-> 0, blocked |-> 0, expires |-> 0]

\* Mutant: the last one to write decides how long the block lasts.
UpsertLast(b, limit, t) ==
  LET expired == ~b.present \/ b.started + Window < t
      n       == IF expired THEN 1 ELSE b.attempts + 1
  IN  [present |-> TRUE, attempts |-> n,
       started |-> IF expired THEN t ELSE b.started,
       blocked |-> IF n >= limit THEN t + Block ELSE b.blocked,
       expires |-> t + Window + Block]

\* _UPSERT, computed from the moment t the caller took: a window that has run
\* out restarts, a block is only ever prolonged, expires_at is overwritten.
Upsert(b, limit, t) ==
  LET expired == ~b.present \/ b.started + Window < t
      n       == IF expired THEN 1 ELSE b.attempts + 1
  IN  [present |-> TRUE, attempts |-> n,
       started |-> IF expired THEN t ELSE b.started,
       blocked |-> IF n >= limit /\ b.blocked < t + Block THEN t + Block ELSE b.blocked,
       expires |-> t + Window + Block]

Restarts(b, t) == ~b.present \/ b.started + Window < t

\* Mutant: a success clears the row.
ReleasedAll(b) == [b EXCEPT !.attempts = 0]

\* _RELEASE: an UPDATE, which finds no row once the sweep has deleted it.
Released(b) == IF b.attempts > 0 THEN [b EXCEPT !.attempts = @ - 1] ELSE b

\* Mutant: every dimension is counted, whatever the narrower ones answer.
WalkEverything(bs, i, a, t) == Dimensions

\* The dimensions one walk of reserve() writes: it starts at the narrowest and
\* stops behind the first one whose block is still running.
Walk(bs, i, a, t) ==
  LET Blocks(d) == Upsert(bs[Key(d, i, a)], Limit[d], t).blocked > t
  IN  {"pair"} \cup (IF Blocks("pair") THEN {}
                     ELSE {"identity"} \cup (IF Blocks("identity") THEN {} ELSE {"ip"}))

Refused(bs, i, a, t) ==
  \E d \in Walk(bs, i, a, t) : Upsert(bs[Key(d, i, a)], Limit[d], t).blocked > t

(***************************************************************************)
(* The history.  counted: the requests whose attempt this window counted   *)
(* and which were not released; forgiven: the releases of attempts that an *)
(* earlier window had counted; sources: the addresses or e-mails behind    *)
(* every attempt the row has counted since it was created.                 *)
(***************************************************************************)
Ledger == [counted : SUBSET Requests, forgiven : Nat, sources : SUBSET (Identities \X Ips)]

NoLedger == [counted |-> {}, forgiven |-> 0, sources |-> {}]

TypeOK ==
  /\ now \in 1..MaxTime
  /\ buckets \in [Keys -> Bucket]
  /\ requests \in [Requests ->
       [pc : {"new", "over"}]
       \cup [pc : {"entered"}, identity : Identities, ip : Ips, time : 1..MaxTime]
       \cup [pc : {"admitted"}, identity : Identities, ip : Ips]]
  /\ ledger \in [Keys -> Ledger]

Init ==
  /\ now = 1
  /\ buckets = [k \in Keys |-> NoBucket]
  /\ requests = [r \in Requests |-> [pc |-> "new"]]
  /\ ledger = [k \in Keys |-> NoLedger]

Mine(r) == {Key(d, requests[r].identity, requests[r].ip) : d \in Dimensions}

(***************************************************************************)
(* The login handler.                                                      *)
(***************************************************************************)
\* reserve() takes `now`; from here the request may wait for a row lock.
Enter(r) ==
  /\ requests[r].pc = "new"
  /\ \E i \in Identities, a \in Ips :
       requests' = [requests EXCEPT ![r] =
         [pc |-> "entered", identity |-> i, ip |-> a, time |-> now]]
  /\ UNCHANGED <<now, buckets, ledger>>

\* The transaction of reserve() commits.
Reserve(r) ==
  LET q == requests[r]
      touched == {Key(d, q.identity, q.ip) : d \in Walk(buckets, q.identity, q.ip, q.time)}
      dim(k) == k[1]
  IN
  /\ q.pc = "entered"
  /\ buckets' = [k \in Keys |->
       IF k \in touched THEN Upsert(buckets[k], Limit[dim(k)], q.time) ELSE buckets[k]]
  /\ ledger' = [k \in Keys |->
       IF k \notin touched THEN ledger[k]
       ELSE LET fresh == Restarts(buckets[k], q.time)
            IN  [counted  |-> (IF fresh THEN {} ELSE ledger[k].counted) \cup {r},
                 forgiven |-> IF fresh THEN 0 ELSE ledger[k].forgiven,
                 sources  |-> (IF buckets[k].present THEN ledger[k].sources ELSE {})
                              \cup {<<q.identity, q.ip>>}]]
  /\ requests' = [requests EXCEPT ![r] =
       IF Refused(buckets, q.identity, q.ip, q.time) THEN [pc |-> "over"]
       ELSE [pc |-> "admitted", identity |-> q.identity, ip |-> q.ip]]
  /\ UNCHANGED now

\* A right password: release() takes one off every dimension of the action.
\* A request that never gets here failed or died, and stays counted.
Release(r) ==
  LET keys == Mine(r)
  IN
  /\ requests[r].pc = "admitted"
  /\ buckets' = [k \in Keys |-> IF k \in keys /\ buckets[k].present
                                THEN Released(buckets[k]) ELSE buckets[k]]
  /\ ledger' = [k \in Keys |->
       IF k \in keys /\ buckets[k].present
       THEN IF r \in ledger[k].counted
            THEN [ledger[k] EXCEPT !.counted = @ \ {r}]
            ELSE [ledger[k] EXCEPT !.forgiven = @ + 1]
       ELSE ledger[k]]
  /\ requests' = [requests EXCEPT ![r] = [pc |-> "over"]]
  /\ UNCHANGED now

Stale(b) == b.present /\ b.expires < now /\ b.blocked < now

\* cleanup(): one bounded batch, any of the rows whose window and block are over.
Cleanup ==
  \E batch \in SUBSET {k \in Keys : Stale(buckets[k])} :
    /\ batch # {}
    /\ buckets' = [k \in Keys |-> IF k \in batch THEN NoBucket ELSE buckets[k]]
    /\ ledger' = [k \in Keys |-> IF k \in batch THEN NoLedger ELSE ledger[k]]
    /\ UNCHANGED <<now, requests>>

\* Time passes; a transaction waits for its rows at most MaxWait of it.
Tick ==
  /\ now < MaxTime
  /\ \A r \in Requests : requests[r].pc = "entered" => requests[r].time + MaxWait > now
  /\ now' = now + 1
  /\ UNCHANGED <<buckets, requests, ledger>>

Next ==
  \/ \E r \in Requests : Enter(r) \/ Reserve(r) \/ Release(r)
  \/ Cleanup
  \/ Tick

Spec == Init /\ [][Next]_vars

(***************************************************************************)
(* Properties.                                                             *)
(***************************************************************************)
\* A row counts at least the attempts of its present window that were not
\* released, short of the releases of attempts an earlier window had counted:
\* apart from those no failure is ever forgotten (auth_throttle.py:206-217).
FailuresAreCounted ==
  \A k \in Keys :
    buckets[k].attempts + ledger[k].forgiven >= Cardinality(ledger[k].counted)

\* The lock of an e-mail address needs attempts from several addresses, the
\* lock of an address attempts at several e-mails (auth_throttle.py:173-181).
LockNeedsSpread ==
  \A k \in Keys :
    k[1] # "pair" /\ buckets[k].blocked > 0 => Cardinality(ledger[k].sources) > 1

\* A running block is neither shortened nor swept away, in whatever order the
\* requests that took their moment earlier get to their rows.
BlockIsKept ==
  [][\A k \in Keys : buckets[k].blocked >= now => buckets'[k].blocked >= buckets[k].blocked]_vars

=============================================================================
