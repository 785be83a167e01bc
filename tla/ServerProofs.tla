---------------------------- MODULE ServerProofs ----------------------------
(***************************************************************************)
(* Any number of instances, migrations and crashes: an instance serves     *)
(* only when its database is complete, and together the instances do to    *)
(* the database what Schema allows.  Any number of requests, any burst and *)
(* rate: what the limiter of an instance lets through in a window is       *)
(* bounded.                                                                *)
(***************************************************************************)
EXTENDS Server, FiniteSetTheorems, TLAPS

(* The inductive invariant.  The tables and the versions are the first n,  *)
(* of which every instance in its loop has seen or committed as many as    *)
(* its own index says; whoever left the loop found all of them; and the    *)
(* admin is there for those who went past the bootstrap.                   *)
StartTypeOK ==
  /\ step \in [Instances -> Starting \cup {"down", "serving"}]
  /\ current \in [Instances -> 0..LastMigration]
  /\ crashes \in Nat
  /\ users = {} \/ \E i \in Instances : users = {i}

Migrated(n) ==
  /\ tables = 1..n /\ versions = 1..n
  /\ \A i \in Instances : step[i] \notin {"down", "schema"} => current[i] <= n

LoopInv ==
  /\ \A i \in Instances :
       /\ step[i] \in {"migrate", "ddl", "recorded"} => current[i] < LastMigration
       /\ step[i] \in {"count", "create", "serving"} => tables = 1..LastMigration
  /\ users # {} => tables = 1..LastMigration /\ AdminConfigured

AdminInv ==
  \A i \in Instances :
    /\ step[i] = "create" => AdminConfigured
    /\ step[i] = "serving" /\ AdminConfigured => users # {}

StartInv ==
  /\ StartTypeOK
  /\ \E n \in 0..LastMigration : Migrated(n)
  /\ LoopInv /\ AdminInv

-----------------------------------------------------------------------------
(* What SELECT MAX(version) sees of the first n versions.                  *)
LEMMA MaxOfVersions == ASSUME NEW n \in Nat PROVE Max({0} \cup 1..n) = n
<1>1. n \in {0} \cup 1..n /\ \A y \in {0} \cup 1..n : n >= y
  OBVIOUS
<1>2. \A x \in {0} \cup 1..n : (\A y \in {0} \cup 1..n : x >= y) => x = n
  OBVIOUS
<1> QED BY <1>1, <1>2 DEF Max

(* There are no two admins.                                                *)
LEMMA AdminsCounted ==
  ASSUME NEW U, U = {} \/ \E i \in Instances : U = {i}
  PROVE  Cardinality(U) = IF U = {} THEN 0 ELSE 1
BY FS_EmptySet, FS_Singleton

(* The empty database satisfies the invariant.                             *)
LEMMA StartInvInit == StartInit => StartInv
<1> SUFFICES ASSUME StartInit PROVE StartInv
  OBVIOUS
<1>1. 0 \in 0..LastMigration /\ 1..0 = {}
  BY StartupAssumption
<1>2. StartTypeOK
  BY <1>1 DEF StartInit, StartTypeOK, Starting
<1>3. Migrated(0)
  BY <1>1 DEF StartInit, Migrated
<1>4. LoopInv /\ AdminInv
  BY DEF StartInit, LoopInv, AdminInv
<1> QED BY <1>1, <1>2, <1>3, <1>4 DEF StartInv

-----------------------------------------------------------------------------
(* The steps of an instance keep the invariant.                            *)

(* The bounds that a starting loop satisfies.                              *)
LEMMA LoopHeadIs ==
  ASSUME NEW n \in 0..LastMigration
  PROVE  LoopHead(n) = IF n = LastMigration THEN "count" ELSE "migrate"
BY DEF LoopHead

(* The statements that only move an instance.                              *)
LEMMA QuietSteps ==
  ASSUME StartInv, NEW i \in Instances,
         \/ Launch(i) \/ ExecDDL(i) \/ MigrationFails(i) \/ InsertVersion(i) \/ CountUsers(i)
         \/ Crash(i)
  PROVE  StartInv' /\ UNCHANGED <<tables, versions, users>>
<1> USE DEF StartInv, StepTo
<1>0. UNCHANGED <<current, tables, versions, users>>
  BY DEF Launch, ExecDDL, MigrationFails, InsertVersion, CountUsers, Crash
<1>1. StartTypeOK'
  BY StartupAssumption DEF StartTypeOK, Starting, Launch, ExecDDL, MigrationFails, InsertVersion,
     CountUsers, Crash
<1>2. PICK n \in 0..LastMigration : Migrated(n)
  OBVIOUS
<1>3. Migrated(n)'
  BY <1>0, <1>2 DEF Migrated, StartTypeOK, Launch, ExecDDL, MigrationFails, InsertVersion,
     CountUsers, Crash
<1>4. LoopInv'
  BY <1>0 DEF LoopInv, StartTypeOK, Launch, ExecDDL, MigrationFails, InsertVersion,
     CountUsers, Crash
<1>5. users # {} <=> Cardinality(users) > 0
  BY AdminsCounted DEF StartTypeOK
<1>6. AdminInv'
  BY <1>0, <1>5 DEF AdminInv, StartTypeOK, Launch, ExecDDL, MigrationFails, InsertVersion,
     CountUsers, Crash
<1> QED BY <1>0, <1>1, <1>3, <1>4, <1>6

(* The version that starts the loop.                                       *)
LEMMA ReadVersionStep ==
  ASSUME StartInv, NEW i \in Instances, ReadVersion(i)
  PROVE  StartInv' /\ UNCHANGED <<tables, versions, users>>
<1> USE DEF StartInv, StepTo, ReadVersion
<1>1. PICK n \in 0..LastMigration : Migrated(n)
  OBVIOUS
<1>2. n \in Nat /\ Max({0} \cup versions) = n
  BY <1>1, MaxOfVersions, StartupAssumption DEF Migrated
<1>3. /\ step[i] = "schema" /\ step' = [step EXCEPT ![i] = LoopHead(n)]
      /\ current' = [current EXCEPT ![i] = n]
      /\ UNCHANGED <<versions, tables, users, crashes>>
  BY <1>2
<1>4. LoopHead(n) = IF n = LastMigration THEN "count" ELSE "migrate"
  BY LoopHeadIs
<1> HIDE DEF ReadVersion
<1>5. StartTypeOK'
  BY <1>3, <1>4 DEF StartTypeOK, Starting
<1>6. Migrated(n)'
  BY <1>1, <1>2, <1>3 DEF Migrated, StartTypeOK
<1>7. LoopInv'
  BY <1>1, <1>2, <1>3, <1>4, StartupAssumption DEF LoopInv, StartTypeOK, Migrated
<1>8. AdminInv'
  BY <1>3, <1>4 DEF AdminInv, StartTypeOK
<1> QED BY <1>3, <1>5, <1>6, <1>7, <1>8

(* A migration is new, or was committed by another instance already.       *)
LEMMA CommitStep ==
  ASSUME StartInv, NEW i \in Instances, Commit(i)
  PROVE  /\ StartInv'
         /\ Database!Migration \/ UNCHANGED <<tables, versions, users>>
<1> USE DEF StartInv, StepTo, Commit
<1>1. PICK n \in 0..LastMigration : Migrated(n)
  OBVIOUS
<1> DEFINE c == current[i]
<1>2. c \in 0..n /\ c < LastMigration /\ n \in Nat /\ c + 1 \in 1..LastMigration
  BY <1>1, StartupAssumption DEF Migrated, LoopInv, StartTypeOK
<1>3. /\ step[i] = "recorded" /\ step' = [step EXCEPT ![i] = LoopHead(c + 1)]
      /\ current' = [current EXCEPT ![i] = c + 1]
      /\ versions' = 1..n \cup {c + 1} /\ tables' = 1..n \cup {c + 1}
      /\ UNCHANGED <<users, crashes>>
  BY <1>1 DEF Migrated, StartTypeOK
<1>4. LoopHead(c + 1) = IF c + 1 = LastMigration THEN "count" ELSE "migrate"
  BY <1>2, LoopHeadIs
<1> HIDE DEF Commit
<1>5. StartTypeOK'
  BY <1>2, <1>3, <1>4 DEF StartTypeOK, Starting
<1>6. PICK m \in 0..LastMigration : m = IF c = n THEN n + 1 ELSE n
  BY <1>2
<1>7. n <= m /\ c + 1 <= m /\ 1..n \cup {c + 1} = 1..m
  BY <1>2, <1>6
<1>8. Migrated(m)'
  BY <1>1, <1>2, <1>3, <1>7 DEF Migrated, StartTypeOK
<1>9. LastMigration \in Nat /\ (tables = 1..LastMigration => tables' = 1..LastMigration)
  <2>1. SUFFICES ASSUME 1..n = 1..LastMigration PROVE 1..m = 1..LastMigration
    BY <1>1, <1>3, <1>7, StartupAssumption DEF Migrated
  <2>2. LastMigration \in 1..n
    BY <2>1, StartupAssumption
  <2>3. m = n
    BY <1>2, <1>6, <2>2, StartupAssumption
  <2> QED BY <2>1, <2>3
<1>10. LoopInv'
  <2>1. c + 1 = LastMigration => tables' = 1..LastMigration
    BY <1>2, <1>3, <1>7, StartupAssumption
  <2> QED BY <1>2, <1>3, <1>4, <1>9, <2>1 DEF LoopInv, StartTypeOK
<1>11. AdminInv'
  BY <1>3, <1>4 DEF AdminInv, StartTypeOK
<1>12. CASE c < n
  <2>1. tables' = tables /\ versions' = versions
    BY <1>1, <1>2, <1>3, <1>12 DEF Migrated
  <2> QED BY <1>3, <1>5, <1>8, <1>10, <1>11, <2>1
<1>13. CASE c = n
  <2>1. /\ n + 1 \in 1..LastMigration /\ (n + 1) - 1 = n
        /\ tables' = 1..(n + 1) /\ versions' = 1..(n + 1)
    BY <1>2, <1>3, <1>13
  <2>2. Database!Migration
    BY <1>1, <1>3, <2>1 DEF Database!Migration, Migrated
  <2> QED BY <1>5, <1>8, <1>10, <1>11, <2>2
<1> QED BY <1>2, <1>12, <1>13

(* The first to create the admin goes on, the others find the e-mail taken.*)
LEMMA CreateAdminStep ==
  ASSUME StartInv, NEW i \in Instances, CreateAdmin(i)
  PROVE  /\ StartInv'
         /\ Database!Bootstrap \/ UNCHANGED <<tables, versions, users>>
<1> USE DEF StartInv, StepTo, CreateAdmin
<1>1. tables = 1..LastMigration /\ AdminConfigured
  BY DEF LoopInv, AdminInv
<1>2. StartTypeOK'
  BY DEF StartTypeOK, Starting
<1>3. PICK n \in 0..LastMigration : Migrated(n)
  OBVIOUS
<1>4. Migrated(n)'
  BY <1>3 DEF Migrated, StartTypeOK
<1>5. LoopInv'
  BY <1>1 DEF LoopInv, StartTypeOK
<1>6. AdminInv'
  BY DEF AdminInv, StartTypeOK
<1>7. Database!Bootstrap \/ UNCHANGED <<tables, versions, users>>
  <2>1. CASE users # {}
    BY <2>1
  <2>2. CASE users = {}
    <3>1. Cardinality(users) = 0 /\ Cardinality(users') = 1
      BY <2>2, FS_EmptySet, FS_Singleton
    <3> QED BY <1>1, <3>1 DEF Database!Bootstrap
  <2> QED BY <2>1, <2>2
<1> QED BY <1>2, <1>4, <1>5, <1>6, <1>7

(* Every step of the server.                                               *)
LEMMA ServerStep ==
  ASSUME StartInv, [ServerNext]_serverVars
  PROVE  /\ StartInv'
         /\ Database!Migration \/ Database!Bootstrap \/ UNCHANGED <<tables, versions, users>>
<1>1. CASE UNCHANGED startVars
  BY <1>1 DEF startVars, StartInv, StartTypeOK, Migrated, LoopInv, AdminInv
<1>2. CASE \E i \in Instances : Progress(i)
  BY <1>2, QuietSteps, ReadVersionStep, CommitStep, CreateAdminStep DEF Progress
<1>3. CASE \E i \in Instances : Crash(i)
  BY <1>3, QuietSteps
<1> QED BY <1>1, <1>2, <1>3 DEF ServerNext, Serve, ServerStarts, ServerCrashes, serverVars
-----------------------------------------------------------------------------
(* The invariant holds for the server.                                    *)
LEMMA StartInvariant == ServerSpec => []StartInv
<1>1. ServerInit => StartInv
  BY StartInvInit DEF ServerInit
<1>2. StartInv /\ [ServerNext]_serverVars => StartInv'
  BY ServerStep
<1> QED BY <1>1, <1>2, PTL DEF ServerSpec

(* An instance that serves finds every table and, if one was configured,   *)
(* an admin (Migrate and the bootstrap in main).                           *)
THEOREM InstancesServeWhenReady == ServerSpec => []ServesWhenReady
<1>1. StartInv => ServesWhenReady
  BY DEF StartInv, LoopInv, AdminInv, ServesWhenReady
<1> QED BY <1>1, StartInvariant, PTL

(* Together the instances migrate the database as one would, and make one  *)
(* admin at most (Migrate and the bootstrap in main).                      *)
THEOREM StartImplementsSchema == ServerSpec => ImplementsSchema
<1>1. ServerInit => Database!SchemaInit
  BY FS_EmptySet DEF ServerInit, StartInit, Database!SchemaInit
<1>2. StartInv /\ [ServerNext]_serverVars =>
        [Database!Migration \/ Database!Bootstrap]_<<tables, versions, Cardinality(users)>>
  BY ServerStep
<1> QED BY <1>1, <1>2, StartInvariant, PTL DEF ServerSpec, ImplementsSchema, Database!SchemaSpec
-----------------------------------------------------------------------------
(* The limiter.  Its inductive invariant is a potential: in a window, what *)
(* was let through, what the two buckets of the window still hold and the  *)
(* requests that hold an older one never exceed the bound.                 *)
Bucket == [tokens : 0..Burst, lastFill : 0..MaxClock]

LimiterTypeOK ==
  /\ buckets \in Seq(Bucket)
  /\ entry = NoBucket \/ (entry = Len(buckets) /\ entry > 0)
  /\ holds \in [Requests -> 1..Len(buckets) \cup {NoBucket}]
  /\ pruning \in BOOLEAN
  /\ clock \in 0..MaxClock
  /\ granted \in [0..(MaxClock + 1) -> Nat]
  /\ stale \in [0..MaxClock -> Nat]

(* No bucket was filled in the future, and nothing is let through there;   *)
(* prune deletes the bucket that is in the map.                            *)
ClockInv ==
  /\ \A k \in 1..Len(buckets) : buckets[k].lastFill <= clock
  /\ \A t \in 0..(MaxClock + 1) : t > clock => granted[t] = granted[clock + 1]
  /\ pruning => entry # NoBucket

(* What bucket k can still let through without a refill.                   *)
Level(k) == IF k \in 1..Len(buckets) THEN Filled(buckets[k]) ELSE Burst

(* Requests that hold one of the first m buckets.                          *)
Holders(m) == {r \in Requests : holds[r] \in 1..m}

(* In the window from s to now, only the first m buckets were deleted      *)
(* before it and at most two others were ever in the map, the second of    *)
(* which prune cannot find old yet; and what was let through, with what    *)
(* could still be, stays within the bound.                                 *)
Window(s, m) ==
  /\ m <= Len(buckets) /\ Len(buckets) <= m + 2
  /\ Len(buckets) = m => entry = NoBucket
  /\ Len(buckets) = m + 2 =>
       entry # NoBucket /\ ~pruning /\ s <= buckets[m + 2].lastFill
  /\ granted[clock + 1] - granted[s]
       + Cardinality(Holders(m)) + Level(m + 1) + Level(m + 2)
     <= 2 * (Burst + Rate * (clock - s)) + stale[s]

WindowInv == \A s \in 0..clock : clock - s < Idle => \E m \in Nat : Window(s, m)

(* The windows that have ended kept within the bound.                      *)
PastInv ==
  \A s, t \in 0..clock : s <= t /\ t < clock /\ t - s < Idle =>
    granted[t + 1] - granted[s] <= 2 * (Burst + Rate * (t - s)) + stale[s]

LimiterInv == LimiterTypeOK /\ ClockInv /\ WindowInv /\ PastInv

(* What the smaller of two numbers is.                                     *)
LEMMA MinOfTwo ==
  ASSUME NEW a \in Int, NEW b \in Int
  PROVE  Min({a, b}) = IF a <= b THEN a ELSE b
<1> DEFINE x == IF a <= b THEN a ELSE b
<1>1. x \in {a, b} /\ \A y \in {a, b} : x <= y
  OBVIOUS
<1>2. \A z \in {a, b} : (\A y \in {a, b} : z <= y) => z = x
  OBVIOUS
<1> QED BY <1>1, <1>2 DEF Min

(* A bucket holds up to a burst, and a fresh or used one what it is said   *)
(* to.                                                                     *)
LEMMA FilledIs ==
  ASSUME NEW b \in Bucket, clock \in Nat, b.lastFill <= clock
  PROVE  /\ Filled(b) = IF Burst <= b.tokens + (clock - b.lastFill) * Rate
                        THEN Burst ELSE b.tokens + (clock - b.lastFill) * Rate
         /\ Filled(b) \in 0..Burst
<1> DEFINE age == clock - b.lastFill
<1>1. age \in Nat /\ b.tokens \in Nat /\ Burst \in Nat /\ Rate \in Nat
  BY LimiterAssumption DEF Bucket
<1>2. age * Rate \in Nat
  BY <1>1
<1>3. Filled(b) = Min({Burst, b.tokens + age * Rate})
  BY DEF Filled
<1> HIDE DEF age
<1>4. Filled(b) = IF Burst <= b.tokens + age * Rate THEN Burst ELSE b.tokens + age * Rate
  BY <1>1, <1>2, <1>3, MinOfTwo
<1>5. Filled(b) \in 0..Burst
  BY <1>1, <1>2, <1>4
<1> QED BY <1>4, <1>5 DEF age

(* The same, where only the bounds are needed.                             *)
LEMMA FilledType ==
  ASSUME NEW b \in Bucket, clock \in Nat, b.lastFill <= clock
  PROVE  Filled(b) \in 0..Burst
BY FilledIs

(* A bucket that has just been filled holds its tokens.                    *)
LEMMA FilledNow ==
  ASSUME NEW b \in Bucket, clock \in Nat, b.lastFill = clock
  PROVE  Filled(b) = b.tokens
<1>1. b.tokens \in 0..Burst /\ Burst \in Nat /\ Rate \in Nat
  BY LimiterAssumption DEF Bucket
<1>2. (clock - b.lastFill) * Rate = 0
  BY <1>1
<1>3. Filled(b) = IF Burst <= b.tokens + 0 THEN Burst ELSE b.tokens + 0
  BY <1>2, FilledIs
<1> QED BY <1>1, <1>3

(* The sequences of buckets that the steps make.                           *)
LEMMA Appended ==
  ASSUME NEW q \in Seq(Bucket), NEW b \in Bucket
  PROVE  /\ Append(q, b) \in Seq(Bucket) /\ Len(Append(q, b)) = Len(q) + 1
         /\ \A k \in 1..Len(q) : Append(q, b)[k] = q[k]
         /\ Append(q, b)[Len(q) + 1] = b
OBVIOUS

(* And those where one bucket is changed.                                  *)
LEMMA Updated ==
  ASSUME NEW q \in Seq(Bucket), NEW b \in Bucket, NEW k \in 1..Len(q)
  PROVE  /\ [q EXCEPT ![k] = b] \in Seq(Bucket) /\ Len([q EXCEPT ![k] = b]) = Len(q)
         /\ \A j \in 1..Len(q) : [q EXCEPT ![k] = b][j] = IF j = k THEN b ELSE q[j]
OBVIOUS

(* What the types say of numbers.                                          *)
LEMMA Numbers ==
  ASSUME LimiterTypeOK
  PROVE  /\ Len(buckets) \in Nat /\ clock \in Nat /\ clock <= MaxClock
         /\ MaxClock \in Nat /\ Burst \in Nat /\ Rate \in Nat /\ Burst > 0
         /\ NoBucket \notin Nat
BY LimiterAssumption DEF LimiterTypeOK

(* Of a bucket.                                                            *)
LEMMA BucketTypes ==
  ASSUME LimiterTypeOK, ClockInv, NEW k \in 1..Len(buckets)
  PROVE  /\ buckets[k] \in Bucket
         /\ buckets[k].lastFill \in Nat /\ buckets[k].lastFill <= clock
         /\ buckets[k].tokens \in Nat /\ buckets[k].tokens <= Burst
<1>1. buckets[k] \in Bucket /\ Burst \in Nat
  BY LimiterAssumption DEF LimiterTypeOK
<1> QED BY <1>1 DEF ClockInv, Bucket

(* Of the counts of a window.                                              *)
LEMMA CountTypes ==
  ASSUME LimiterTypeOK, NEW s \in 0..clock
  PROVE  /\ s \in Nat /\ clock - s \in Nat
         /\ granted[s] \in Nat /\ granted[clock + 1] \in Nat /\ stale[s] \in Nat
BY LimiterAssumption DEF LimiterTypeOK

(* What the prover needs of products.                                      *)
LEMMA Distributes ==
  ASSUME NEW a \in Nat, NEW b \in Nat
  PROVE  /\ a * b \in Nat /\ (a + 1) * b = a * b + b
         /\ b * a \in Nat /\ b * (a + 1) = b * a + b
OBVIOUS

(* The level of a bucket, of those to come too, is at most a burst.        *)
LEMMA LevelType ==
  ASSUME LimiterTypeOK, ClockInv, NEW k
  PROVE  Level(k) \in 0..Burst
<1>1. CASE k \in 1..Len(buckets)
  BY <1>1, Numbers, BucketTypes, FilledType DEF Level
<1>2. CASE k \notin 1..Len(buckets)
  BY <1>2, Numbers DEF Level
<1> QED BY <1>1, <1>2

(* Holders are finitely many.                                              *)
LEMMA HoldersCounted ==
  ASSUME NEW m
  PROVE  IsFiniteSet(Holders(m)) /\ Cardinality(Holders(m)) \in Nat
<1>1. Holders(m) \subseteq Requests
  BY DEF Holders
<1> QED BY <1>1, LimiterAssumption, FS_Subset, FS_CardinalityType

(* LoadOrStore keeps the types.                                            *)
LEMMA LoadType ==
  ASSUME LimiterTypeOK, ClockInv, NEW r \in Requests, Load(r)
  PROVE  LimiterTypeOK' /\ ClockInv'
<1>1. CASE entry # NoBucket
  <2>1. entry \in 1..Len(buckets)
    BY <1>1, Numbers DEF LimiterTypeOK
  <2> QED BY <1>1, <2>1 DEF Load, LimiterTypeOK, ClockInv
<1>2. CASE entry = NoBucket
  <2> DEFINE b == [tokens |-> Burst, lastFill |-> clock]
  <2>1. b \in Bucket /\ b.lastFill = clock
    BY Numbers DEF Bucket
  <2>2. /\ buckets' = Append(buckets, b) /\ entry' = Len(buckets')
        /\ holds' = [holds EXCEPT ![r] = entry']
        /\ UNCHANGED <<pruning, clock, granted, stale>>
    BY <1>2 DEF Load
  <2> HIDE DEF b
  <2>3. buckets \in Seq(Bucket)
    BY DEF LimiterTypeOK
  <2>4. /\ buckets' \in Seq(Bucket) /\ Len(buckets') = Len(buckets) + 1
        /\ \A k \in 1..Len(buckets) : buckets'[k] = buckets[k]
        /\ buckets'[Len(buckets) + 1] = b
    BY <2>1, <2>2, <2>3, Appended
  <2>5. entry' > 0 /\ entry' \in 1..Len(buckets') /\ entry' # NoBucket
    BY <2>2, <2>4, Numbers
  <2>6. holds' \in [Requests -> 1..Len(buckets') \cup {NoBucket}]
    <3>1. holds \in [Requests -> 1..Len(buckets) \cup {NoBucket}]
      BY DEF LimiterTypeOK
    <3>2. 1..Len(buckets) \subseteq 1..Len(buckets')
      BY <2>4, Numbers
    <3> QED BY <2>2, <2>5, <3>1, <3>2
  <2>7. LimiterTypeOK'
    BY <2>2, <2>4, <2>5, <2>6 DEF LimiterTypeOK
  <2>8. ASSUME NEW k \in 1..Len(buckets') PROVE buckets'[k].lastFill <= clock
    BY <2>1, <2>4, Numbers, BucketTypes
  <2>9. ClockInv'
    BY <2>2, <2>5, <2>8 DEF ClockInv
  <2> QED BY <2>7, <2>9
<1> QED BY <1>1, <1>2

(* What a request that takes from bucket k, of level f, does.              *)
LEMMA Taken ==
  ASSUME LimiterTypeOK, ClockInv, NEW r \in Requests, Take(r),
         NEW CONSTANT k, k = holds[r], NEW CONSTANT f, f = Level(k)
  PROVE  /\ k \in 1..Len(buckets) /\ f \in 0..Burst
         /\ buckets' \in Seq(Bucket) /\ Len(buckets') = Len(buckets)
         /\ buckets'[k].lastFill = clock
         /\ Level(k)' = IF f < 1 THEN f ELSE f - 1
         /\ \A j \in 1..Len(buckets) : j # k => buckets'[j] = buckets[j]
         /\ \A j \in Nat : j # k => Level(j)' = Level(j)
         /\ holds' = [holds EXCEPT ![r] = NoBucket]
         /\ granted' = [t \in 0..(MaxClock + 1) |->
              IF f >= 1 /\ t > clock THEN granted[t] + 1 ELSE granted[t]]
         /\ UNCHANGED <<entry, pruning, clock, stale>>
<1>1. k \in 1..Len(buckets)
  BY DEF Take, LimiterTypeOK
<1>2. f = Filled(buckets[k]) /\ f \in 0..Burst
  BY <1>1, LevelType DEF Level
<1>3. PICK b : b = [tokens |-> IF f < 1 THEN f ELSE f - 1, lastFill |-> clock]
  OBVIOUS
<1>4. /\ buckets' = [buckets EXCEPT ![k] = b] /\ holds' = [holds EXCEPT ![r] = NoBucket]
      /\ granted' = [t \in DOMAIN granted |->
            IF f >= 1 /\ t > clock THEN granted[t] + 1 ELSE granted[t]]
      /\ UNCHANGED <<entry, pruning, clock, stale>>
  BY <1>2, <1>3 DEF Take
<1>5. b \in Bucket /\ b.lastFill = clock /\ b.tokens = (IF f < 1 THEN f ELSE f - 1)
  BY <1>2, <1>3, Numbers DEF Bucket
<1>6. buckets \in Seq(Bucket) /\ DOMAIN granted = 0..(MaxClock + 1)
  BY DEF LimiterTypeOK
<1>7. /\ buckets' \in Seq(Bucket) /\ Len(buckets') = Len(buckets)
      /\ \A j \in 1..Len(buckets) : buckets'[j] = IF j = k THEN b ELSE buckets[j]
  BY <1>1, <1>4, <1>5, <1>6, Updated
<1>8. Filled(b) = b.tokens
  BY <1>5, FilledNow, Numbers
<1>9. Level(k)' = IF f < 1 THEN f ELSE f - 1
  BY <1>1, <1>4, <1>5, <1>7, <1>8 DEF Level, Filled
<1>10. \A j \in Nat : j # k => Level(j)' = Level(j)
  BY <1>4, <1>7 DEF Level, Filled
<1> QED BY <1>1, <1>2, <1>4, <1>5, <1>6, <1>7, <1>9, <1>10

(* So does a request that takes.                                           *)
LEMMA TakeType ==
  ASSUME LimiterTypeOK, ClockInv, NEW r \in Requests, Take(r)
  PROVE  LimiterTypeOK' /\ ClockInv'
<1>1. PICK k : k = holds[r]
  OBVIOUS
<1>2. PICK f : f = Level(k)
  OBVIOUS
<1>3. /\ k \in 1..Len(buckets) /\ f \in 0..Burst
      /\ buckets' \in Seq(Bucket) /\ Len(buckets') = Len(buckets)
      /\ buckets'[k].lastFill = clock
      /\ \A j \in 1..Len(buckets) : j # k => buckets'[j] = buckets[j]
      /\ holds' = [holds EXCEPT ![r] = NoBucket]
      /\ granted' = [t \in 0..(MaxClock + 1) |->
           IF f >= 1 /\ t > clock THEN granted[t] + 1 ELSE granted[t]]
      /\ UNCHANGED <<entry, pruning, clock, stale>>
  BY <1>1, <1>2, Taken
<1>4. LimiterTypeOK'
  BY <1>3, Numbers DEF LimiterTypeOK
<1>5. ASSUME NEW j \in 1..Len(buckets') PROVE buckets'[j].lastFill <= clock
  BY <1>3, Numbers, BucketTypes
<1>6. \A t \in 0..(MaxClock + 1) : t > clock => granted'[t] = granted'[clock + 1]
  BY <1>3, Numbers DEF ClockInv
<1> QED BY <1>3, <1>4, <1>5, <1>6 DEF ClockInv

(* The steps keep the types.                                               *)
LEMMA LimiterTypeStep ==
  ASSUME LimiterTypeOK, ClockInv, LimiterNext
  PROVE  LimiterTypeOK' /\ ClockInv'
<1>1. CASE PruneLooks \/ PruneDeletes
  BY <1>1 DEF PruneLooks, PruneDeletes, LimiterTypeOK, ClockInv
<1>2. CASE Later
  <2>1. Cardinality(Stale) \in Nat
    <3>1. Stale \subseteq Requests
      BY DEF Stale
    <3> QED BY <3>1, LimiterAssumption, FS_Subset, FS_CardinalityType
  <2>2. clock' = clock + 1 /\ clock' \in 0..MaxClock /\ clock + 1 \in 0..(MaxClock + 1)
    BY <1>2, Numbers DEF Later
  <2>3. LimiterTypeOK'
    BY <1>2, <2>1, <2>2 DEF Later, LimiterTypeOK
  <2>4. \A k \in 1..Len(buckets) : buckets[k].lastFill <= clock + 1
    <3> SUFFICES ASSUME NEW k \in 1..Len(buckets) PROVE buckets[k].lastFill <= clock + 1
      OBVIOUS
    <3> QED BY Numbers, BucketTypes
  <2>5. ASSUME NEW t \in 0..(MaxClock + 1), t > clock + 1
        PROVE  granted[t] = granted[clock + 2]
    <3>1. clock + 2 \in 0..(MaxClock + 1) /\ clock + 2 > clock /\ t > clock
      BY <2>5, Numbers
    <3> QED BY <3>1 DEF ClockInv
  <2>6. clock' + 1 = clock + 2
    BY <2>2, Numbers
  <2>7. ClockInv'
    BY <1>2, <2>2, <2>4, <2>5, <2>6 DEF Later, ClockInv
  <2> QED BY <2>3, <2>7
<1> QED BY <1>1, <1>2, LoadType, TakeType DEF LimiterNext

(* A request that asks gets a bucket no other than the one in the map.     *)
LEMMA LoadKeepsWindow ==
  ASSUME LimiterTypeOK, ClockInv, NEW r \in Requests, Load(r),
         NEW s \in 0..clock, NEW m \in Nat, Window(s, m)
  PROVE  Window(s, m)'
<1>1. clock' = clock /\ granted' = granted /\ stale' = stale /\ pruning' = pruning
      /\ holds' = [holds EXCEPT ![r] = entry'] /\ holds[r] = NoBucket
  BY DEF Load
<1>2. /\ entry = NoBucket \/ (entry = Len(buckets) /\ entry > 0)
      /\ holds \in [Requests -> 1..Len(buckets) \cup {NoBucket}]
  BY DEF LimiterTypeOK
<1>3. ASSUME entry' > m, entry' \in Nat PROVE Holders(m)' = Holders(m)
  <2>1. entry' \notin 1..m /\ NoBucket \notin 1..m
    BY <1>3, Numbers
  <2> QED BY <1>1, <1>2, <2>1 DEF Holders
<1>4. CASE entry # NoBucket
  <2>1. buckets' = buckets /\ entry' = entry
    BY <1>4 DEF Load
  <2>2. entry > m
    BY <1>2, <1>4, Numbers DEF Window
  <2>3. Holders(m)' = Holders(m)
    BY <1>2, <1>3, <1>4, <2>1, <2>2, Numbers
  <2>4. \A k : Level(k)' = Level(k)
    BY <1>1, <2>1 DEF Level, Filled
  <2> QED BY <1>1, <2>1, <2>3, <2>4 DEF Window
<1>5. CASE entry = NoBucket
  <2>1. PICK b : b = [tokens |-> Burst, lastFill |-> clock]
    OBVIOUS
  <2>2. buckets' = Append(buckets, b) /\ entry' = Len(buckets')
    BY <1>5, <2>1 DEF Load
  <2>3. b \in Bucket /\ b.lastFill = clock /\ b.tokens = Burst
    BY <2>1, Numbers DEF Bucket
  <2>4. /\ Len(buckets') = Len(buckets) + 1
        /\ \A k \in 1..Len(buckets) : buckets'[k] = buckets[k]
        /\ buckets'[Len(buckets) + 1] = b
    BY <2>2, <2>3, Appended DEF LimiterTypeOK
  <2>5. m <= Len(buckets) /\ Len(buckets) < m + 2 /\ ~pruning
    BY <1>5, Numbers DEF Window, ClockInv
  <2>6. Holders(m)' = Holders(m)
    BY <1>3, <2>2, <2>4, <2>5, Numbers
  <2>7. Filled(b) = Burst
    BY <2>3, FilledNow, Numbers
  <2>8. ASSUME NEW k \in Nat PROVE Level(k)' = Level(k)
    <3>1. CASE k \in 1..Len(buckets)
      <4>1. k \in 1..Len(buckets') /\ buckets'[k] = buckets[k]
        BY <2>4, <3>1, Numbers
      <4> QED BY <1>1, <3>1, <4>1 DEF Level, Filled
    <3>2. CASE k = Len(buckets) + 1
      <4>1. k \in 1..Len(buckets') /\ buckets'[k] = b /\ Level(k) = Burst
        BY <2>4, <3>2, Numbers DEF Level
      <4> QED BY <1>1, <2>7, <4>1 DEF Level, Filled
    <3>3. CASE k \notin 1..Len(buckets) /\ k # Len(buckets) + 1
      BY <2>4, <3>3, Numbers DEF Level
    <3> QED BY <3>1, <3>2, <3>3
  <2>9. Len(buckets') = m + 2 => s <= buckets'[m + 2].lastFill
    BY <2>3, <2>4, Numbers
  <2>10. entry' # NoBucket /\ m <= Len(buckets') /\ Len(buckets') <= m + 2
         /\ Len(buckets') # m
    BY <2>2, <2>4, <2>5, Numbers
  <2>11. Level(m + 1)' = Level(m + 1) /\ Level(m + 2)' = Level(m + 2)
    BY <2>8
  <2> QED BY <1>1, <2>5, <2>6, <2>9, <2>10, <2>11 DEF Window
<1> QED BY <1>4, <1>5

(* A request that is let through takes from what a bucket could let        *)
(* through, or is one of those that held a bucket deleted before.          *)
LEMMA TakeKeepsWindow ==
  ASSUME LimiterTypeOK, ClockInv, NEW r \in Requests, Take(r),
         NEW s \in 0..clock, NEW m \in Nat, Window(s, m)
  PROVE  Window(s, m)'
<1>1. PICK k : k = holds[r]
  OBVIOUS
<1>2. PICK f : f = Level(k)
  OBVIOUS
<1>3. /\ k \in 1..Len(buckets) /\ f \in 0..Burst
      /\ Len(buckets') = Len(buckets) /\ buckets'[k].lastFill = clock
      /\ Level(k)' = IF f < 1 THEN f ELSE f - 1
      /\ \A j \in 1..Len(buckets) : j # k => buckets'[j] = buckets[j]
      /\ \A j \in Nat : j # k => Level(j)' = Level(j)
      /\ holds' = [holds EXCEPT ![r] = NoBucket]
      /\ granted' = [t \in 0..(MaxClock + 1) |->
           IF f >= 1 /\ t > clock THEN granted[t] + 1 ELSE granted[t]]
      /\ UNCHANGED <<entry, pruning, clock, stale>>
  BY <1>1, <1>2, Taken
<1> DEFINE one == IF f < 1 THEN 0 ELSE 1
<1>4. /\ granted[clock + 1] \in Nat /\ granted[s] \in Nat
      /\ granted'[clock + 1] = granted[clock + 1] + one /\ granted'[s] = granted[s]
  <2>1. granted[clock + 1] \in Nat /\ granted[s] \in Nat
    BY CountTypes
  <2>2. /\ clock + 1 \in 0..(MaxClock + 1) /\ clock + 1 > clock
        /\ s \in 0..(MaxClock + 1) /\ ~(s > clock)
    BY Numbers
  <2>3. granted' = [t \in 0..(MaxClock + 1) |->
          IF f >= 1 /\ t > clock THEN granted[t] + 1 ELSE granted[t]]
    BY <1>3
  <2>4. /\ granted'[clock + 1] = IF f >= 1 THEN granted[clock + 1] + 1 ELSE granted[clock + 1]
        /\ granted'[s] = granted[s]
    BY <2>2, <2>3
  <2>5. f >= 1 <=> ~(f < 1)
    BY <1>3, Numbers
  <2> QED BY <2>1, <2>4, <2>5
<1>5. IsFiniteSet(Holders(m)) /\ Cardinality(Holders(m)) \in Nat
  BY HoldersCounted
<1>6. Level(m + 1) \in Nat /\ Level(m + 2) \in Nat /\ one \in {0, 1}
  BY LevelType, Numbers
<1>7. holds \in [Requests -> 1..Len(buckets) \cup {NoBucket}] /\ NoBucket \notin Nat
  BY Numbers DEF LimiterTypeOK
<1>8. ASSUME Len(buckets) = m + 2 PROVE s <= buckets'[m + 2].lastFill
  <2>1. s <= buckets[m + 2].lastFill /\ m + 2 \in 1..Len(buckets) /\ s <= clock
    BY <1>8, Numbers DEF Window
  <2>2. CASE k = m + 2
    BY <1>3, <2>1, <2>2
  <2>3. CASE k # m + 2
    BY <1>3, <2>1, <2>3
  <2> QED BY <2>2, <2>3
<1>9. Cardinality(Holders(m)') + Level(m + 1)' + Level(m + 2)' + one
        <= Cardinality(Holders(m)) + Level(m + 1) + Level(m + 2)
      /\ Cardinality(Holders(m)') \in Nat /\ Level(m + 1)' \in Nat /\ Level(m + 2)' \in Nat
  <2>1. CASE k <= m
    <3>1. r \in Holders(m) /\ Holders(m)' = Holders(m) \ {r}
      BY <1>1, <1>3, <1>7, <2>1, Numbers DEF Holders
    <3>2. Cardinality(Holders(m)') = Cardinality(Holders(m)) - 1
          /\ Cardinality(Holders(m)') \in Nat
      <4>1. Cardinality(Holders(m) \ {r}) = Cardinality(Holders(m)) - 1
        BY <1>5, <3>1, FS_RemoveElement
      <4>2. Cardinality(Holders(m) \ {r}) \in Nat
        BY <1>5, <3>1, FS_RemoveElement, FS_CardinalityType
      <4> QED BY <3>1, <4>1, <4>2
    <3>3. Level(m + 1)' = Level(m + 1) /\ Level(m + 2)' = Level(m + 2)
      BY <1>3, <2>1, Numbers
    <3> QED BY <1>5, <1>6, <3>2, <3>3
  <2>2. CASE k > m
    <3>1. Holders(m)' = Holders(m)
      BY <1>1, <1>3, <1>7, <2>2, Numbers DEF Holders
    <3>2. k = m + 1 \/ k = m + 2
      BY <1>3, <2>2, Numbers DEF Window
    <3>3. /\ Level(m + 1)' + Level(m + 2)' + one = Level(m + 1) + Level(m + 2)
          /\ Level(m + 1)' \in Nat /\ Level(m + 2)' \in Nat
      <4>1. f \in Nat /\ f = Level(k) /\ Level(k)' = f - one /\ f - one \in Nat
        BY <1>2, <1>3, Numbers
      <4>2. CASE k = m + 1
        <5>1. Level(m + 2)' = Level(m + 2)
          BY <1>3, <4>2, Numbers
        <5> QED BY <1>6, <4>1, <4>2, <5>1
      <4>3. CASE k = m + 2
        <5>1. Level(m + 1)' = Level(m + 1)
          BY <1>3, <4>3, Numbers
        <5> QED BY <1>6, <4>1, <4>3, <5>1
      <4> QED BY <3>2, <4>2, <4>3
    <3> QED BY <1>5, <1>6, <3>1, <3>3
  <2> QED BY <1>3, <2>1, <2>2, Numbers
<1> HIDE DEF one
<1> DEFINE bound == 2 * (Burst + Rate * (clock - s)) + stale[s]
<1>10. bound \in Int
  <2>1. stale[s] \in Nat
    BY CountTypes
  <2>2. PICK age \in Nat : age = clock - s
    BY Numbers
  <2>3. Rate * age \in Nat
    BY Numbers, Distributes
  <2>4. bound = 2 * (Burst + Rate * age) + stale[s]
    BY <2>2
  <2> HIDE DEF bound
  <2> QED BY <2>1, <2>3, <2>4, Numbers
<1>11. granted[clock + 1] - granted[s] + Cardinality(Holders(m)) + Level(m + 1) + Level(m + 2)
         <= bound
  BY DEF Window
<1>12. granted'[clock + 1] - granted'[s] + Cardinality(Holders(m)') + Level(m + 1)'
         + Level(m + 2)' <= bound
  <2> HIDE DEF bound
  <2> QED BY <1>4, <1>5, <1>6, <1>9, <1>10, <1>11
<1>13. (2 * (Burst + Rate * (clock - s)) + stale[s])' = bound
  BY <1>3
<1> QED BY <1>3, <1>8, <1>12, <1>13 DEF Window

(* prune finds no bucket old that was made in the window.                  *)
LEMMA PruneKeepsWindow ==
  ASSUME LimiterTypeOK, ClockInv, PruneLooks \/ PruneDeletes,
         NEW s \in 0..clock, clock - s < Idle, NEW m \in Nat, Window(s, m)
  PROVE  Window(s, m)'
<1>1. UNCHANGED <<buckets, holds, clock, granted, stale>>
  BY DEF PruneLooks, PruneDeletes
<1>2. \A k : Level(k)' = Level(k)
  BY <1>1 DEF Level, Filled
<1>3. Holders(m)' = Holders(m)
  BY <1>1 DEF Holders
<1>4. Idle \in Nat
  BY LimiterAssumption
<1>5. CASE PruneLooks
  <2>1. Len(buckets) # m + 2
    <3> SUFFICES ASSUME Len(buckets) = m + 2 PROVE FALSE
      OBVIOUS
    <3>1. entry = m + 2 /\ s <= buckets[m + 2].lastFill /\ m + 2 \in 1..Len(buckets)
      BY DEF Window, LimiterTypeOK
    <3>2. buckets[m + 2].lastFill + Idle < clock
      BY <1>5, <3>1 DEF PruneLooks
    <3>3. buckets[m + 2].lastFill \in Nat
      BY <3>1, BucketTypes
    <3> QED BY <1>4, <3>1, <3>2, <3>3, Numbers
  <2> QED BY <1>1, <1>2, <1>3, <1>5, <2>1 DEF PruneLooks, Window
<1>6. CASE PruneDeletes
  <2>1. Len(buckets) # m + 2
    BY <1>6 DEF PruneDeletes, Window
  <2> QED BY <1>1, <1>2, <1>3, <1>6, <2>1 DEF PruneDeletes, Window
<1> QED BY <1>5, <1>6

(* A tick refills each of the two buckets by its rate.                     *)
LEMMA TickFills ==
  ASSUME LimiterTypeOK, ClockInv, Later, NEW k
  PROVE  Level(k)' \in 0..Burst /\ Level(k)' <= Level(k) + Rate
<1>1. clock' = clock + 1 /\ buckets' = buckets
  BY DEF Later
<1>2. CASE k \in 1..Len(buckets)
  <2>1. PICK b : b = buckets[k]
    OBVIOUS
  <2>2. b \in Bucket /\ b.lastFill <= clock /\ b.lastFill \in Nat /\ b.tokens \in Nat
    BY <1>2, <2>1, BucketTypes
  <2>3. PICK age \in Nat : age = clock - b.lastFill
    BY <2>2, Numbers
  <2>4. PICK p \in Nat, q \in Nat :
          p = age * Rate /\ q = (age + 1) * Rate /\ q = p + Rate
    <3>1. age * Rate \in Nat /\ (age + 1) * Rate = age * Rate + Rate
      BY Numbers, Distributes
    <3>2. age * Rate + Rate \in Nat
      BY <3>1, Numbers
    <3> QED BY <3>1, <3>2
  <2>5. Filled(b) = IF Burst <= b.tokens + p THEN Burst ELSE b.tokens + p
    BY <2>2, <2>3, <2>4, FilledIs, Numbers
  <2>6. Filled(b)' = IF Burst <= b.tokens + q THEN Burst ELSE b.tokens + q
    <3>1. clock' - b.lastFill = age + 1
      BY <1>1, <2>2, <2>3, Numbers
    <3>2. Filled(b)' = Min({Burst, b.tokens + q})
      BY <2>4, <3>1 DEF Filled
    <3> QED BY <2>2, <3>2, MinOfTwo, Numbers
  <2>7. Filled(b)' \in 0..Burst /\ Filled(b)' <= Filled(b) + Rate
    <3>1. q = p + Rate /\ p \in Nat /\ Rate \in Nat /\ Burst \in Nat /\ b.tokens \in Nat
      BY <2>2, <2>4, Numbers
    <3>2. CASE Burst <= b.tokens + p
      BY <2>5, <2>6, <3>1, <3>2
    <3>3. CASE ~(Burst <= b.tokens + p)
      BY <2>5, <2>6, <3>1, <3>3
    <3> QED BY <3>2, <3>3
  <2>8. Level(k) = Filled(b) /\ Level(k)' = Filled(b)'
    BY <1>1, <1>2, <2>1 DEF Level, Filled
  <2> QED BY <2>7, <2>8
<1>3. CASE k \notin 1..Len(buckets)
  BY <1>1, <1>3, Numbers DEF Level
<1> QED BY <1>2, <1>3

(* The next tick belongs to every window that has not become too long.     *)
LEMMA TickKeepsWindow ==
  ASSUME LimiterTypeOK, ClockInv, Later,
         NEW s \in 0..clock, NEW m \in Nat, Window(s, m)
  PROVE  Window(s, m)'
<1>1. /\ clock' = clock + 1 /\ clock' \in 0..MaxClock
      /\ stale' = [stale EXCEPT ![clock'] = Cardinality(Stale)]
      /\ UNCHANGED <<buckets, entry, holds, pruning, granted>>
  BY Numbers DEF Later
<1>2. granted'[clock' + 1] = granted[clock + 1] /\ granted'[s] = granted[s]
      /\ granted[clock + 1] \in Nat /\ granted[s] \in Nat
  <2>1. clock + 2 \in 0..(MaxClock + 1) /\ clock + 2 > clock /\ clock' + 1 = clock + 2
    BY <1>1, Numbers
  <2> QED BY <1>1, <2>1, Numbers, CountTypes DEF ClockInv
<1>3. stale'[s] = stale[s] /\ stale[s] \in Nat
  BY <1>1, Numbers, CountTypes DEF LimiterTypeOK
<1>4. Holders(m)' = Holders(m) /\ Cardinality(Holders(m)) \in Nat
  BY <1>1, HoldersCounted DEF Holders
<1>5. Level(m + 1)' <= Level(m + 1) + Rate /\ Level(m + 2)' <= Level(m + 2) + Rate
      /\ Level(m + 1) \in Nat /\ Level(m + 2) \in Nat
  BY TickFills, LevelType, Numbers
<1>6. Level(m + 1)' \in Nat /\ Level(m + 2)' \in Nat
  BY TickFills, Numbers
<1>7. PICK age \in Nat : age = clock - s
  BY Numbers
<1>8. PICK p \in Nat, q \in Nat :
        p = Rate * age /\ q = Rate * (age + 1) /\ q = p + Rate
  <2>1. Rate * age \in Nat /\ Rate * (age + 1) = Rate * age + Rate
    BY Numbers, Distributes
  <2>2. Rate * age + Rate \in Nat
    BY <2>1, Numbers
  <2> QED BY <2>1, <2>2
<1>9. clock' - s = age + 1
  BY <1>1, <1>7, Numbers
<1>10. granted[clock + 1] - granted[s] + Cardinality(Holders(m)) + Level(m + 1) + Level(m + 2)
         <= 2 * (Burst + p) + stale[s]
  BY <1>7, <1>8 DEF Window
<1>11. granted[clock + 1] - granted[s] + Cardinality(Holders(m)) + Level(m + 1)'
         + Level(m + 2)' <= 2 * (Burst + q) + stale[s]
  <2>1. granted[clock + 1] - granted[s] \in Int /\ Rate \in Nat /\ Burst \in Nat
    BY <1>2, Numbers
  <2>2. q = p + Rate /\ p \in Int /\ q \in Int
    BY <1>8
  <2>3. Level(m + 1) \in Int /\ Level(m + 2) \in Int /\ Level(m + 1)' \in Int
        /\ Level(m + 2)' \in Int /\ Cardinality(Holders(m)) \in Int /\ stale[s] \in Int
    BY <1>3, <1>4, <1>5, <1>6
  <2>4. PICK g \in Int, h \in Int, x \in Int, y \in Int, x1 \in Int, y1 \in Int, e \in Int :
          /\ g = granted[clock + 1] - granted[s] /\ h = Cardinality(Holders(m))
          /\ x = Level(m + 1) /\ y = Level(m + 2)
          /\ x1 = Level(m + 1)' /\ y1 = Level(m + 2)' /\ e = stale[s]
    BY <2>1, <2>3
  <2>5. x1 <= x + Rate /\ y1 <= y + Rate /\ g + h + x + y <= 2 * (Burst + p) + e
    BY <1>5, <1>10, <2>4
  <2>6. g + h + x1 + y1 <= 2 * (Burst + q) + e
    BY <2>1, <2>2, <2>5
  <2> QED BY <2>4, <2>6
<1>12. (2 * (Burst + Rate * (clock - s)) + stale[s])' = 2 * (Burst + q) + stale[s]
  BY <1>3, <1>8, <1>9
<1> QED BY <1>1, <1>2, <1>4, <1>11, <1>12 DEF Window

(* In a window that begins with the next tick, whoever holds a deleted     *)
(* bucket is counted, and two buckets hold two bursts at most.             *)
LEMMA TickOpensWindow ==
  ASSUME LimiterTypeOK, ClockInv, Later, NEW CONSTANT s, s = clock + 1
  PROVE  \E m \in Nat : Window(s, m)'
<1>1. /\ clock' = s /\ s \in 0..MaxClock
      /\ stale' = [stale EXCEPT ![s] = Cardinality(Stale)]
      /\ UNCHANGED <<buckets, entry, holds, pruning, granted>>
  BY Numbers DEF Later
<1>2. PICK m \in Nat : m = IF entry = NoBucket THEN Len(buckets) ELSE entry - 1
  BY Numbers DEF LimiterTypeOK
<1>3. Holders(m)' = Stale
  <2>1. Holders(m)' = Holders(m)
    BY <1>1 DEF Holders
  <2>2. ASSUME NEW r \in Requests
        PROVE  holds[r] \in 1..m <=> holds[r] \notin {NoBucket, entry}
    BY <1>2, Numbers DEF LimiterTypeOK
  <2> QED BY <2>1, <2>2 DEF Holders, Stale
<1>4. /\ m <= Len(buckets) /\ Len(buckets) <= m + 1
      /\ Len(buckets) = m => entry = NoBucket
  BY <1>2, Numbers DEF LimiterTypeOK
<1>5. granted'[s + 1] - granted'[s] = 0
  <2>1. s + 1 \in 0..(MaxClock + 1) /\ s + 1 > clock /\ clock \in 0..clock
    BY <1>1, Numbers
  <2> QED BY <1>1, <2>1, CountTypes DEF ClockInv
<1>6. Level(m + 1)' \in Nat /\ Level(m + 2)' \in Nat
      /\ Level(m + 1)' <= Burst /\ Level(m + 2)' <= Burst
  BY TickFills, Numbers
<1>7. stale'[s] = Cardinality(Stale) /\ Cardinality(Stale) \in Nat
  <2>1. stale \in [0..MaxClock -> Nat]
    BY DEF LimiterTypeOK
  <2>2. Stale \subseteq Requests
    BY DEF Stale
  <2>3. Cardinality(Stale) \in Nat
    BY <2>2, LimiterAssumption, FS_Subset, FS_CardinalityType
  <2> QED BY <1>1, <2>1, <2>3
<1>8. (2 * (Burst + Rate * (clock - s)) + stale[s])' = 2 * Burst + Cardinality(Stale)
  <2>1. clock' - s = 0 /\ Rate * 0 = 0
    BY <1>1, Numbers
  <2>2. (2 * (Burst + Rate * (clock - s)) + stale[s])' = 2 * (Burst + 0) + stale'[s]
    BY <2>1
  <2> QED BY <1>7, <2>2, Numbers
<1>9. 0 + Cardinality(Stale) + Level(m + 1)' + Level(m + 2)' <= 2 * Burst + Cardinality(Stale)
  BY <1>6, <1>7, Numbers
<1>10. (granted[clock + 1] - granted[s] + Cardinality(Holders(m)) + Level(m + 1) + Level(m + 2)
          <= 2 * (Burst + Rate * (clock - s)) + stale[s])'
  BY <1>1, <1>3, <1>5, <1>8, <1>9
<1>11. (m <= Len(buckets) /\ Len(buckets) <= m + 2 /\ Len(buckets) # m + 2
        /\ (Len(buckets) = m => entry = NoBucket))'
  BY <1>1, <1>4, Numbers
<1>12. Window(s, m)'
  BY <1>10, <1>11 DEF Window
<1> QED BY <1>12

(* The windows stay within the bound: each of the steps keeps every window *)
(* that has not become too long, and a tick opens one.                     *)
LEMMA WindowStep ==
  ASSUME LimiterTypeOK, ClockInv, WindowInv, LimiterNext
  PROVE  WindowInv'
<1>1. ASSUME NEW s \in 0..clock, clock' - s < Idle, clock' \in {clock, clock + 1}
      PROVE  \E m \in Nat : Window(s, m)'
  <2>1. clock - s < Idle
    BY <1>1, Numbers, LimiterAssumption
  <2>2. PICK m \in Nat : Window(s, m)
    BY <2>1 DEF WindowInv
  <2>3. Window(s, m)'
    BY <2>1, <2>2, LoadKeepsWindow, TakeKeepsWindow, PruneKeepsWindow, TickKeepsWindow
    DEF LimiterNext
  <2> QED BY <2>3
<1>2. CASE clock' = clock
  BY <1>1, <1>2 DEF WindowInv
<1>3. CASE Later
  <2>1. clock' = clock + 1
    BY <1>3 DEF Later
  <2>2. \A s \in 0..clock' : s \in 0..clock \/ s = clock + 1
    BY <2>1, Numbers
  <2> QED BY <1>1, <1>3, <2>1, <2>2, TickOpensWindow DEF WindowInv
<1> QED BY <1>2, <1>3 DEF LimiterNext, Load, Take, PruneLooks, PruneDeletes

(* What the windows say of the bound, now.                                 *)
LEMMA WindowBound ==
  ASSUME LimiterTypeOK, ClockInv, WindowInv, NEW s \in 0..clock, clock - s < Idle
  PROVE  granted[clock + 1] - granted[s] <= 2 * (Burst + Rate * (clock - s)) + stale[s]
<1>1. PICK m \in Nat : Window(s, m)
  BY DEF WindowInv
<1>2. Cardinality(Holders(m)) \in Nat /\ Level(m + 1) \in Nat /\ Level(m + 2) \in Nat
  BY HoldersCounted, LevelType, Numbers
<1>3. PICK p \in Int : p = 2 * (Burst + Rate * (clock - s)) + stale[s]
  <2>1. PICK age \in Nat : age = clock - s
    BY Numbers
  <2>2. PICK q \in Nat : q = Rate * age
    BY Numbers, Distributes
  <2>3. stale[s] \in Nat
    BY CountTypes
  <2>4. 2 * (Burst + q) + stale[s] \in Int
    BY <2>3, Numbers
  <2> QED BY <2>1, <2>2, <2>4
<1>4. granted[clock + 1] - granted[s] + Cardinality(Holders(m)) + Level(m + 1) + Level(m + 2)
        <= p
  BY <1>1, <1>3 DEF Window
<1>5. granted[clock + 1] \in Nat /\ granted[s] \in Nat
  BY CountTypes
<1>6. granted[clock + 1] - granted[s] <= p
  BY <1>2, <1>4, <1>5
<1> QED BY <1>3, <1>6

(* The past does not change: a window that has ended keeps its count, and  *)
(* one that ends with the last tick had it within the bound.               *)
LEMMA PastStep ==
  ASSUME LimiterTypeOK, ClockInv, WindowInv, PastInv, LimiterNext
  PROVE  PastInv'
<1>1. ASSUME NEW s \in 0..clock, NEW t \in 0..clock, s <= t, t - s < Idle,
             t < clock \/ Later
      PROVE  granted[t + 1] - granted[s] <= 2 * (Burst + Rate * (t - s)) + stale[s]
  <2>1. CASE t < clock
    BY <1>1, <2>1 DEF PastInv
  <2>2. CASE t = clock
    BY <1>1, <2>2, WindowBound
  <2> QED BY <2>1, <2>2, Numbers
<1>2. CASE Later
  <2>1. clock' = clock + 1 /\ granted' = granted /\ \A s \in 0..clock : stale'[s] = stale[s]
    BY <1>2, Numbers DEF Later, LimiterTypeOK
  <2> SUFFICES ASSUME NEW s \in 0..clock', NEW t \in 0..clock', s <= t, t < clock',
                      t - s < Idle
               PROVE  granted'[t + 1] - granted'[s]
                        <= 2 * (Burst + Rate * (t - s)) + stale'[s]
    BY DEF PastInv
  <2>2. s \in 0..clock /\ t \in 0..clock
    BY <2>1, Numbers
  <2> QED BY <1>1, <1>2, <2>1, <2>2
<1>3. CASE ~Later
  <2>1. clock' = clock /\ stale' = stale
    BY <1>3 DEF LimiterNext, Load, Take, PruneLooks, PruneDeletes
  <2>2. ASSUME NEW t \in 0..clock PROVE granted'[t] = granted[t]
    <3>1. CASE \E r \in Requests : Take(r)
      <4>1. PICK r \in Requests : Take(r)
        BY <3>1
      <4>2. granted' = [u \in DOMAIN granted |->
               IF Filled(buckets[holds[r]]) >= 1 /\ u > clock THEN granted[u] + 1 ELSE granted[u]]
        BY <4>1 DEF Take
      <4>3. t \in DOMAIN granted /\ ~(t > clock)
        BY Numbers DEF LimiterTypeOK
      <4> QED BY <4>2, <4>3
    <3>2. CASE ~\E r \in Requests : Take(r)
      BY <1>3, <3>2 DEF LimiterNext, Load, PruneLooks, PruneDeletes
    <3> QED BY <3>1, <3>2
  <2> SUFFICES ASSUME NEW s \in 0..clock, NEW t \in 0..clock, s <= t, t < clock,
                      t - s < Idle
               PROVE  granted'[t + 1] - granted'[s]
                        <= 2 * (Burst + Rate * (t - s)) + stale'[s]
    BY <2>1 DEF PastInv
  <2>3. t + 1 \in 0..clock
    BY Numbers
  <2> QED BY <1>1, <2>1, <2>2, <2>3
<1> QED BY <1>2, <1>3

(* The limiter keeps its invariant.                                        *)
LEMMA LimiterInvStep == LimiterInv /\ LimiterNext => LimiterInv'
BY LimiterTypeStep, WindowStep, PastStep DEF LimiterInv

(* A new limiter has it.                                                   *)
LEMMA LimiterInvInit == LimiterInit => LimiterInv
<1> SUFFICES ASSUME LimiterInit PROVE LimiterInv
  OBVIOUS
<1>1. Len(buckets) = 0 /\ buckets \in Seq(Bucket) /\ clock = 0 /\ entry = NoBucket
      /\ ~pruning
  BY DEF LimiterInit
<1>2. LimiterTypeOK /\ ClockInv
  BY <1>1, LimiterAssumption DEF LimiterInit, LimiterTypeOK, ClockInv
<1>3. Holders(0) = {} /\ Cardinality({}) = 0
  BY FS_EmptySet DEF Holders
<1>4. Level(0 + 1) = Burst /\ Level(0 + 2) = Burst
  BY <1>1 DEF Level
<1>5. granted[0] = 0 /\ granted[0 + 1] = 0 /\ stale[0] = 0 /\ Rate * (0 - 0) = 0
  BY LimiterAssumption DEF LimiterInit
<1>6. Window(0, 0)
  <2>1. granted[clock + 1] - granted[0] + Cardinality(Holders(0)) + Level(0 + 1) + Level(0 + 2)
          = 2 * Burst
    <3>1. granted[clock + 1] = 0 /\ granted[0] = 0 /\ Cardinality(Holders(0)) = 0
      BY <1>1, <1>3, <1>5
    <3> QED BY <1>4, <3>1, LimiterAssumption
  <2>2. 2 * (Burst + Rate * (clock - 0)) + stale[0] = 2 * Burst
    BY <1>1, <1>5, LimiterAssumption
  <2> QED BY <1>1, <2>1, <2>2, LimiterAssumption DEF Window
<1>7. WindowInv
  BY <1>1, <1>6 DEF WindowInv
<1>8. PastInv
  BY <1>1 DEF PastInv
<1> QED BY <1>2, <1>7, <1>8 DEF LimiterInv

(* The invariant bounds what a client gets.                                *)
LEMMA LimiterInvBounds == LimiterInv => TwoBurstsAtMost
<1> SUFFICES ASSUME LimiterInv, NEW s \in 0..clock, NEW t \in 0..clock, s <= t, t - s < Idle
             PROVE  granted[t + 1] - granted[s] <= 2 * (Burst + Rate * (t - s)) + stale[s]
  BY DEF TwoBurstsAtMost
<1>1. CASE t < clock
  BY <1>1 DEF LimiterInv, PastInv
<1>2. CASE t = clock
  BY <1>2, WindowBound DEF LimiterInv
<1> QED BY <1>1, <1>2, Numbers DEF LimiterInv

(* Whoever leaves the limiter alone keeps it.                              *)
LEMMA LimiterInvUnchanged == LimiterInv /\ UNCHANGED limiterVars => LimiterInv'
<1> SUFFICES ASSUME LimiterInv, UNCHANGED limiterVars PROVE LimiterInv'
  OBVIOUS
<1>1. UNCHANGED <<buckets, entry, holds, pruning, clock, granted, stale>>
  BY DEF limiterVars
<1>2. LimiterTypeOK' /\ ClockInv' /\ PastInv'
  BY <1>1 DEF LimiterInv, LimiterTypeOK, ClockInv, PastInv
<1>3. ASSUME NEW s \in 0..clock, clock - s < Idle PROVE \E m \in Nat : Window(s, m)'
  <2>1. PICK m \in Nat : Window(s, m)
    BY <1>3 DEF LimiterInv, WindowInv
  <2>2. Level(m + 1)' = Level(m + 1) /\ Level(m + 2)' = Level(m + 2)
        /\ Holders(m)' = Holders(m)
    BY <1>1 DEF Level, Filled, Holders
  <2>3. Window(s, m)'
    BY <1>1, <2>1, <2>2 DEF Window
  <2> QED BY <2>3
<1>4. WindowInv'
  BY <1>1, <1>3 DEF WindowInv
<1> QED BY <1>2, <1>4 DEF LimiterInv

(* The limiter is used while its instance serves, and begins anew with it.  *)
LEMMA LimiterInvariant == ServerSpec => []LimiterInv
<1>1. ServerInit => LimiterInv
  BY LimiterInvInit DEF ServerInit
<1>2. LimiterInit' => LimiterInv'
  BY LimiterInvInit, PTL
<1>3. LimiterInv /\ [ServerNext]_serverVars => LimiterInv'
  <2> SUFFICES ASSUME LimiterInv, [ServerNext]_serverVars PROVE LimiterInv'
    OBVIOUS
  <2>1. CASE LimiterNext
    BY <2>1, LimiterInvStep
  <2>2. CASE UNCHANGED limiterVars
    BY <2>2, LimiterInvUnchanged
  <2>3. CASE LimiterInit'
    BY <1>2, <2>3
  <2> QED
    BY <2>1, <2>2, <2>3
    DEF ServerNext, Serve, ServerStarts, ServerCrashes, serverVars, limiterVars, LimiterInit
<1> QED BY <1>1, <1>3, PTL DEF ServerSpec

(* What a client gets of one instance in a window shorter than the idle    *)
(* time is bounded, however its requests, prune and the clock interleave   *)
(* (allow and prune).                                                      *)
THEOREM BurstsAreBounded == ServerSpec => []TwoBurstsAtMost
BY LimiterInvariant, LimiterInvBounds, PTL
=============================================================================
