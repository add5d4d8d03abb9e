-------------------------- MODULE CirculoosProofs ---------------------------
(* Proofs about Circuloos for every set of processes and quantities and    *)
(* every bound: what the registry calls published is at the broker, a      *)
(* registry lasts, and the identities and publications of calls in turn.   *)
EXTENDS Circuloos, WellFoundedInduction, TLAPS

(* What is true of a call wherever it is.                                  *)
KindFits(k) ==
  /\ k.at \in {"measure", "ensure", "open", "fill"} => k.op = "prepare"
  /\ k.at \in {"require", "build"} => k.op \in {"create", "update"}
  /\ k.at \in {"load", "store"} => k.op \in {"create", "publish"}
  /\ k.at \in {"preview", "findWood", "exists", "upsert", "readback"} => k.op = "publish"
  /\ k.at = "store" /\ k.op = "create" => k.entity \in Ads

BrokerFits(k) ==
  /\ k.at \in {"findWood", "exists", "upsert", "readback"} => k.payload # {}
  /\ k.at \in {"exists", "upsert", "readback"} /\ k.entity # Wood => remote[Wood] # {}
  /\ k.at \in {"load", "store"} /\ k.op = "publish" => remote[k.entity] # {}
  /\ k.at = "store" =>
       \A e \in Entities : k.snapshot[e] = "published" => remote[e] # {}

RegistryFits(k) ==
  /\ k.at = "fill" => file = "partial"
  /\ k.at = "store" => file = "whole" /\ k.snapshot[Wood] # "none"
  /\ k.at = "store" /\ k.op = "publish" => k.snapshot[k.entity] # "none"

(* It has a quantity, that of the payload file and of the Wood payload.    *)
Prepared(payload, e) ==
  /\ SameQuantity(payload, local[e]) /\ SameQuantity(payload, local[Wood])
  /\ HasQuantity(payload)

TurnFits(k) ==
  ~overlapped =>
    /\ k.at = "store" => k.snapshot = registry
    /\ k.at = "store" /\ k.op = "create" => registry[k.entity] = "none"
    /\ k.at \in {"findWood", "exists", "upsert", "readback"} => Prepared(k.payload, k.entity)
    /\ k.at \in {"load", "store"} /\ k.op = "publish" => Prepared(remote[k.entity], k.entity)

CallFits(k) == KindFits(k) /\ BrokerFits(k) /\ RegistryFits(k) /\ TurnFits(k)

(* One process fills the registry; and while calls take turns, one works.  *)
Alone ==
  /\ \A c, d \in Callers : call[c].at = "fill" /\ call[d].at = "fill" => c = d
  /\ ~overlapped =>
       \A c, d \in Callers : call[c].at # "idle" /\ call[d].at # "idle" => c = d

RegistryWhole ==
  /\ file = "whole" => registry[Wood] # "none"
  /\ file # "whole" => registry = Nowhere

IInv ==
  /\ TypeOK /\ BrokerHasPublished /\ RegistryWhole /\ IdentitiesInTurn
  /\ \A c \in Callers : CallFits(call[c])
  /\ Alone

-----------------------------------------------------------------------------
(* The next sequence number is one that no registered advertisement has.   *)

LEMMA SmallestNumber ==
  ASSUME NEW S \in SUBSET Nat, S # {}
  PROVE  \E m \in S : \A n \in S : m <= n
<1> DEFINE R == OpToRel(<, Nat)
<1>1. IsWellFoundedOn(R, Nat)
  BY NatLessThanWellFounded
<1>2. \A n, m \in Nat : n < m => <<n, m>> \in R
  BY DEF OpToRel
<1> HIDE DEF R
<1>3. PICK m \in S : \A n \in S : ~ (<<n, m>> \in R)
  BY <1>1, WFMin
<1>4. ASSUME NEW n \in S PROVE m <= n
  <2>1. n \in Nat /\ m \in Nat
    OBVIOUS
  <2>2. ~(n < m)
    BY <2>1, <1>2, <1>3
  <2>. QED
    BY <2>1, <2>2
<1>. QED
  BY <1>4

LEMMA NextSequenceIsNew ==
  ASSUME NEW snapshot, NEW n, n = NextSequence(snapshot)
  PROVE  /\ n \in 1 .. MaxAds + 1
         /\ \A s \in Registered(snapshot) : s < n
<1> DEFINE S == {m \in 1 .. MaxAds + 1 : \A s \in Registered(snapshot) : s < m}
<1>1. Registered(snapshot) \subseteq 1 .. MaxAds /\ MaxAds \in Nat
  BY BoundsAssumption DEF Registered, Ads
<1>2. MaxAds + 1 \in S
  BY <1>1
<1>3. PICK m \in S : \A i \in S : m <= i
  <2>1. \A i \in S : i \in Nat
    BY <1>1
  <2> HIDE DEF S
  <2>. QED
    BY <2>1, <1>2, SmallestNumber
<1>4. m = 1 \/ m - 1 \in Registered(snapshot)
  <2> SUFFICES ASSUME m # 1 PROVE m - 1 \in Registered(snapshot)
    OBVIOUS
  <2>1. m - 1 \in 1 .. MaxAds + 1 /\ m - 1 \notin S
    BY <1>1, <1>3
  <2>2. PICK s \in Registered(snapshot) : ~(s < m - 1)
    BY <2>1
  <2>3. s < m
    BY <1>3
  <2>. QED
    BY <1>1, <1>3, <2>2, <2>3
<1>. QED
  BY <1>3, <1>4 DEF NextSequence

LEMMA NewIsUnregistered ==
  ASSUME NEW snapshot, NEW n \in Entities, n = NextSequence(snapshot)
  PROVE  n \in Ads /\ snapshot[n] = "none"
<1>1. n \in 1 .. MaxAds + 1 /\ \A s \in Registered(snapshot) : s < n
  BY NextSequenceIsNew
<1>2. n \in Ads
  BY <1>1, BoundsAssumption DEF Entities, Ads
<1>. QED
  BY <1>1, <1>2, BoundsAssumption DEF Registered, Ads

-----------------------------------------------------------------------------
(* Most steps change nothing but the call they belong to.                  *)

LEMMA IdleFits == Idle \in CallRecord /\ CallFits(Idle) /\ Idle.at = "idle"
<1>1. Wood \in Entities
  BY BoundsAssumption DEF Wood, Entities
<1>2. Nowhere \in [Entities -> Statuses]
  BY DEF Nowhere, Statuses
<1>3. {} \in Payloads
  BY DEF Payloads
<1>4. Idle \in CallRecord
  BY <1>1, <1>2, <1>3 DEF Idle, CallRecord, Ops, Places
<1>5. CallFits(Idle)
  BY DEF Idle, CallFits, KindFits, BrokerFits, RegistryFits, TurnFits, Prepared
<1>. QED
  BY <1>4, <1>5 DEF Idle

LEMMA CallMoves ==
  ASSUME IInv, NEW c \in Callers, NEW k \in CallRecord, Become(c, k), CallFits(k),
         call[c].at # "idle", k.at = "fill" => call[c].at = "fill",
         UNCHANGED <<measured, files, remote, handed, overlapped>>,
         calls' \in Nat, faults' \in Nat, measures' \in Nat
  PROVE  IInv'
<1> USE DEF Become, files
<1>1. TypeOK'
  BY DEF IInv, TypeOK
<1>2. BrokerHasPublished' /\ RegistryWhole' /\ IdentitiesInTurn'
  BY DEF IInv, BrokerHasPublished, RegistryWhole, IdentitiesInTurn
<1>3. \A d \in Callers : call'[d] = IF d = c THEN k ELSE call[d]
  BY DEF IInv, TypeOK
<1>4. \A d \in Callers : CallFits(call'[d])
  BY <1>3 DEF IInv
<1>5. (\A d \in Callers : CallFits(call[d]))'
  BY <1>4 DEF CallFits, KindFits, BrokerFits, RegistryFits, TurnFits, Prepared
<1>6. Alone'
  BY <1>3 DEF IInv, Alone
<1>. QED
  BY <1>1, <1>2, <1>5, <1>6 DEF IInv

LEMMA CallEnds ==
  ASSUME IInv, NEW c \in Callers, Ends(c), call[c].at # "idle",
         UNCHANGED <<measured, files, remote, handed, overlapped>>,
         calls' \in Nat, faults' \in Nat, measures' \in Nat
  PROVE  IInv'
BY IdleFits, CallMoves DEF Ends

LEMMA StepKeepsReads ==
  ASSUME IInv, NEW c \in Callers,
         \/ ReadMeasurements(c) \/ EnsureRegistry(c) \/ RequireWood(c) \/ BuildAdvertisement(c)
  PROVE  IInv'
<1> DEFINE k == call[c]
<1>1. k \in CallRecord /\ CallFits(k) /\ measured \in Payloads /\ local \in [Entities -> Payloads]
  BY DEF IInv, TypeOK
<1>2. UNCHANGED <<measured, files, remote, handed, overlapped>> /\ k.at # "idle"
  BY DEF ReadMeasurements, EnsureRegistry, RequireWood, BuildAdvertisement, At
<1>3. calls' \in Nat /\ faults' \in Nat /\ measures' \in Nat
  BY DEF IInv, TypeOK, bounds, ReadMeasurements, EnsureRegistry, RequireWood, BuildAdvertisement
<1>4. CASE Ends(c)
  BY <1>2, <1>3, <1>4, CallEnds
<1>5. ASSUME NEW at \in {"ensure", "save", "open", "load", "build"}, NEW p \in Payloads,
             Become(c, [k EXCEPT !.at = at, !.payload = p]),
             at \in {"ensure", "open"} => k.op = "prepare",
             at = "load" => k.op = "create",
             at = "build" => k.op \in {"create", "update"}
      PROVE  IInv'
  <2> DEFINE j == [k EXCEPT !.at = at, !.payload = p]
  <2>1. j \in CallRecord /\ j.at = at /\ j.op = k.op /\ j.entity = k.entity
    BY <1>1 DEF CallRecord, Places
  <2>2. CallFits(j)
    BY <1>5, <2>1 DEF CallFits, KindFits, BrokerFits, RegistryFits, TurnFits, Prepared
  <2> HIDE DEF j
  <2>. QED
    BY <1>2, <1>3, <2>1, <2>2, <1>5, CallMoves DEF j
<1>6. ASSUME NEW at, Goto(c, at) PROVE Become(c, [k EXCEPT !.at = at, !.payload = k.payload])
  BY <1>1, <1>6 DEF Goto, CallRecord
<1>7. k.payload \in Payloads
  BY <1>1 DEF CallRecord
<1>8. CASE ReadMeasurements(c)
  BY <1>1, <1>5, <1>8 DEF ReadMeasurements, At, CallFits, KindFits
<1>9. CASE EnsureRegistry(c)
  <2>1. file \in {"absent", "partial", "whole"} /\ k.op = "prepare"
    BY <1>1, <1>9 DEF IInv, TypeOK, EnsureRegistry, At, CallFits, KindFits
  <2>2. Goto(c, "save") \/ Ends(c) \/ Goto(c, "open")
    BY <1>9, <2>1 DEF EnsureRegistry
  <2>. QED
    BY <1>4, <1>5, <1>6, <1>7, <2>1, <2>2
<1>10. CASE RequireWood(c)
  <2>1. k.op \in {"create", "update"}
    BY <1>1, <1>10 DEF RequireWood, At, CallFits, KindFits
  <2>2. Ends(c) \/ (k.op = "create" /\ Goto(c, "load")) \/ Goto(c, "build")
    BY <1>10 DEF RequireWood, Continue
  <2>. QED
    BY <1>4, <1>5, <1>6, <1>7, <2>1, <2>2
<1>11. CASE BuildAdvertisement(c)
  <2>1. \/ Ends(c)
        \/ \E p \in Payloads : Become(c, [k EXCEPT !.at = "save", !.payload = p])
    BY <1>11 DEF BuildAdvertisement
  <2>. QED
    BY <1>4, <1>5, <2>1
<1>. QED
  BY <1>8, <1>9, <1>10, <1>11

LEMMA LoadRegistryKeeps ==
  ASSUME IInv, NEW c \in Callers, LoadRegistry(c) PROVE IInv'
<1> DEFINE k == call[c]
           e == IF k.op = "create" THEN NextSequence(registry) ELSE k.entity
           j == [k EXCEPT !.at = "store", !.entity = e, !.snapshot = registry]
<1>1. /\ k \in CallRecord /\ CallFits(k) /\ k.at = "load"
      /\ registry \in [Entities -> Statuses] /\ k.op \in {"create", "publish"}
  BY DEF IInv, TypeOK, LoadRegistry, At, CallFits, KindFits
<1>2. /\ UNCHANGED <<measured, files, remote, handed, overlapped>>
      /\ calls' \in Nat /\ faults' \in Nat /\ measures' \in Nat
  BY DEF IInv, TypeOK, bounds, LoadRegistry
<1>3. CASE Ends(c)
  BY <1>1, <1>2, <1>3, CallEnds
<1>4. CASE /\ file = "whole" /\ e \in Entities
           /\ k.op # "create" => registry[e] # "none"
           /\ Become(c, j)
  <2>1. /\ j \in CallRecord /\ j.at = "store" /\ j.op = k.op /\ j.entity = e
        /\ j.snapshot = registry
    BY <1>1, <1>4 DEF CallRecord, Places
  <2>2. k.op = "create" => e \in Ads /\ registry[e] = "none"
    BY <1>4, NewIsUnregistered
  <2>3. KindFits(j)
    BY <1>1, <2>1, <2>2 DEF KindFits
  <2>4. BrokerFits(j)
    BY <1>1, <2>1 DEF CallFits, BrokerFits, IInv, BrokerHasPublished
  <2>5. RegistryFits(j)
    BY <1>1, <1>4, <2>1 DEF RegistryFits, IInv, RegistryWhole
  <2>6. TurnFits(j)
    BY <1>1, <2>1, <2>2 DEF CallFits, TurnFits, Prepared
  <2>7. CallFits(j)
    BY <2>3, <2>4, <2>5, <2>6 DEF CallFits
  <2> HIDE DEF j, e
  <2>. QED
    BY <1>1, <1>2, <1>4, <2>1, <2>7, CallMoves
<1>. QED
  BY <1>3, <1>4 DEF LoadRegistry

(* The requests of a publication.                                          *)
LEMMA RequestKeeps ==
  ASSUME IInv, NEW c \in Callers,
         Preview(c) \/ FindWood(c) \/ FindExisting(c) \/ Readback(c)
  PROVE  IInv'
<1> DEFINE k == call[c]
<1>1. /\ k \in CallRecord /\ CallFits(k) /\ k.entity \in Entities /\ k.op = "publish"
      /\ local \in [Entities -> Payloads] /\ k.payload \in Payloads /\ k.retried \in BOOLEAN
  BY DEF IInv, TypeOK, CallRecord, Preview, FindWood, FindExisting, Readback, At,
         CallFits, KindFits
<1>2. /\ UNCHANGED <<measured, files, remote, handed, overlapped>> /\ k.at # "idle"
      /\ calls' \in Nat /\ faults' \in Nat /\ measures' \in Nat
  BY DEF IInv, TypeOK, bounds, Preview, FindWood, FindExisting, Readback, At
<1>3. CASE Ends(c)
  BY <1>2, <1>3, CallEnds
<1>4. ASSUME NEW at \in {"findWood", "exists", "upsert", "load"}, NEW p \in Payloads,
             NEW r \in BOOLEAN,
             Become(c, [k EXCEPT !.at = at, !.payload = p, !.retried = r]),
             at # "load" => p # {} /\ (~overlapped => Prepared(p, k.entity)),
             at \in {"exists", "upsert"} /\ k.entity # Wood => remote[Wood] # {},
             at = "load" => /\ remote[k.entity] # {}
                            /\ ~overlapped => Prepared(remote[k.entity], k.entity)
      PROVE  IInv'
  <2> DEFINE j == [k EXCEPT !.at = at, !.payload = p, !.retried = r]
  <2>1. /\ j \in CallRecord /\ j.at = at /\ j.op = "publish" /\ j.entity = k.entity
        /\ j.payload = p
    BY <1>1 DEF CallRecord, Places
  <2> HIDE DEF j
  <2>2. CallFits(j)
    BY <1>4, <2>1 DEF CallFits, KindFits, BrokerFits, RegistryFits, TurnFits, Prepared
  <2>. QED
    BY <1>2, <1>4, <2>1, <2>2, CallMoves DEF j
<1>5. ASSUME NEW at, Become(c, [k EXCEPT !.at = at, !.retried = FALSE])
      PROVE  Become(c, [k EXCEPT !.at = at, !.payload = k.payload, !.retried = FALSE])
  BY <1>1, <1>5 DEF CallRecord
<1>6. CASE Preview(c)
  <2>1. Ends(c) \/ /\ local[k.entity] # {} /\ Prepared(local[k.entity], k.entity)
                   /\ Become(c, [k EXCEPT !.at = IF k.entity = Wood THEN "exists" ELSE "findWood",
                                          !.payload = local[k.entity]])
    BY <1>6 DEF Preview, Prepared, HasQuantity, SameQuantity, Quantity
  <2>2. ASSUME NEW at, Become(c, [k EXCEPT !.at = at, !.payload = local[k.entity]])
        PROVE  Become(c, [k EXCEPT !.at = at, !.payload = local[k.entity],
                                   !.retried = k.retried])
    BY <1>1, <2>2 DEF CallRecord
  <2>. QED
    BY <1>1, <1>3, <1>4, <2>1, <2>2
<1>7. CASE FindWood(c)
  <2>1. k.payload # {} /\ (~overlapped => Prepared(k.payload, k.entity))
    BY <1>1, <1>7 DEF FindWood, At, CallFits, BrokerFits, TurnFits, Prepared
  <2>2. Ends(c) \/ /\ remote[Wood] # {}
                   /\ Become(c, [k EXCEPT !.at = "exists", !.retried = FALSE])
    BY <1>7 DEF FindWood, Answered
  <2>. QED
    BY <1>1, <1>3, <1>4, <1>5, <2>1, <2>2
<1>8. CASE FindExisting(c)
  <2>1. /\ k.payload # {} /\ (~overlapped => Prepared(k.payload, k.entity))
        /\ k.entity # Wood => remote[Wood] # {}
    BY <1>1, <1>8 DEF FindExisting, At, CallFits, BrokerFits, TurnFits, Prepared
  <2>2. Ends(c) \/ Become(c, [k EXCEPT !.at = "upsert", !.retried = FALSE])
    BY <1>8 DEF FindExisting, Answered
  <2>. QED
    BY <1>1, <1>3, <1>4, <1>5, <2>1, <2>2
<1>9. CASE Readback(c)
  <2>1. ~overlapped => Prepared(k.payload, k.entity)
    BY <1>1, <1>9 DEF Readback, At, CallFits, TurnFits
  <2>2. Ends(c) \/ /\ remote[k.entity] # {} /\ SameQuantity(remote[k.entity], k.payload)
                   /\ Become(c, [k EXCEPT !.at = "load", !.retried = FALSE])
    BY <1>9 DEF Readback, Answered
  <2>3. ASSUME ~overlapped, remote[k.entity] # {}, SameQuantity(remote[k.entity], k.payload)
        PROVE  Prepared(remote[k.entity], k.entity)
    BY <2>1, <2>3 DEF Prepared, SameQuantity, HasQuantity
  <2>. QED
    BY <1>1, <1>3, <1>4, <1>5, <2>1, <2>2, <2>3
<1>. QED
  BY <1>6, <1>7, <1>8, <1>9

LEMMA FailureKeeps ==
  ASSUME IInv, NEW c \in Callers, Unauthorized(c) \/ Killed(c) PROVE IInv'
<1> DEFINE k == call[c]
           j == [k EXCEPT !.retried = TRUE]
<1>1. /\ k \in CallRecord /\ CallFits(k) /\ k.at # "idle"
  BY DEF IInv, TypeOK, Unauthorized, Requesting, Killed, At
<1>2. /\ UNCHANGED <<measured, files, remote, handed, overlapped>>
      /\ calls' \in Nat /\ faults' \in Nat /\ measures' \in Nat
  BY DEF IInv, TypeOK, Unauthorized, Killed, Fault
<1>3. CASE Ends(c)
  BY <1>1, <1>2, <1>3, CallEnds
<1>4. CASE Become(c, j)
  <2>1. /\ j \in CallRecord /\ j.at = k.at /\ j.op = k.op /\ j.entity = k.entity
        /\ j.payload = k.payload /\ j.snapshot = k.snapshot
    BY <1>1 DEF CallRecord
  <2> HIDE DEF j
  <2>2. CallFits(j)
    BY <1>1, <2>1 DEF CallFits, KindFits, BrokerFits, RegistryFits, TurnFits, Prepared
  <2>. QED
    BY <1>1, <1>2, <1>4, <2>1, <2>2, CallMoves
<1>. QED
  BY <1>3, <1>4 DEF Unauthorized, Killed

-----------------------------------------------------------------------------
(* The steps that change a file or the broker.                             *)

LEMMA MeasureKeeps ==
  ASSUME IInv, NEW content \in Contents, Measure(content) PROVE IInv'
<1> USE DEF Measure, files
<1>1. TypeOK'
  BY DEF IInv, TypeOK, Payloads
<1>2. /\ BrokerHasPublished' /\ RegistryWhole' /\ IdentitiesInTurn' /\ Alone'
  BY DEF IInv, BrokerHasPublished, RegistryWhole, IdentitiesInTurn, Alone
<1>3. (\A d \in Callers : CallFits(call[d]))'
  BY DEF IInv, CallFits, KindFits, BrokerFits, RegistryFits, TurnFits, Prepared
<1>. QED
  BY <1>1, <1>2, <1>3 DEF IInv

LEMMA CallKeeps == ASSUME IInv, NEW c \in Callers, Call(c) PROVE IInv'
<1>1. PICK op \in Ops, at \in {"measure", "require", "preview"}, e \in Entities,
           w \in BOOLEAN : /\ Begin(c, op, at, e, w) /\ calls' \in Nat
                           /\ at = "measure" => op = "prepare"
                           /\ at = "require" => op \in {"create", "update"}
                           /\ at = "preview" => op = "publish"
  <2>1. Wood \in Entities /\ Ads \subseteq Entities
    BY BoundsAssumption DEF Wood, Entities, Ads
  <2>2. calls \in Nat /\ (Counted => calls' \in Nat)
    BY DEF IInv, TypeOK, Counted
  <2>. QED
    BY <2>1, <2>2 DEF Call, PrepareWood, CreateAdvertisement, UpdateAdvertisement,
       PublishOnce, PublishAgain, PublishWood, Ops
<1> DEFINE j == [Idle EXCEPT !.op = op, !.at = at, !.entity = e, !.overwrite = w]
<1>2. j \in CallRecord /\ j.op = op /\ j.at = at
  BY IdleFits DEF CallRecord, Places
<1>3. /\ Become(c, j) /\ call[c].at = "idle"
      /\ overlapped' = (overlapped \/ \E d \in Callers \ {c} : call[d].at # "idle")
      /\ UNCHANGED <<measured, files, remote, handed, faults, measures>>
  BY <1>1 DEF Begin, At
<1> HIDE DEF j
<1>4. call' = [call EXCEPT ![c] = j] /\ \A d \in Callers : call'[d] = IF d = c THEN j ELSE call[d]
  BY <1>3 DEF Become, IInv, TypeOK
<1>5. TypeOK'
  BY <1>1, <1>2, <1>3, <1>4 DEF IInv, TypeOK, files
<1>6. BrokerHasPublished' /\ RegistryWhole' /\ IdentitiesInTurn'
  BY <1>3 DEF IInv, BrokerHasPublished, RegistryWhole, IdentitiesInTurn, files
<1>7. CallFits(j)
  BY <1>1, <1>2 DEF CallFits, KindFits, BrokerFits, RegistryFits, TurnFits, Prepared
<1>8. \A d \in Callers : CallFits(call'[d])
  BY <1>4, <1>7 DEF IInv
<1>9. (\A d \in Callers : CallFits(call[d]))'
  BY <1>3, <1>8 DEF CallFits, KindFits, BrokerFits, RegistryFits, TurnFits, Prepared, files
<1>10. Alone'
  <2>1. \A d \in Callers : call'[d].at = "fill" => d # c /\ call[d].at = "fill"
    BY <1>1, <1>2, <1>4
  <2>2. ~overlapped' => \A d \in Callers \ {c} : call'[d].at = "idle"
    BY <1>3, <1>4
  <2>3. \A d, e1 \in Callers : call'[d].at = "fill" /\ call'[e1].at = "fill" => d = e1
    BY <2>1 DEF IInv, Alone
  <2>4. ~overlapped' =>
          \A d, e1 \in Callers : call'[d].at # "idle" /\ call'[e1].at # "idle" => d = e1
    BY <2>2
  <2>. QED
    BY <2>3, <2>4 DEF Alone
<1>. QED
  BY <1>5, <1>6, <1>9, <1>10 DEF IInv

(* In turn, the other calls are idle.                                      *)
LEMMA OthersIdle ==
  ASSUME IInv, NEW c \in Callers, call[c].at # "idle", NEW d \in Callers \ {c}
  PROVE  ~overlapped => call[d].at = "idle"
BY DEF IInv, Alone

LEMMA OpenRegistryKeeps ==
  ASSUME IInv, NEW c \in Callers, OpenRegistry(c) PROVE IInv'
<1> DEFINE k == call[c]
           j == [k EXCEPT !.at = "fill"]
<1>1. /\ k \in CallRecord /\ CallFits(k) /\ k.at = "open" /\ k.op = "prepare"
  BY DEF IInv, TypeOK, OpenRegistry, At, CallFits, KindFits
<1>2. CASE Ends(c) /\ UNCHANGED file
  BY <1>1, <1>2, CallEnds DEF OpenRegistry, IInv, TypeOK, bounds, files
<1>3. CASE file = "absent" /\ file' = "partial" /\ Goto(c, "fill")
  <2>1. /\ j \in CallRecord /\ j.at = "fill" /\ j.op = "prepare"
    BY <1>1 DEF CallRecord, Places
  <2>2. call' = [call EXCEPT ![c] = j]
    BY <1>3 DEF Goto, Become
  <2> HIDE DEF j
  <2>3. \A d \in Callers : call'[d] = IF d = c THEN j ELSE call[d]
    BY <2>2 DEF IInv, TypeOK
  <2>4. UNCHANGED <<measured, registry, local, remote, handed, overlapped, bounds>>
    BY DEF OpenRegistry
  <2>5. TypeOK'
    BY <1>3, <2>1, <2>2, <2>4 DEF IInv, TypeOK, bounds
  <2>6. BrokerHasPublished' /\ RegistryWhole' /\ IdentitiesInTurn'
    BY <1>3, <2>4 DEF IInv, BrokerHasPublished, RegistryWhole, IdentitiesInTurn
  <2>7. \A d \in Callers \ {c} : call[d].at \notin {"fill", "store"}
    BY <1>3 DEF IInv, CallFits, RegistryFits
  <2>8. (\A d \in Callers : CallFits(call[d]))'
    BY <1>3, <2>1, <2>3, <2>4, <2>7
       DEF IInv, CallFits, KindFits, BrokerFits, RegistryFits, TurnFits, Prepared
  <2>9. Alone'
    BY <1>1, <2>1, <2>3, <2>4, <2>7 DEF IInv, Alone
  <2>. QED
    BY <2>5, <2>6, <2>8, <2>9 DEF IInv
<1>. QED
  BY <1>2, <1>3 DEF OpenRegistry

LEMMA FillRegistryKeeps ==
  ASSUME IInv, NEW c \in Callers, FillRegistry(c) PROVE IInv'
<1> DEFINE k == call[c]
           j == [k EXCEPT !.at = "save"]
<1>1. /\ k \in CallRecord /\ k.at = "fill" /\ k.op = "prepare"
      /\ file = "partial" /\ registry = Nowhere
  BY DEF IInv, TypeOK, FillRegistry, At, CallFits, KindFits, RegistryFits, RegistryWhole
<1>2. /\ j \in CallRecord /\ j.at = "save" /\ j.op = "prepare"
  BY <1>1 DEF CallRecord, Places
<1>3. call' = [call EXCEPT ![c] = j]
  BY DEF FillRegistry, Goto, Become
<1> HIDE DEF j
<1>4. \A d \in Callers : call'[d] = IF d = c THEN j ELSE call[d]
  BY <1>3 DEF IInv, TypeOK
<1>5. /\ file' = "whole" /\ registry' = [Nowhere EXCEPT ![Wood] = "local_only"]
      /\ UNCHANGED <<measured, local, remote, handed, overlapped, bounds>>
  BY DEF FillRegistry
<1>6. /\ registry' \in [Entities -> Statuses]
      /\ registry'[Wood] = "local_only"
      /\ \A s \in Ads : registry'[s] = "none" /\ registry[s] = "none"
      /\ \A e \in Entities : registry'[e] # "published"
  BY <1>1, <1>5, BoundsAssumption DEF Nowhere, Entities, Wood, Ads, Statuses
<1>7. TypeOK'
  BY <1>2, <1>3, <1>5, <1>6 DEF IInv, TypeOK, bounds
<1>8. BrokerHasPublished' /\ RegistryWhole'
  BY <1>5, <1>6 DEF IInv, BrokerHasPublished, RegistryWhole
<1>9. IdentitiesInTurn'
  BY <1>5, <1>6 DEF IInv, IdentitiesInTurn
<1>10. \A d \in Callers \ {c} : call[d].at \notin {"fill", "store"}
  BY <1>1 DEF IInv, CallFits, RegistryFits, Alone
<1>11. (\A d \in Callers : CallFits(call[d]))'
  BY <1>2, <1>4, <1>5, <1>10 DEF IInv, CallFits, KindFits, BrokerFits, RegistryFits, TurnFits, Prepared
<1>12. Alone'
  BY <1>1, <1>2, <1>4, <1>5, <1>10 DEF IInv, Alone
<1>. QED
  BY <1>7, <1>8, <1>9, <1>11, <1>12 DEF IInv

LEMMA SavePayloadKeeps ==
  ASSUME IInv, NEW c \in Callers, SavePayload(c) PROVE IInv'
<1> DEFINE k == call[c]
<1>1. k \in CallRecord /\ k.at = "save" /\ k.entity \in Entities /\ k.payload \in Payloads
  BY DEF IInv, TypeOK, SavePayload, At, CallRecord
<1>2. call' = [call EXCEPT ![c] = Idle] /\ Idle \in CallRecord /\ Idle.at = "idle"
  BY IdleFits DEF SavePayload, Ends, Become
<1>3. \A d \in Callers : call'[d] = IF d = c THEN Idle ELSE call[d]
  BY <1>2 DEF IInv, TypeOK
<1>4. /\ local' \in [Entities -> Payloads]
      /\ \A e \in Entities : local'[e] = local[e] \/ registry[e] # "none"
      /\ UNCHANGED <<measured, file, registry, remote, handed, overlapped, bounds>>
  BY <1>1 DEF SavePayload, IInv, TypeOK
<1>5. TypeOK'
  BY <1>2, <1>4 DEF IInv, TypeOK, bounds
<1>6. BrokerHasPublished' /\ RegistryWhole'
  BY <1>4 DEF IInv, BrokerHasPublished, RegistryWhole
<1>7. IdentitiesInTurn'
  <2>1. Ads \subseteq Entities
    BY BoundsAssumption DEF Ads, Entities
  <2>. QED
    BY <1>4, <2>1 DEF IInv, IdentitiesInTurn
<1>8. (\A d \in Callers : CallFits(call[d]))'
  <2> SUFFICES ASSUME NEW d \in Callers PROVE CallFits(call[d])'
    OBVIOUS
  <2>1. CASE d = c
    BY <1>2, <1>3, <2>1 DEF Idle, CallFits, KindFits, BrokerFits, RegistryFits, TurnFits, Prepared
  <2>2. CASE d # c
    <3>1. call'[d] = call[d] /\ CallFits(call[d]) /\ (~overlapped => call[d].at = "idle")
      BY <1>1, <1>3, <2>2, OthersIdle DEF IInv
    <3>. QED
      BY <1>4, <3>1 DEF CallFits, KindFits, BrokerFits, RegistryFits, TurnFits, Prepared
  <2>. QED
    BY <2>1, <2>2
<1>9. Alone'
  BY <1>2, <1>3, <1>4 DEF IInv, Alone
<1>. QED
  BY <1>5, <1>6, <1>7, <1>8, <1>9 DEF IInv

LEMMA StoreRegistryKeeps ==
  ASSUME IInv, NEW c \in Callers, StoreRegistry(c) PROVE IInv'
<1> DEFINE k == call[c]
           e == k.entity
           new == IF k.op = "create" THEN "local_only" ELSE "published"
           j == IF k.op = "create" THEN [k EXCEPT !.at = "build"] ELSE Idle
<1>1. /\ k \in CallRecord /\ CallFits(k) /\ k.at = "store" /\ e \in Entities
      /\ k.snapshot \in [Entities -> Statuses] /\ k.op \in {"create", "publish"}
      /\ new \in Statuses
  BY DEF IInv, TypeOK, StoreRegistry, At, CallRecord, CallFits, KindFits, Statuses
<1>2. /\ j \in CallRecord /\ j.at \in {"build", "idle"} /\ CallFits(j)
      /\ j.at = "build" => j.op = "create"
  <2>1. CASE k.op = "create"
    BY <1>1, <2>1 DEF CallRecord, Places, CallFits, KindFits, BrokerFits, RegistryFits, TurnFits, Prepared
  <2>2. CASE k.op # "create"
    BY <2>2, IdleFits
  <2>. QED
    BY <2>1, <2>2
<1>3. call' = [call EXCEPT ![c] = j]
  BY DEF StoreRegistry, Goto, Ends, Become
<1>4. /\ registry' = [k.snapshot EXCEPT ![e] = new]
      /\ handed' = IF k.op = "create" THEN [handed EXCEPT ![e] = @ + 1] ELSE handed
      /\ UNCHANGED <<measured, file, local, remote, overlapped, bounds>>
  BY DEF StoreRegistry
<1>5. /\ file = "whole" /\ k.snapshot[Wood] # "none"
      /\ k.op = "publish" => k.snapshot[e] # "none" /\ remote[e] # {}
      /\ \A x \in Entities : k.snapshot[x] = "published" => remote[x] # {}
      /\ k.op = "create" => e \in Ads
      /\ ~overlapped => k.snapshot = registry
      /\ ~overlapped /\ k.op = "create" => registry[e] = "none"
  BY <1>1 DEF CallFits, KindFits, BrokerFits, RegistryFits, TurnFits, Prepared
<1>6. new # "none" /\ (new = "published" <=> k.op = "publish")
  BY <1>1
<1>7. Wood \in Entities /\ Ads \subseteq Entities
  BY BoundsAssumption DEF Wood, Ads, Entities
<1> HIDE DEF j, new, e, k
<1>8. /\ registry' \in [Entities -> Statuses]
      /\ \A x \in Entities : registry'[x] = IF x = e THEN new ELSE k.snapshot[x]
  BY <1>1, <1>4
<1>9. handed' \in [Ads -> Nat]
  BY <1>4, <1>5 DEF IInv, TypeOK
<1>10. \A d \in Callers : call'[d] = IF d = c THEN j ELSE call[d]
  BY <1>3 DEF IInv, TypeOK
<1>11. TypeOK'
  BY <1>2, <1>3, <1>4, <1>8, <1>9 DEF IInv, TypeOK, bounds
<1>12. BrokerHasPublished'
  BY <1>4, <1>5, <1>6, <1>8 DEF IInv, BrokerHasPublished
<1>13. RegistryWhole'
  BY <1>4, <1>5, <1>6, <1>7, <1>8 DEF RegistryWhole
<1>14. IdentitiesInTurn'
  <2> SUFFICES ASSUME ~overlapped, NEW s \in Ads
               PROVE  /\ handed'[s] = IF registry'[s] = "none" THEN 0 ELSE 1
                      /\ local'[s] # {} => registry'[s] # "none"
    BY <1>4 DEF IdentitiesInTurn
  <2>1. /\ handed[s] = IF registry[s] = "none" THEN 0 ELSE 1
        /\ local[s] # {} => registry[s] # "none"
        /\ handed \in [Ads -> Nat]
    BY DEF IInv, TypeOK, IdentitiesInTurn
  <2>2. CASE s = e
    BY <1>1, <1>4, <1>5, <1>6, <1>7, <1>8, <2>1, <2>2
  <2>3. CASE s # e
    BY <1>4, <1>5, <1>7, <1>8, <2>1, <2>3
  <2>. QED
    BY <2>2, <2>3
<1>15. (\A d \in Callers : CallFits(call[d]))'
  <2> SUFFICES ASSUME NEW d \in Callers PROVE CallFits(call[d])'
    OBVIOUS
  <2>1. CASE d = c
    BY <1>2, <1>10, <2>1 DEF CallFits, KindFits, BrokerFits, RegistryFits, TurnFits, Prepared
  <2>2. CASE d # c
    <3>1. call'[d] = call[d] /\ CallFits(call[d]) /\ (~overlapped => call[d].at = "idle")
      BY <1>1, <1>10, <2>2, OthersIdle DEF IInv, k
    <3>. QED
      BY <1>4, <3>1 DEF CallFits, KindFits, BrokerFits, RegistryFits, TurnFits, Prepared
  <2>. QED
    BY <2>1, <2>2
<1>16. Alone'
  BY <1>1, <1>2, <1>4, <1>10 DEF IInv, Alone, k
<1>. QED
  BY <1>11, <1>12, <1>13, <1>14, <1>15, <1>16 DEF IInv

LEMMA UpsertKeeps ==
  ASSUME IInv, NEW c \in Callers, Upsert(c) PROVE IInv'
<1> DEFINE k == call[c]
           e == k.entity
           stored == [remote EXCEPT ![e] = k.payload]
           j == [k EXCEPT !.at = "readback", !.retried = FALSE]
<1>1. /\ k \in CallRecord /\ CallFits(k) /\ k.at = "upsert" /\ e \in Entities
      /\ k.payload \in Payloads /\ k.payload # {} /\ k.op = "publish"
      /\ e # Wood => remote[Wood] # {}
      /\ ~overlapped => Prepared(k.payload, e)
  BY DEF IInv, TypeOK, Upsert, At, CallRecord, CallFits, KindFits, BrokerFits, TurnFits, Prepared
<1>2. /\ UNCHANGED <<measured, files, handed, overlapped>>
      /\ calls' \in Nat /\ faults' \in Nat /\ measures' \in Nat
  <2>1. UNCHANGED <<measured, files, handed, overlapped, calls, measures>>
    BY DEF Upsert
  <2>2. UNCHANGED faults \/ Fault
    BY DEF Upsert
  <2>. QED
    BY <2>1, <2>2 DEF IInv, TypeOK, Fault
<1>3. /\ j \in CallRecord /\ j.at = "readback" /\ j.op = "publish" /\ j.entity = e
      /\ j.payload = k.payload
  BY <1>1 DEF CallRecord, Places
<1>4. CallFits(j)
  <2> HIDE DEF j
  <2>. QED
    BY <1>1, <1>3 DEF CallFits, KindFits, BrokerFits, RegistryFits, TurnFits, Prepared
<1>5. CASE remote' = remote /\ Become(c, j)
  <2> HIDE DEF j
  <2>. QED
    BY <1>1, <1>2, <1>3, <1>4, <1>5, CallMoves
<1>6. ASSUME NEW new \in CallRecord, CallFits(new), new.at \in {"readback", "idle"},
             new.at = "readback" => new.op = "publish" /\ new.entity = e,
             remote' = stored, Become(c, new)
      PROVE  IInv'
  <2>1. /\ remote' \in [Entities -> Payloads]
        /\ \A x \in Entities : remote'[x] = IF x = e THEN k.payload ELSE remote[x]
    BY <1>1, <1>6 DEF IInv, TypeOK
  <2>2. \A x \in Entities : remote[x] # {} => remote'[x] # {}
    BY <1>1, <2>1
  <2>3. \A d \in Callers : call'[d] = IF d = c THEN new ELSE call[d]
    BY <1>6 DEF Become, IInv, TypeOK
  <2>4. Wood \in Entities /\ Ads \subseteq Entities
    BY BoundsAssumption DEF Wood, Ads, Entities
  <2> HIDE DEF stored, j
  <2>5. TypeOK'
    BY <1>2, <1>6, <2>1 DEF IInv, TypeOK, Become, files
  <2>6. BrokerHasPublished'
    BY <1>1, <1>2, <2>1, <2>2, <2>4 DEF IInv, BrokerHasPublished, files
  <2>7. RegistryWhole' /\ IdentitiesInTurn'
    BY <1>2 DEF IInv, RegistryWhole, IdentitiesInTurn, files
  <2>8. (\A d \in Callers : CallFits(call[d]))'
    <3> SUFFICES ASSUME NEW d \in Callers PROVE CallFits(call[d])'
      OBVIOUS
    <3>1. CASE d = c
      BY <1>1, <1>2, <1>6, <2>1, <2>2, <2>3, <2>4, <3>1
         DEF CallFits, KindFits, BrokerFits, RegistryFits, TurnFits, Prepared, files
    <3>2. CASE d # c
      <4>1. /\ call'[d] = call[d] /\ CallFits(call[d]) /\ call[d].entity \in Entities
            /\ ~overlapped => call[d].at = "idle"
        BY <1>1, <2>3, <3>2, OthersIdle DEF IInv, TypeOK, CallRecord
      <4>. QED
        BY <1>2, <2>2, <2>4, <4>1 DEF CallFits, KindFits, BrokerFits, RegistryFits, TurnFits, Prepared,
           files
    <3>. QED
      BY <3>1, <3>2
  <2>9. Alone'
    BY <1>1, <1>2, <1>6, <2>3 DEF IInv, Alone
  <2>. QED
    BY <2>5, <2>6, <2>7, <2>8, <2>9 DEF IInv
<1>7. \/ remote' = remote /\ Become(c, j)
      \/ remote' = stored /\ Become(c, j)
      \/ remote' = stored /\ Become(c, Idle)
  BY DEF Upsert, Answered, Ends
<1> HIDE DEF j, stored
<1>. QED
  BY <1>3, <1>4, <1>5, <1>6, <1>7, IdleFits

-----------------------------------------------------------------------------
LEMMA Initially == ASSUME Init PROVE IInv
<1> USE DEF Init
<1>1. \A c \in Callers : call[c] = Idle
  OBVIOUS
<1>2. Nowhere \in [Entities -> Statuses] /\ \A e \in Entities : Nowhere[e] = "none"
  BY DEF Nowhere, Statuses
<1>3. TypeOK
  BY <1>2, IdleFits DEF TypeOK, Payloads
<1>4. BrokerHasPublished /\ RegistryWhole
  BY <1>2, BoundsAssumption DEF BrokerHasPublished, RegistryWhole, Ads, Entities
<1>5. IdentitiesInTurn
  BY <1>2, BoundsAssumption DEF IdentitiesInTurn, Ads, Entities
<1>6. Alone
  BY <1>1, IdleFits DEF Alone
<1>. QED
  BY <1>1, <1>3, <1>4, <1>5, <1>6, IdleFits DEF IInv

LEMMA StutterKeeps == ASSUME IInv, UNCHANGED vars PROVE IInv'
BY DEF vars, files, bounds, IInv, TypeOK, BrokerHasPublished, RegistryWhole, IdentitiesInTurn,
       CallFits, KindFits, BrokerFits, RegistryFits, TurnFits, Prepared, Alone

LEMMA StepKeeps == ASSUME IInv, [Next]_vars PROVE IInv'
<1>1. CASE UNCHANGED vars
  BY <1>1, StutterKeeps
<1>2. ASSUME NEW c \in Callers, Step(c) PROVE IInv'
  BY <1>2, StepKeepsReads, OpenRegistryKeeps, FillRegistryKeeps, LoadRegistryKeeps,
     StoreRegistryKeeps, SavePayloadKeeps, RequestKeeps, UpsertKeeps DEF Step
<1>3. CASE Next
  BY <1>2, <1>3, MeasureKeeps, CallKeeps, FailureKeeps DEF Next
<1>. QED
  BY <1>1, <1>3

(* IInv is inductive.                                                      *)
THEOREM Invariance == Spec => []IInv
<1>. QED
  BY Initially, StepKeeps, PTL DEF Spec

(* Every variable has its type.                                            *)
THEOREM TypeCorrect == Spec => []TypeOK
<1>1. IInv => TypeOK
  BY DEF IInv
<1>. QED
  BY <1>1, Invariance, PTL

(* What the registry calls published is at the broker, under any number of *)
(* concurrent, failing and killed calls.                                   *)
THEOREM PublishedIsAtBroker == Spec => []BrokerHasPublished
<1>1. IInv => BrokerHasPublished
  BY DEF IInv
<1>. QED
  BY <1>1, Invariance, PTL

(* Calls that take turns hand every sequence number out once and keep it.  *)
THEOREM IdentitiesKept == Spec => []IdentitiesInTurn
<1>1. IInv => IdentitiesInTurn
  BY DEF IInv
<1>. QED
  BY <1>1, Invariance, PTL

(* As long as no two calls have overlapped, a publication changes the      *)
(* status only when the broker shows the quantity of the payload files,    *)
(* also when an upsert had no effect (_publish).  Nothing is said of the   *)
(* details, which _publish does not compare.                               *)
THEOREM PublishesPreparedQuantity == Spec => []QuantityAsPrepared
<1>1. IInv => QuantityAsPrepared
  BY DEF IInv, QuantityAsPrepared, CallFits, TurnFits, Prepared
<1>. QED
  BY <1>1, Invariance, PTL

(* No step takes a whole registry or its Wood identity away.               *)
THEOREM RegistryIsKept == Spec => RegistryLasts
<1>1. ASSUME IInv, IInv', [Next]_vars
      PROVE  [file = "whole" => file' = "whole" /\ registry'[Wood] # "none"]_vars
  <2>1. file = "whole" => file' = "whole"
    BY <1>1 DEF Next, vars, files, Measure, Step, Unauthorized, Killed, Call, PrepareWood,
       CreateAdvertisement, UpdateAdvertisement, PublishOnce, PublishAgain, PublishWood, Begin,
       ReadMeasurements, EnsureRegistry, OpenRegistry, FillRegistry, RequireWood, LoadRegistry,
       StoreRegistry, BuildAdvertisement, SavePayload, Preview, FindWood, FindExisting, Upsert,
       Readback
  <2>. QED
    BY <1>1, <2>1 DEF IInv, RegistryWhole
<1>. QED
  BY <1>1, Invariance, PTL DEF Spec, RegistryLasts
=============================================================================
