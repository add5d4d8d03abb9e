----------------------------- MODULE Circuloos ------------------------------
(***************************************************************************)
(* operations/circuloos_adapter for one timber: its measurements are       *)
(* mapped to a Wood payload, advertisements of it are allocated in the     *)
(* timber's registry and mapped too, and both are published to the Orion   *)
(* broker.  Every operation is a call of some process; the registry is     *)
(* read, changed and replaced without a lock.  A payload is a set of at    *)
(* most one record: {} is no payload; quantity 0 stands for a quantity     *)
(* that is missing; the details are everything else in it (dimensions,     *)
(* title, price, status), which no publication compares.                   *)
(***************************************************************************)
EXTENDS Naturals, FiniteSets

CONSTANTS
  Callers,      \* processes that use the services
  Quantities,   \* surfaces a measurement may give
  Details,      \* what else a payload may say
  MaxAds,       \* the last sequence number an URN has room for (999)
  MaxCalls,     \* bounds: calls, apart from publish_wood(overwrite=True),
  MaxMeasured,  \*         measurements after the first,
  MaxFaults     \*         failed requests and killed calls

ASSUME QuantitiesAssumption == Quantities \subseteq Nat
ASSUME BoundsAssumption ==
  MaxAds \in Nat /\ MaxCalls \in Nat /\ MaxMeasured \in Nat /\ MaxFaults \in Nat

Wood == 0
Ads == 1 .. MaxAds
Entities == 0 .. MaxAds
Statuses == {"none", "local_only", "published"}
Contents == [quantity : Quantities \cup {0}, details : Details]
Payloads == {{}} \cup {{content} : content \in Contents}
Quantity(payload) == {content.quantity : content \in payload}
HasQuantity(payload) == payload # {} /\ Quantity(payload) # {0}
SameQuantity(p, q) == Quantity(p) = Quantity(q)

VARIABLES
  measured,   \* measurements.json
  file,       \* circuloos_registry.json: absent, partial or whole
  registry,   \* the publication status of every registered entity in it
  local,      \* the payload files
  remote,     \* external: the broker's entities
  call,       \* what each process is doing
  handed,     \* how often each sequence number was handed out
  overlapped, \* two calls have been under way at once
  calls, faults, measures
vars == <<measured, file, registry, local, remote, call, handed, overlapped,
          calls, faults, measures>>

Ops == {"prepare", "create", "update", "publish"}
Places == {"idle", "measure", "ensure", "open", "fill", "require", "load", "store", "build",
           "save", "preview", "findWood", "exists", "upsert", "readback"}
Nowhere == [e \in Entities |-> "none"]
Idle == [op |-> "prepare", at |-> "idle", entity |-> Wood, overwrite |-> FALSE,
         payload |-> {}, snapshot |-> Nowhere, retried |-> FALSE]

Init ==
  /\ measured \in {p \in Payloads : HasQuantity(p)}
  /\ file = "absent" /\ registry = Nowhere
  /\ local = [e \in Entities |-> {}] /\ remote = [e \in Entities |-> {}]
  /\ call = [c \in Callers |-> Idle]
  /\ handed = [s \in Ads |-> 0]
  /\ overlapped = FALSE
  /\ calls = 0 /\ faults = 0 /\ measures = 0

files == <<file, registry, local>>
bounds == <<calls, faults, measures>>

Become(c, new) == call' = [call EXCEPT ![c] = new]
Goto(c, at) == Become(c, [call[c] EXCEPT !.at = at])
(* The call returns, or raises: the caller learns, no file does.           *)
Ends(c) == Become(c, Idle)
Continue(c, ok, at) == IF ok THEN Goto(c, at) ELSE Ends(c)
At(c, at) == call[c].at = at

(* A sensing run measures the timber again, with or without its surface.   *)
Measure(content) ==
  /\ measures < MaxMeasured
  /\ measures' = measures + 1
  /\ measured' = {content}
  /\ UNCHANGED <<files, remote, call, handed, overlapped, calls, faults>>

Begin(c, op, at, e, overwrite) ==
  /\ At(c, "idle")
  /\ Become(c, [Idle EXCEPT !.op = op, !.at = at, !.entity = e, !.overwrite = overwrite])
  /\ overlapped' = (overlapped \/ \E d \in Callers \ {c} : call[d].at # "idle")
  /\ UNCHANGED <<measured, files, remote, handed, faults, measures>>

Counted == calls < MaxCalls /\ calls' = calls + 1

PrepareWood(c) == Begin(c, "prepare", "measure", Wood, FALSE) /\ Counted
CreateAdvertisement(c) == Begin(c, "create", "require", Wood, FALSE) /\ Counted
UpdateAdvertisement(c, s) == Begin(c, "update", "require", s, FALSE) /\ Counted
PublishOnce(c, e) == Begin(c, "publish", "preview", e, FALSE) /\ Counted
PublishAgain(c, s) == Begin(c, "publish", "preview", s, TRUE) /\ Counted
(* The operator repeats this one until it succeeds.                        *)
PublishWood(c) == Begin(c, "publish", "preview", Wood, TRUE) /\ UNCHANGED calls

-----------------------------------------------------------------------------
(* WoodMapper.build reads the measurements before it asks for a registry.  *)
ReadMeasurements(c) ==
  /\ At(c, "measure")
  /\ Become(c, [call[c] EXCEPT !.at = "ensure", !.payload = measured])
  /\ UNCHANGED <<measured, files, remote, handed, overlapped, bounds>>

(* ensure: load what is there, a partial file raises.                      *)
EnsureRegistry(c) ==
  /\ At(c, "ensure")
  /\ CASE file = "whole" -> Goto(c, "save")
       [] file = "partial" -> Ends(c)
       [] file = "absent" -> Goto(c, "open")
  /\ UNCHANGED <<measured, files, remote, handed, overlapped, bounds>>

(* Slip: mode "w" takes the file over.                                     *)
OpenRegistry_Truncates(c) ==
  /\ At(c, "open")
  /\ file' = "partial" /\ registry' = Nowhere /\ Goto(c, "fill")
  /\ UNCHANGED <<measured, local, remote, handed, overlapped, bounds>>

(* ensure creates the file in mode "x", which fails when another did.      *)
OpenRegistry(c) ==
  /\ At(c, "open")
  /\ IF file = "absent" THEN file' = "partial" /\ Goto(c, "fill")
                        ELSE Ends(c) /\ UNCHANGED file
  /\ UNCHANGED <<measured, registry, local, remote, handed, overlapped, bounds>>

(* ... and writes into it.  Nobody can have loaded it before.              *)
FillRegistry(c) ==
  /\ At(c, "fill")
  /\ file' = "whole"
  /\ registry' = [Nowhere EXCEPT ![Wood] = "local_only"]
  /\ Goto(c, "save")
  /\ UNCHANGED <<measured, local, remote, handed, overlapped, bounds>>

(* _prepare_advertisement_prerequisites, and the existing record of an     *)
(* update.                                                                 *)
RequireWood(c) ==
  /\ At(c, "require")
  /\ Continue(c, /\ file = "whole" /\ HasQuantity(local[Wood])
                 /\ registry[call[c].entity] # "none",
              IF call[c].op = "create" THEN "load" ELSE "build")
  /\ UNCHANGED <<measured, files, remote, handed, overlapped, bounds>>

Registered(snapshot) == {s \in Ads : snapshot[s] # "none"}

(* Slip: the first number without a payload is taken to be free.           *)
NextSequence_NoPayload(snapshot) ==
  CHOOSE n \in 1 .. MaxAds + 1 :
    /\ n \notin Ads \/ local[n] = {}
    /\ \A m \in Ads : m < n => local[m] # {}

(* max(existing_sequences, default=0) + 1                                  *)
NextSequence(snapshot) ==
  CHOOSE n \in 1 .. MaxAds + 1 :
    /\ \A s \in Registered(snapshot) : s < n
    /\ n = 1 \/ n - 1 \in Registered(snapshot)

(* allocate_advertisement and set_publication_status load the registry.    *)
(* The first raises when the numbers are used up, the second when the      *)
(* advertisement is no longer there.                                       *)
LoadRegistry(c) ==
  LET e == IF call[c].op = "create" THEN NextSequence(registry) ELSE call[c].entity IN
  /\ At(c, "load")
  /\ IF /\ file = "whole" /\ e \in Entities
        /\ call[c].op # "create" => registry[e] # "none"
     THEN Become(c, [call[c] EXCEPT !.at = "store", !.entity = e, !.snapshot = registry])
     ELSE Ends(c)
  /\ UNCHANGED <<measured, files, remote, handed, overlapped, bounds>>

(* ... and _save replaces it by the copy they changed.                     *)
StoreRegistry(c) ==
  LET e == call[c].entity IN
  /\ At(c, "store")
  /\ IF call[c].op = "create"
     THEN /\ registry' = [call[c].snapshot EXCEPT ![e] = "local_only"]
          /\ handed' = [handed EXCEPT ![e] = @ + 1]
          /\ Goto(c, "build")
     ELSE /\ registry' = [call[c].snapshot EXCEPT ![e] = "published"]
          /\ Ends(c)
          /\ UNCHANGED handed
  /\ UNCHANGED <<measured, file, local, remote, overlapped, bounds>>

(* RampMapper.build: the URN must be registered; the quantity is that of   *)
(* the Wood payload, the details are what the caller gives.                *)
BuildAdvertisement(c) ==
  LET e == call[c].entity IN
  /\ At(c, "build")
  /\ IF registry[e] # "none" /\ HasQuantity(local[Wood])
     THEN \E p \in Payloads :
            /\ SameQuantity(p, local[Wood])
            /\ Become(c, [call[c] EXCEPT !.at = "save", !.payload = p])
     ELSE Ends(c)
  /\ UNCHANGED <<measured, files, remote, handed, overlapped, bounds>>

(* _save_json_atomic.  RampMapper.save loads the registry once more.       *)
SavePayload(c) ==
  LET e == call[c].entity IN
  /\ At(c, "save")
  /\ local' = IF registry[e] # "none" THEN [local EXCEPT ![e] = call[c].payload] ELSE local
  /\ Ends(c)
  /\ UNCHANGED <<measured, file, registry, remote, handed, overlapped, bounds>>

-----------------------------------------------------------------------------
(* preview_wood, preview_advertisement: an advertisement must have the     *)
(* quantity of the Wood payload.                                           *)
Preview(c) ==
  LET e == call[c].entity IN
  /\ At(c, "preview")
  /\ IF /\ file = "whole" /\ registry[e] # "none"
        /\ HasQuantity(local[Wood]) /\ SameQuantity(local[e], local[Wood])
     THEN Become(c, [call[c] EXCEPT !.at = IF e = Wood THEN "exists" ELSE "findWood",
                                    !.payload = local[e]])
     ELSE Ends(c)
  /\ UNCHANGED <<measured, files, remote, handed, overlapped, bounds>>

(* The next request starts with its own first attempt.                     *)
Answered(c, ok, at) ==
  IF ok THEN Become(c, [call[c] EXCEPT !.at = at, !.retried = FALSE]) ELSE Ends(c)

FindWood(c) ==
  /\ At(c, "findWood")
  /\ Answered(c, remote[Wood] # {}, "exists")
  /\ UNCHANGED <<measured, files, remote, handed, overlapped, bounds>>

(* Slip: overwrite is forgotten.                                           *)
FindExisting_NeverOverwrites(c) ==
  /\ At(c, "exists")
  /\ Answered(c, remote[call[c].entity] = {}, "upsert")
  /\ UNCHANGED <<measured, files, remote, handed, overlapped, bounds>>

FindExisting(c) ==
  /\ At(c, "exists")
  /\ Answered(c, remote[call[c].entity] = {} \/ call[c].overwrite, "upsert")
  /\ UNCHANGED <<measured, files, remote, handed, overlapped, bounds>>

Fault == faults < MaxFaults /\ faults' = faults + 1

(* external: the broker takes the entity; or it does, and the answer is    *)
(* lost; or it says so, and the entity is not to be seen.                  *)
Upsert(c) ==
  LET stored == [remote EXCEPT ![call[c].entity] = call[c].payload] IN
  /\ At(c, "upsert")
  /\ \/ remote' = stored /\ Answered(c, TRUE, "readback") /\ UNCHANGED faults
     \/ remote' = stored /\ Ends(c) /\ Fault
     \/ Answered(c, TRUE, "readback") /\ Fault /\ UNCHANGED remote
  /\ UNCHANGED <<measured, files, handed, overlapped, calls, measures>>

(* The readback compares the quantity, and of the rest only what the URN   *)
(* determines (id, type, refMaterial).                                     *)
(* Slips: the entity is not looked for; its quantity is not compared.      *)
Readback_Skipped(c) ==
  /\ At(c, "readback")
  /\ Answered(c, TRUE, "load")
  /\ UNCHANGED <<measured, files, remote, handed, overlapped, bounds>>
Readback_AnyQuantity(c) ==
  /\ At(c, "readback")
  /\ Answered(c, remote[call[c].entity] # {}, "load")
  /\ UNCHANGED <<measured, files, remote, handed, overlapped, bounds>>

Readback(c) ==
  /\ At(c, "readback")
  /\ Answered(c, /\ remote[call[c].entity] # {}
                 /\ SameQuantity(remote[call[c].entity], call[c].payload), "load")
  /\ UNCHANGED <<measured, files, remote, handed, overlapped, bounds>>

Requesting(c) == call[c].at \in {"findWood", "exists", "upsert", "readback"}

(* 401: a second attempt with a new token, and no third.                   *)
Unauthorized(c) ==
  /\ Requesting(c) /\ Fault
  /\ IF call[c].retried THEN Ends(c) ELSE Become(c, [call[c] EXCEPT !.retried = TRUE])
  /\ UNCHANGED <<measured, files, remote, handed, overlapped, calls, measures>>

(* A request that fails before the broker acted, or a process killed.      *)
Killed(c) ==
  /\ ~At(c, "idle") /\ Fault
  /\ Ends(c)
  /\ UNCHANGED <<measured, files, remote, handed, overlapped, calls, measures>>

Step(c) ==
  \/ ReadMeasurements(c) \/ EnsureRegistry(c) \/ OpenRegistry(c) \/ FillRegistry(c)
  \/ RequireWood(c) \/ LoadRegistry(c) \/ StoreRegistry(c)
  \/ BuildAdvertisement(c) \/ SavePayload(c)
  \/ Preview(c) \/ FindWood(c) \/ FindExisting(c) \/ Upsert(c) \/ Readback(c)

Call(c) ==
  \/ PrepareWood(c) \/ CreateAdvertisement(c) \/ PublishWood(c)
  \/ \E s \in Ads : UpdateAdvertisement(c, s) \/ PublishAgain(c, s)
  \/ \E e \in Entities : PublishOnce(c, e)

Next ==
  \/ \E content \in Contents : Measure(content)
  \/ \E c \in Callers : Call(c) \/ Step(c) \/ Unauthorized(c) \/ Killed(c)

(* A call in progress goes on; the operator repeats publish_wood.          *)
Spec ==
  /\ Init /\ [][Next]_vars
  /\ \A c \in Callers : WF_vars(Step(c)) /\ WF_vars(PublishWood(c))

-----------------------------------------------------------------------------
CallRecord == [op : Ops, at : Places, entity : Entities, overwrite : BOOLEAN,
               payload : Payloads, snapshot : [Entities -> Statuses], retried : BOOLEAN]

TypeOK ==
  /\ measured \in Payloads
  /\ file \in {"absent", "partial", "whole"}
  /\ registry \in [Entities -> Statuses]
  /\ local \in [Entities -> Payloads] /\ remote \in [Entities -> Payloads]
  /\ call \in [Callers -> CallRecord]
  /\ handed \in [Ads -> Nat] /\ overlapped \in BOOLEAN
  /\ calls \in Nat /\ faults \in Nat /\ measures \in Nat

(* What the registry calls published is at the broker, and so is the Wood  *)
(* of every advertisement there ("Publish and verify Wood before updating  *)
(* registry"), whatever calls interleave, fail or are killed.              *)
BrokerHasPublished ==
  /\ \A e \in Entities : registry[e] = "published" => remote[e] # {}
  /\ \A s \in Ads : remote[s] # {} => remote[Wood] # {}

(* As long as calls take turns, a sequence number is handed out once and   *)
(* stays registered, also when the call died before it wrote a payload;    *)
(* and every payload of an advertisement is one get_mapping lists.         *)
IdentitiesInTurn ==
  ~overlapped => \A s \in Ads :
    /\ handed[s] = IF registry[s] = "none" THEN 0 ELSE 1
    /\ local[s] # {} => registry[s] # "none"

(* A registry that was ever whole stays whole: nobody who maps the timber  *)
(* at the same time, and no crash, takes its identities away.              *)
RegistryLasts == [][file = "whole" => /\ file' = "whole"
                                      /\ registry'[Wood] # "none"]_vars

(* If calls take turns, a publication that sets out to change the status   *)
(* does it when the broker shows the quantity of the payload file and, for *)
(* an advertisement, of the Wood payload file too, though its upsert may   *)
(* have had no effect.  Of the details this says nothing: they may be      *)
(* those that an earlier publication left at the broker.                   *)
QuantityAsPrepared ==
  ~overlapped => \A c \in Callers :
    LET k == call[c] IN
    k.op = "publish" /\ k.at \in {"load", "store"} =>
      /\ SameQuantity(remote[k.entity], local[k.entity])
      /\ SameQuantity(remote[k.entity], local[Wood])
      /\ HasQuantity(remote[k.entity])

(* An operator who repeats publish_wood(overwrite=True) gets the Wood      *)
(* published, whatever failed before, unless there is nothing to publish:  *)
(* no payload with a quantity, or a registry whose creator died.           *)
PublicationConverges ==
  \/ <>[](file # "whole" \/ ~HasQuantity(local[Wood]))
  \/ []<>(registry[Wood] = "published")
=============================================================================
