---------------------------- MODULE EntityStore ----------------------------
(***************************************************************************)
(* EntityManager (framework/workspace/entity_manager.py): entities that    *)
(* several processes create, claim, release and use up.  The availability  *)
(* of an entity is kept twice: in a row of the SQLite index, which decides *)
(* who may claim it, and in the manifest of its directory, rewritten       *)
(* through a temporary file of a fixed name.  No lock spans the two.       *)
(***************************************************************************)
EXTENDS Naturals

CONSTANTS
  Entities,    \* entity ids
  Consumers,   \* processes that create, claim and give back entities
  Admins,      \* processes that override availability
  MaxCalls     \* bound: calls made

Users == Consumers \cup Admins
NoOne == "no one"

ASSUME UsersAssumption == Consumers \cap Admins = {} /\ NoOne \notin Users
ASSUME MaxCallsAssumption == MaxCalls \in Nat

VARIABLES
  index,       \* the rows of entities.db
  manifest,    \* the entity directories: entity.json, if it is there
  draft,       \* entity.json.tmp
  call,        \* the call each process is in, and how far it is
  holds,       \* the entities whose claim succeeded, by process
  calls,       \* calls made
  overridden,  \* entities ever overridden by an administrator
  overlapped,  \* entities on which calls overlapped
  failed       \* entities on which a call raised half way, or its process died

vars == <<index, manifest, draft, call, holds, calls, overridden, overlapped, failed>>

Free(status) == [status |-> status, by |-> NoOne]
Claimed(u) == [status |-> "claimed", by |-> u]
State == {Free("available"), Free("unavailable")} \cup {Claimed(u) : u \in Consumers}

Absent == [status |-> "absent", by |-> NoOne]        \* no row
NoDirectory == [status |-> "no directory", by |-> NoOne]
NoManifest == [status |-> "no manifest", by |-> NoOne]
NoDraft == [status |-> "no file", by |-> NoOne]
Idle == [at |-> "idle"]

Init ==
  /\ index = [e \in Entities |-> Absent]
  /\ manifest = [e \in Entities |-> NoDirectory]
  /\ draft = [e \in Entities |-> NoDraft]
  /\ call = [u \in Users |-> Idle]
  /\ holds = [u \in Users |-> {}]
  /\ calls = 0 /\ overridden = {} /\ overlapped = {} /\ failed = {}

-----------------------------------------------------------------------------
At(u, at) == call[u].at = at
On(u) == call[u].entity
Calling(e) == {u \in Users : call[u] # Idle /\ On(u) = e}

(* A call starts, perhaps while another one on the entity is on its way.   *)
Begin(u, op, e, at, result) ==
  /\ call[u] = Idle /\ calls < MaxCalls
  /\ calls' = calls + 1
  /\ call' = [call EXCEPT ![u] = [at |-> at, op |-> op, entity |-> e, result |-> result]]
  /\ overlapped' = IF Calling(e) # {} THEN overlapped \cup {e} ELSE overlapped
  /\ UNCHANGED failed

Proceed(u, at) == call' = [call EXCEPT ![u].at = at] /\ UNCHANGED <<overlapped, failed>>
Return(u) == call' = [call EXCEPT ![u] = Idle] /\ UNCHANGED <<overlapped, failed>>
Raise(u) ==
  /\ call' = [call EXCEPT ![u] = Idle]
  /\ failed' = failed \cup {On(u)}
  /\ UNCHANGED overlapped

-----------------------------------------------------------------------------
(* create_entity: not registered yet, then the directory, then the         *)
(* manifest, then the row.                                                 *)
CreateEntity(u, e) ==
  /\ index[e] = Absent
  /\ Begin(u, "create", e, "mkdir", Free("available"))
  /\ UNCHANGED <<index, manifest, draft, holds, overridden>>

(* Slip: mkdir(exist_ok=True).                                             *)
MakeDirectory_ExistOk(u) ==
  /\ At(u, "mkdir")
  /\ Proceed(u, "manifest") /\ manifest' = [manifest EXCEPT ![On(u)] = NoManifest]
  /\ UNCHANGED <<index, draft, holds, calls, overridden>>

MakeDirectory(u) ==
  /\ At(u, "mkdir")
  /\ IF manifest[On(u)] = NoDirectory
     THEN Proceed(u, "manifest") /\ manifest' = [manifest EXCEPT ![On(u)] = NoManifest]
     ELSE Raise(u) /\ UNCHANGED manifest
  /\ UNCHANGED <<index, draft, holds, calls, overridden>>

WriteManifest(u) ==
  /\ At(u, "manifest")
  /\ manifest' = [manifest EXCEPT ![On(u)] = call[u].result]
  /\ Proceed(u, "register")
  /\ UNCHANGED <<index, draft, holds, calls, overridden>>

RegisterEntity(u) ==
  /\ At(u, "register")
  /\ index' = [index EXCEPT ![On(u)] = call[u].result]
  /\ Return(u)
  /\ UNCHANGED <<manifest, draft, holds, calls, overridden>>

(* claim_entity: one conditional UPDATE, then the manifest.  A claim that  *)
(* finds the entity unavailable raises and changes nothing.                *)
ClaimEntity(u, e) ==
  /\ index[e] = Free("available")
  /\ Begin(u, "claim", e, "draft", Claimed(u))
  /\ index' = [index EXCEPT ![e] = Claimed(u)]
  /\ UNCHANGED <<manifest, draft, holds, overridden>>

(* Slip: the claimant is not compared.                                     *)
GiveBack_AnyOwner(u, e, status) ==
  /\ index[e].status = "claimed"
  /\ Begin(u, "give back", e, "draft", Free(status))
  /\ index' = [index EXCEPT ![e] = Free(status)]
  /\ holds' = [holds EXCEPT ![u] = @ \ {e}]
  /\ UNCHANGED <<manifest, draft, overridden>>

(* release_entity and mark_unavailable: by the current claimant.           *)
GiveBack(u, e, status) ==
  /\ index[e] = Claimed(u)
  /\ Begin(u, "give back", e, "draft", Free(status))
  /\ index' = [index EXCEPT ![e] = Free(status)]
  /\ holds' = [holds EXCEPT ![u] = @ \ {e}]
  /\ UNCHANGED <<manifest, draft, overridden>>

(* set_availability: the manifest first, the row last.                     *)
SetAvailability(u, e, status) ==
  /\ index[e] # Absent
  /\ Begin(u, "override", e, "draft", Free(status))
  /\ overridden' = overridden \cup {e}
  /\ UNCHANGED <<index, manifest, draft, holds>>

WriteDraft(u) ==
  /\ At(u, "draft")
  /\ draft' = [draft EXCEPT ![On(u)] = call[u].result]
  /\ Proceed(u, "replace")
  /\ UNCHANGED <<index, manifest, holds, calls, overridden>>

(* Slip: the temporary file is not moved over the manifest.                *)
ReplaceManifest_Forgotten(u) ==
  /\ At(u, "replace")
  /\ IF call[u].op = "override" THEN Proceed(u, "update") ELSE Return(u)
  /\ UNCHANGED <<index, manifest, draft, holds, calls, overridden>>

(* The temporary file replaces the manifest; another call may have moved   *)
(* it away, which raises.                                                  *)
ReplaceManifest(u) ==
  /\ At(u, "replace")
  /\ IF draft[On(u)] = NoDraft
     THEN Raise(u) /\ UNCHANGED <<manifest, draft, holds>>
     ELSE /\ manifest' = [manifest EXCEPT ![On(u)] = draft[On(u)]]
          /\ draft' = [draft EXCEPT ![On(u)] = NoDraft]
          /\ IF call[u].op = "override" THEN Proceed(u, "update") ELSE Return(u)
          /\ holds' = IF call[u].op = "claim" THEN [holds EXCEPT ![u] = @ \cup {On(u)}]
                                              ELSE holds
  /\ UNCHANGED <<index, calls, overridden>>

UpdateIndex(u) ==
  /\ At(u, "update")
  /\ index' = [index EXCEPT ![On(u)] = call[u].result]
  /\ Return(u)
  /\ UNCHANGED <<manifest, draft, holds, calls, overridden>>

(* A process dies in a call, or between calls, and forgets what it held.   *)
Crash(u) ==
  /\ call[u] # Idle \/ holds[u] # {}
  /\ IF call[u] # Idle THEN Raise(u) ELSE UNCHANGED <<call, overlapped, failed>>
  /\ holds' = [holds EXCEPT ![u] = {}]
  /\ UNCHANGED <<index, manifest, draft, calls, overridden>>

-----------------------------------------------------------------------------
ConsumerCalls(u, e) ==
  \/ CreateEntity(u, e) \/ ClaimEntity(u, e)
  \/ GiveBack(u, e, "available") \/ GiveBack(u, e, "unavailable")

AdminCalls(u, e) == SetAvailability(u, e, "available") \/ SetAvailability(u, e, "unavailable")

Works(u) ==
  \/ MakeDirectory(u) \/ WriteManifest(u) \/ RegisterEntity(u)
  \/ WriteDraft(u) \/ ReplaceManifest(u) \/ UpdateIndex(u)

Next ==
  \/ \E u \in Consumers, e \in Entities : ConsumerCalls(u, e)
  \/ \E u \in Admins, e \in Entities : AdminCalls(u, e)
  \/ \E u \in Users : Works(u) \/ Crash(u)

Spec == Init /\ [][Next]_vars

-----------------------------------------------------------------------------
Steps == {"mkdir", "manifest", "register", "draft", "replace", "update"}
Call == [at : Steps, op : {"create", "claim", "give back", "override"},
         entity : Entities, result : State]

TypeOK ==
  /\ index \in [Entities -> State \cup {Absent}]
  /\ manifest \in [Entities -> State \cup {NoDirectory, NoManifest}]
  /\ draft \in [Entities -> State \cup {NoDraft}]
  /\ call \in [Users -> Call \cup {Idle}]
  /\ holds \in [Users -> SUBSET Entities]
  /\ overridden \cup overlapped \cup failed \subseteq Entities

(* What a process was told it holds is claimed by it in the index, until   *)
(* it gives it back itself or an administrator overrides it: two processes *)
(* never both hold an entity.                                              *)
HeldIsClaimed ==
  \A u \in Users : \A e \in holds[u] : index[e] = Claimed(u) \/ e \in overridden

(* create_entity of the same id in the same entry by several processes:    *)
(* one gets past the making of the directory, which is per entry, and      *)
(* registers it; a registered entity has its manifest from the first       *)
(* moment.                                                                 *)
Creating(u) == call[u] # Idle /\ call[u].at \in {"manifest", "register"}
OneCreator ==
  /\ \A e \in Entities : index[e] # Absent => manifest[e] \in State
  /\ \A u, v \in Users : Creating(u) /\ Creating(v) /\ On(u) = On(v) => u = v

(* Why: what each call in progress relies on.                              *)
ClaimSound(u) ==
  call[u].op = "claim" =>
    u \in Consumers /\ (index[On(u)] = Claimed(u) \/ On(u) \in overridden)
OverrideSound(u) == call[u].op = "override" => On(u) \in overridden
CreationSound(u) ==
  /\ call[u].at \in {"mkdir", "manifest", "register"} <=> call[u].op = "create"
  /\ call[u].at = "update" => call[u].op = "override"
  /\ call[u].op # "create" => index[On(u)] # Absent
  /\ call[u].at = "manifest" => index[On(u)] = Absent /\ manifest[On(u)] = NoManifest
  /\ call[u].at = "register" => index[On(u)] = Absent /\ manifest[On(u)] \in State
CallSound(u) == call[u] # Idle => ClaimSound(u) /\ OverrideSound(u) /\ CreationSound(u)

IInv == TypeOK /\ HeldIsClaimed /\ OneCreator /\ \A u \in Users : CallSound(u)

(* As long as calls on an entity do not overlap and none of them fails,    *)
(* the manifest says what the index says after each of them.               *)
Agree(e) == \/ manifest[e] = index[e]
            \/ manifest[e] = NoDirectory /\ index[e] = Absent
StoresAgreeInTurn ==
  \A e \in Entities : Calling(e) = {} /\ e \notin overlapped \cup failed => Agree(e)

(* Why: two calls on an entity at a time are an overlap, and a call that   *)
(* is alone has done what its step says.                                   *)
Overlaps ==
  \A u, v \in Users :
    call[u] # Idle /\ call[v] # Idle /\ On(u) = On(v) /\ u # v => On(u) \in overlapped
Progress(u) ==
  LET c == call[u] IN
  /\ c.at = "mkdir" => index[On(u)] = Absent /\ manifest[On(u)] = NoDirectory
  /\ c.at = "register" => manifest[On(u)] = c.result
  /\ c.at \in {"draft", "replace"} /\ c.op # "override" => index[On(u)] = c.result
  /\ c.at = "replace" => draft[On(u)] = c.result
  /\ c.at = "update" => manifest[On(u)] = c.result
TurnSound(u) == call[u] # Idle /\ On(u) \notin overlapped \cup failed => Progress(u)

TurnInv == Overlaps /\ StoresAgreeInTurn /\ \A u \in Users : TurnSound(u)

(* "Availability state is persisted in both: entity.json, entities.db"     *)
(* (framework/workspace/README.md): when every call on an entity has       *)
(* returned without an error, the two say the same.                        *)
StoresAgree ==
  \A e \in Entities : Calling(e) = {} /\ e \notin failed => Agree(e)
=============================================================================
