------------------------- MODULE EntityStoreProofs -------------------------
(* Proofs about EntityStore for every set of entities, consumers and       *)
(* administrators, and any number of calls.                                *)
EXTENDS EntityStore, TLAPS

LEMMA StateFacts ==
  /\ Free("available") \in State /\ Free("unavailable") \in State
  /\ \A u \in Consumers : Claimed(u) \in State
  /\ \A u, v : Claimed(u) = Claimed(v) => u = v
  /\ \A u : Claimed(u) # Free("available") /\ Claimed(u) # Free("unavailable")
  /\ \A u : Claimed(u) # Absent
  /\ {Absent, NoDirectory, NoManifest, NoDraft} \cap State = {}
  /\ NoDirectory # NoManifest
  /\ Idle \notin Call /\ \A c \in Call : c # Idle /\ c.at # "idle"
<1> USE DEF Free, Claimed, State
<1>1. /\ Free("available") \in State /\ Free("unavailable") \in State
      /\ \A u \in Consumers : Claimed(u) \in State
  OBVIOUS
<1>2. /\ \A u, v : Claimed(u) = Claimed(v) => u = v
      /\ \A u : Claimed(u) # Free("available") /\ Claimed(u) # Free("unavailable")
      /\ \A u : Claimed(u) # Absent
  <2>1. \A u : Claimed(u).status = "claimed" /\ Claimed(u).by = u
    OBVIOUS
  <2>2. Free("available").status = "available" /\ Free("unavailable").status = "unavailable"
        /\ Absent.status = "absent"
    BY DEF Absent
  <2>. QED
    BY <2>1, <2>2
<1>3. {Absent, NoDirectory, NoManifest, NoDraft} \cap State = {} /\ NoDirectory # NoManifest
  <2>1. \A s \in State : s.status \in {"available", "unavailable", "claimed"}
    OBVIOUS
  <2>2. /\ Absent.status = "absent" /\ NoDirectory.status = "no directory"
        /\ NoManifest.status = "no manifest" /\ NoDraft.status = "no file"
    BY DEF Absent, NoDirectory, NoManifest, NoDraft
  <2>. QED
    BY <2>1, <2>2
<1>4. Idle \notin Call /\ \A c \in Call : c # Idle /\ c.at # "idle"
  <2>1. Idle.at = "idle" /\ \A c \in Call : c.at \in Steps
    BY DEF Idle, Call
  <2>2. "idle" \notin Steps
    BY DEF Steps
  <2>. QED
    BY <2>1, <2>2
<1>. QED
  BY <1>1, <1>2, <1>3, <1>4

(* The call of a process that is at a step other than "idle".              *)
LEMMA CallFacts ==
  ASSUME TypeOK, NEW u \in Users, call[u] # Idle
  PROVE  /\ call[u] \in Call /\ On(u) \in Entities
         /\ call[u].at \in Steps /\ call[u].result \in State
         /\ call[u].op \in {"create", "claim", "give back", "override"}
BY DEF TypeOK, Call, On

(* Starting, continuing and ending a call keeps the calls well formed and  *)
(* leaves every other process alone.                                       *)
LEMMA BeginFacts ==
  ASSUME TypeOK, NEW u \in Users, NEW op, NEW e \in Entities, NEW at \in Steps,
         NEW result \in State, op \in {"create", "claim", "give back", "override"},
         Begin(u, op, e, at, result)
  PROVE  /\ call' \in [Users -> Call \cup {Idle}]
         /\ call[u] = Idle
         /\ call'[u] # Idle /\ call'[u].at = at /\ call'[u].op = op /\ call'[u].entity = e
         /\ \A v \in Users \ {u} : call'[v] = call[v]
         /\ overlapped' \cup failed' \subseteq Entities
BY StateFacts DEF TypeOK, Begin, Call, Idle

LEMMA ProceedFacts ==
  ASSUME TypeOK, NEW u \in Users, call[u] # Idle, NEW at \in Steps, Proceed(u, at)
  PROVE  /\ call' \in [Users -> Call \cup {Idle}]
         /\ \A v \in Users \ {u} : call'[v] = call[v]
         /\ call'[u] # Idle /\ call'[u].at = at /\ call'[u].op = call[u].op
         /\ call'[u].entity = call[u].entity
         /\ overlapped' \cup failed' \subseteq Entities
<1>1. call[u] \in Call /\ On(u) \in Entities
  BY CallFacts
<1>2. [call[u] EXCEPT !.at = at] \in Call
  BY <1>1 DEF Call
<1>3. /\ [call[u] EXCEPT !.at = at] # Idle /\ [call[u] EXCEPT !.at = at].at = at
      /\ [call[u] EXCEPT !.at = at].op = call[u].op
      /\ [call[u] EXCEPT !.at = at].entity = call[u].entity
  BY <1>1, <1>2, StateFacts DEF Call
<1>. QED
  BY <1>1, <1>2, <1>3 DEF TypeOK, Proceed

LEMMA EndFacts ==
  ASSUME TypeOK, NEW u \in Users, call[u] # Idle, Return(u) \/ Raise(u)
  PROVE  /\ call' \in [Users -> Call \cup {Idle}]
         /\ \A v \in Users \ {u} : call'[v] = call[v]
         /\ call'[u] = Idle
         /\ overlapped' \cup failed' \subseteq Entities
<1>1. call[u] \in Call /\ On(u) \in Entities
  BY CallFacts
<1>. QED
  BY <1>1 DEF TypeOK, Return, Raise

(* Init and the steps: each keeps the invariant.  In each, the calls of    *)
(* the other processes stay sound: what they rely on is not disturbed.     *)
LEMMA InitInvariant == Init => IInv
BY StateFacts DEF Init, IInv, TypeOK, HeldIsClaimed, OneCreator, Creating, CallSound, Idle

LEMMA CreateEntityStep ==
  ASSUME IInv, NEW u \in Consumers, NEW e \in Entities, CreateEntity(u, e)
  PROVE  IInv'
<1>1. TypeOK /\ u \in Users /\ Free("available") \in State /\ "mkdir" \in Steps
  BY StateFacts DEF IInv, Users, Steps
<1>2. Begin(u, "create", e, "mkdir", Free("available"))
  BY DEF CreateEntity
<1>3. /\ call' \in [Users -> Call \cup {Idle}] /\ \A v \in Users \ {u} : call'[v] = call[v]
      /\ call[u] = Idle /\ call'[u] # Idle
      /\ call'[u].at = "mkdir" /\ call'[u].op = "create" /\ call'[u].entity = e
      /\ overlapped' \cup failed' \subseteq Entities
  BY <1>1, <1>2, BeginFacts
<1>4. TypeOK'
  BY <1>1, <1>3, StateFacts DEF TypeOK, CreateEntity
<1>5. HeldIsClaimed'
  BY <1>1, <1>3, StateFacts DEF TypeOK, CreateEntity, IInv, HeldIsClaimed
<1>6. ASSUME NEW v \in Users PROVE CallSound(v)'
  <2>1. CASE v = u
    BY <1>1, <1>3, <2>1, StateFacts DEF CallSound, ClaimSound, OverrideSound, CreationSound,
       On, CreateEntity, TypeOK
  <2>2. CASE v # u /\ call[v] = Idle
    BY <1>3, <2>2 DEF CallSound
  <2>3. CASE v # u /\ call[v] # Idle
    <3>1. call'[v] = call[v] /\ On(v) \in Entities /\ CallSound(v)
      BY <1>1, <1>3, <2>3, CallFacts DEF IInv
    <3>. QED
      BY <1>1, <2>3, <3>1, StateFacts DEF CallSound, ClaimSound, OverrideSound, CreationSound,
         On, CreateEntity, TypeOK
  <2>. QED
    BY <2>1, <2>2, <2>3
<1>7. OneCreator'
  <2>1. \A f \in Entities : index'[f] = index[f] \/ index[f] # Absent
    BY <1>1, StateFacts DEF TypeOK, CreateEntity
  <2>2. \A v \in Users : Creating(v)' => Creating(v) /\ On(v)' = On(v)
    BY <1>3 DEF Creating, On
  <2>. QED
    BY <2>1, <2>2 DEF IInv, OneCreator, CreateEntity
<1>. QED
  BY <1>4, <1>5, <1>6, <1>7 DEF IInv

LEMMA ClaimEntityStep ==
  ASSUME IInv, NEW u \in Consumers, NEW e \in Entities, ClaimEntity(u, e)
  PROVE  IInv'
<1>1. TypeOK /\ u \in Users /\ Claimed(u) \in State /\ "draft" \in Steps
  BY StateFacts DEF IInv, Users, Steps
<1>2. Begin(u, "claim", e, "draft", Claimed(u))
  BY DEF ClaimEntity
<1>3. /\ call' \in [Users -> Call \cup {Idle}] /\ \A v \in Users \ {u} : call'[v] = call[v]
      /\ call[u] = Idle /\ call'[u] # Idle
      /\ call'[u].at = "draft" /\ call'[u].op = "claim" /\ call'[u].entity = e
      /\ overlapped' \cup failed' \subseteq Entities
  BY <1>1, <1>2, BeginFacts
<1>4. TypeOK'
  BY <1>1, <1>3, StateFacts DEF TypeOK, ClaimEntity
<1>5. HeldIsClaimed'
  BY <1>1, <1>3, StateFacts DEF TypeOK, ClaimEntity, IInv, HeldIsClaimed
<1>6. ASSUME NEW v \in Users PROVE CallSound(v)'
  <2>1. CASE v = u
    BY <1>1, <1>3, <2>1, StateFacts DEF CallSound, ClaimSound, OverrideSound, CreationSound,
       On, ClaimEntity, TypeOK
  <2>2. CASE v # u /\ call[v] = Idle
    BY <1>3, <2>2 DEF CallSound
  <2>3. CASE v # u /\ call[v] # Idle
    <3>1. call'[v] = call[v] /\ On(v) \in Entities /\ CallSound(v)
      BY <1>1, <1>3, <2>3, CallFacts DEF IInv
    <3>. QED
      BY <1>1, <2>3, <3>1, StateFacts DEF CallSound, ClaimSound, OverrideSound, CreationSound,
         On, ClaimEntity, TypeOK
  <2>. QED
    BY <2>1, <2>2, <2>3
<1>7. OneCreator'
  <2>1. \A f \in Entities : index'[f] = index[f] \/ index[f] # Absent
    BY <1>1, StateFacts DEF TypeOK, ClaimEntity
  <2>2. \A v \in Users : Creating(v)' => Creating(v) /\ On(v)' = On(v)
    BY <1>3 DEF Creating, On
  <2>. QED
    BY <2>1, <2>2 DEF IInv, OneCreator, ClaimEntity
<1>. QED
  BY <1>4, <1>5, <1>6, <1>7 DEF IInv

LEMMA GiveBackStep ==
  ASSUME IInv, NEW u \in Consumers, NEW e \in Entities, NEW status \in {"available", "unavailable"},
         GiveBack(u, e, status)
  PROVE  IInv'
<1>1. TypeOK /\ u \in Users /\ Free(status) \in State /\ "draft" \in Steps
  BY StateFacts DEF IInv, Users, Steps
<1>2. Begin(u, "give back", e, "draft", Free(status))
  BY DEF GiveBack
<1>3. /\ call' \in [Users -> Call \cup {Idle}] /\ \A v \in Users \ {u} : call'[v] = call[v]
      /\ call[u] = Idle /\ call'[u] # Idle
      /\ call'[u].at = "draft" /\ call'[u].op = "give back" /\ call'[u].entity = e
      /\ overlapped' \cup failed' \subseteq Entities
  BY <1>1, <1>2, BeginFacts
<1>4. TypeOK'
  BY <1>1, <1>3, StateFacts DEF TypeOK, GiveBack
<1>5. HeldIsClaimed'
  BY <1>1, <1>3, StateFacts DEF TypeOK, GiveBack, IInv, HeldIsClaimed
<1>6. ASSUME NEW v \in Users PROVE CallSound(v)'
  <2>1. CASE v = u
    BY <1>1, <1>3, <2>1, StateFacts DEF CallSound, ClaimSound, OverrideSound, CreationSound,
       On, GiveBack, TypeOK
  <2>2. CASE v # u /\ call[v] = Idle
    BY <1>3, <2>2 DEF CallSound
  <2>3. CASE v # u /\ call[v] # Idle
    <3>1. call'[v] = call[v] /\ On(v) \in Entities /\ CallSound(v)
      BY <1>1, <1>3, <2>3, CallFacts DEF IInv
    <3>. QED
      BY <1>1, <2>3, <3>1, StateFacts DEF CallSound, ClaimSound, OverrideSound, CreationSound,
         On, GiveBack, TypeOK
  <2>. QED
    BY <2>1, <2>2, <2>3
<1>7. OneCreator'
  <2>1. \A f \in Entities : index'[f] = index[f] \/ index[f] # Absent
    BY <1>1, StateFacts DEF TypeOK, GiveBack
  <2>2. \A v \in Users : Creating(v)' => Creating(v) /\ On(v)' = On(v)
    BY <1>3 DEF Creating, On
  <2>. QED
    BY <2>1, <2>2 DEF IInv, OneCreator, GiveBack
<1>. QED
  BY <1>4, <1>5, <1>6, <1>7 DEF IInv

LEMMA SetAvailabilityStep ==
  ASSUME IInv, NEW u \in Admins, NEW e \in Entities, NEW status \in {"available", "unavailable"},
         SetAvailability(u, e, status)
  PROVE  IInv'
<1>1. TypeOK /\ u \in Users /\ Free(status) \in State /\ "draft" \in Steps
  BY StateFacts DEF IInv, Users, Steps
<1>2. Begin(u, "override", e, "draft", Free(status))
  BY DEF SetAvailability
<1>3. /\ call' \in [Users -> Call \cup {Idle}] /\ \A v \in Users \ {u} : call'[v] = call[v]
      /\ call[u] = Idle /\ call'[u] # Idle
      /\ call'[u].at = "draft" /\ call'[u].op = "override" /\ call'[u].entity = e
      /\ overlapped' \cup failed' \subseteq Entities
  BY <1>1, <1>2, BeginFacts
<1>4. TypeOK'
  BY <1>1, <1>3, StateFacts DEF TypeOK, SetAvailability
<1>5. HeldIsClaimed'
  BY <1>1, <1>3, StateFacts DEF TypeOK, SetAvailability, IInv, HeldIsClaimed
<1>6. ASSUME NEW v \in Users PROVE CallSound(v)'
  <2>1. CASE v = u
    BY <1>1, <1>3, <2>1, StateFacts DEF CallSound, ClaimSound, OverrideSound, CreationSound,
       On, SetAvailability, TypeOK
  <2>2. CASE v # u /\ call[v] = Idle
    BY <1>3, <2>2 DEF CallSound
  <2>3. CASE v # u /\ call[v] # Idle
    <3>1. call'[v] = call[v] /\ On(v) \in Entities /\ CallSound(v)
      BY <1>1, <1>3, <2>3, CallFacts DEF IInv
    <3>. QED
      BY <1>1, <2>3, <3>1, StateFacts DEF CallSound, ClaimSound, OverrideSound, CreationSound,
         On, SetAvailability, TypeOK
  <2>. QED
    BY <2>1, <2>2, <2>3
<1>7. OneCreator'
  <2>1. \A f \in Entities : index'[f] = index[f] \/ index[f] # Absent
    BY <1>1, StateFacts DEF TypeOK, SetAvailability
  <2>2. \A v \in Users : Creating(v)' => Creating(v) /\ On(v)' = On(v)
    BY <1>3 DEF Creating, On
  <2>. QED
    BY <2>1, <2>2 DEF IInv, OneCreator, SetAvailability
<1>. QED
  BY <1>4, <1>5, <1>6, <1>7 DEF IInv

LEMMA MakeDirectoryStep == ASSUME IInv, NEW u \in Users, MakeDirectory(u) PROVE IInv'
<1>1. TypeOK /\ call[u] # Idle /\ call[u].at = "mkdir" /\ CallSound(u)
  BY DEF IInv, MakeDirectory, At, Idle
<1>2. On(u) \in Entities /\ call[u].result \in State
  BY <1>1, CallFacts
<1>3. CASE manifest[On(u)] = NoDirectory
  <2>1. Proceed(u, "manifest")
    BY <1>3 DEF MakeDirectory
  <2>2. /\ call' \in [Users -> Call \cup {Idle}] /\ \A v \in Users \ {u} : call'[v] = call[v]
        /\ call'[u] # Idle /\ call'[u].at = "manifest" /\ call'[u].op = call[u].op
        /\ call'[u].entity = call[u].entity
        /\ overlapped' \cup failed' \subseteq Entities
    BY <1>1, <2>1, ProceedFacts DEF Steps
  <2>3. TypeOK' /\ HeldIsClaimed'
    BY <1>3, <1>1, <1>2, <2>2, StateFacts DEF TypeOK, MakeDirectory, IInv, HeldIsClaimed,
       CallSound, ClaimSound, OverrideSound, CreationSound, On
  <2>4. ASSUME NEW v \in Users PROVE CallSound(v)'
    <3>1. CASE v = u
      BY <1>3, <1>1, <1>2, <2>2, <3>1, StateFacts
      DEF CallSound, ClaimSound, OverrideSound, CreationSound, On, MakeDirectory, IInv, OneCreator, TypeOK
    <3>2. CASE v # u /\ call[v] = Idle
      BY <2>2, <3>2 DEF CallSound
    <3>3. CASE v # u /\ call[v] # Idle
      <4>1. call'[v] = call[v] /\ On(v) \in Entities /\ CallSound(v)
        BY <1>1, <2>2, <3>3, CallFacts DEF IInv
      <4>2. Creating(v) /\ Creating(u) => On(u) # On(v)
        BY <3>3 DEF IInv, OneCreator
      <4>. QED
        BY <1>3, <1>1, <1>2, <3>3, <4>1, <4>2, StateFacts
        DEF CallSound, ClaimSound, OverrideSound, CreationSound, On, Creating, MakeDirectory, TypeOK
    <3>. QED
      BY <3>1, <3>2, <3>3
  <2>5. OneCreator'
    BY <1>3, <1>1, <1>2, <2>2, StateFacts
    DEF IInv, OneCreator, Creating, CallSound, CreationSound, TypeOK, On, MakeDirectory
  <2>. QED
    BY <2>3, <2>4, <2>5 DEF IInv
<1>4. CASE manifest[On(u)] # NoDirectory
  <2>1. Raise(u)
    BY <1>4 DEF MakeDirectory
  <2>2. /\ call' \in [Users -> Call \cup {Idle}] /\ \A v \in Users \ {u} : call'[v] = call[v]
        /\ call'[u] = Idle
        /\ overlapped' \cup failed' \subseteq Entities
    BY <1>1, <2>1, EndFacts
  <2>3. TypeOK' /\ HeldIsClaimed'
    BY <1>4, <1>1, <1>2, <2>2, StateFacts DEF TypeOK, MakeDirectory, IInv, HeldIsClaimed,
       CallSound, ClaimSound, OverrideSound, CreationSound, On
  <2>4. ASSUME NEW v \in Users PROVE CallSound(v)'
    <3>1. CASE v = u
      BY <1>4, <1>1, <1>2, <2>2, <3>1, StateFacts
      DEF CallSound, ClaimSound, OverrideSound, CreationSound, On, MakeDirectory, IInv, OneCreator, TypeOK
    <3>2. CASE v # u /\ call[v] = Idle
      BY <2>2, <3>2 DEF CallSound
    <3>3. CASE v # u /\ call[v] # Idle
      <4>1. call'[v] = call[v] /\ On(v) \in Entities /\ CallSound(v)
        BY <1>1, <2>2, <3>3, CallFacts DEF IInv
      <4>2. Creating(v) /\ Creating(u) => On(u) # On(v)
        BY <3>3 DEF IInv, OneCreator
      <4>. QED
        BY <1>4, <1>1, <1>2, <3>3, <4>1, <4>2, StateFacts
        DEF CallSound, ClaimSound, OverrideSound, CreationSound, On, Creating, MakeDirectory, TypeOK
    <3>. QED
      BY <3>1, <3>2, <3>3
  <2>5. OneCreator'
    BY <1>4, <1>1, <1>2, <2>2, StateFacts
    DEF IInv, OneCreator, Creating, CallSound, CreationSound, TypeOK, On, MakeDirectory
  <2>. QED
    BY <2>3, <2>4, <2>5 DEF IInv
<1>. QED
  BY <1>3, <1>4

LEMMA WriteManifestStep == ASSUME IInv, NEW u \in Users, WriteManifest(u) PROVE IInv'
<1>1. TypeOK /\ call[u] # Idle /\ call[u].at = "manifest" /\ CallSound(u)
  BY DEF IInv, WriteManifest, At, Idle
<1>2. On(u) \in Entities /\ call[u].result \in State
  BY <1>1, CallFacts
<1>3. Proceed(u, "register")
  BY DEF WriteManifest
<1>4. /\ call' \in [Users -> Call \cup {Idle}] /\ \A v \in Users \ {u} : call'[v] = call[v]
      /\ call'[u] # Idle /\ call'[u].at = "register" /\ call'[u].op = call[u].op
      /\ call'[u].entity = call[u].entity
      /\ overlapped' \cup failed' \subseteq Entities
  BY <1>1, <1>3, ProceedFacts DEF Steps
<1>5. TypeOK' /\ HeldIsClaimed'
  BY <1>1, <1>2, <1>4, StateFacts DEF TypeOK, WriteManifest, IInv, HeldIsClaimed, CallSound,
     ClaimSound, OverrideSound, CreationSound, On
<1>6. ASSUME NEW v \in Users PROVE CallSound(v)'
  <2>1. CASE v = u
    BY <1>1, <1>2, <1>4, <2>1, StateFacts
    DEF CallSound, ClaimSound, OverrideSound, CreationSound, On, WriteManifest, IInv, OneCreator, TypeOK
  <2>2. CASE v # u /\ call[v] = Idle
    BY <1>4, <2>2 DEF CallSound
  <2>3. CASE v # u /\ call[v] # Idle
    <3>1. call'[v] = call[v] /\ On(v) \in Entities /\ CallSound(v)
      BY <1>1, <1>4, <2>3, CallFacts DEF IInv
    <3>2. Creating(v) /\ Creating(u) => On(u) # On(v)
      BY <2>3 DEF IInv, OneCreator
    <3>. QED
      BY <1>1, <1>2, <2>3, <3>1, <3>2, StateFacts
      DEF CallSound, ClaimSound, OverrideSound, CreationSound, On, Creating, WriteManifest, TypeOK
  <2>. QED
    BY <2>1, <2>2, <2>3
<1>7. OneCreator'
  BY <1>1, <1>2, <1>4, StateFacts
  DEF IInv, OneCreator, Creating, CallSound, CreationSound, TypeOK, On, WriteManifest
<1>. QED
  BY <1>5, <1>6, <1>7 DEF IInv

LEMMA RegisterEntityStep == ASSUME IInv, NEW u \in Users, RegisterEntity(u) PROVE IInv'
<1>1. TypeOK /\ call[u] # Idle /\ call[u].at = "register" /\ CallSound(u)
  BY DEF IInv, RegisterEntity, At, Idle
<1>2. On(u) \in Entities /\ call[u].result \in State
  BY <1>1, CallFacts
<1>3. Return(u)
  BY DEF RegisterEntity
<1>4. /\ call' \in [Users -> Call \cup {Idle}] /\ \A v \in Users \ {u} : call'[v] = call[v]
      /\ call'[u] = Idle
      /\ overlapped' \cup failed' \subseteq Entities
  BY <1>1, <1>3, EndFacts
<1>5. TypeOK' /\ HeldIsClaimed'
  BY <1>1, <1>2, <1>4, StateFacts DEF TypeOK, RegisterEntity, IInv, HeldIsClaimed, CallSound,
     ClaimSound, OverrideSound, CreationSound, On
<1>6. ASSUME NEW v \in Users PROVE CallSound(v)'
  <2>1. CASE v = u
    BY <1>1, <1>2, <1>4, <2>1, StateFacts
    DEF CallSound, ClaimSound, OverrideSound, CreationSound, On, RegisterEntity, IInv, OneCreator, TypeOK
  <2>2. CASE v # u /\ call[v] = Idle
    BY <1>4, <2>2 DEF CallSound
  <2>3. CASE v # u /\ call[v] # Idle
    <3>1. call'[v] = call[v] /\ On(v) \in Entities /\ CallSound(v)
      BY <1>1, <1>4, <2>3, CallFacts DEF IInv
    <3>2. Creating(v) /\ Creating(u) => On(u) # On(v)
      BY <2>3 DEF IInv, OneCreator
    <3>. QED
      BY <1>1, <1>2, <2>3, <3>1, <3>2, StateFacts
      DEF CallSound, ClaimSound, OverrideSound, CreationSound, On, Creating, RegisterEntity, TypeOK
  <2>. QED
    BY <2>1, <2>2, <2>3
<1>7. OneCreator'
  BY <1>1, <1>2, <1>4, StateFacts
  DEF IInv, OneCreator, Creating, CallSound, CreationSound, TypeOK, On, RegisterEntity
<1>. QED
  BY <1>5, <1>6, <1>7 DEF IInv

LEMMA WriteDraftStep == ASSUME IInv, NEW u \in Users, WriteDraft(u) PROVE IInv'
<1>1. TypeOK /\ call[u] # Idle /\ call[u].at = "draft" /\ CallSound(u)
  BY DEF IInv, WriteDraft, At, Idle
<1>2. On(u) \in Entities /\ call[u].result \in State
  BY <1>1, CallFacts
<1>3. Proceed(u, "replace")
  BY DEF WriteDraft
<1>4. /\ call' \in [Users -> Call \cup {Idle}] /\ \A v \in Users \ {u} : call'[v] = call[v]
      /\ call'[u] # Idle /\ call'[u].at = "replace" /\ call'[u].op = call[u].op
      /\ call'[u].entity = call[u].entity
      /\ overlapped' \cup failed' \subseteq Entities
  BY <1>1, <1>3, ProceedFacts DEF Steps
<1>5. TypeOK' /\ HeldIsClaimed'
  BY <1>1, <1>2, <1>4, StateFacts DEF TypeOK, WriteDraft, IInv, HeldIsClaimed, CallSound,
     ClaimSound, OverrideSound, CreationSound, On
<1>6. ASSUME NEW v \in Users PROVE CallSound(v)'
  <2>1. CASE v = u
    BY <1>1, <1>2, <1>4, <2>1, StateFacts
    DEF CallSound, ClaimSound, OverrideSound, CreationSound, On, WriteDraft, IInv, OneCreator, TypeOK
  <2>2. CASE v # u /\ call[v] = Idle
    BY <1>4, <2>2 DEF CallSound
  <2>3. CASE v # u /\ call[v] # Idle
    <3>1. call'[v] = call[v] /\ On(v) \in Entities /\ CallSound(v)
      BY <1>1, <1>4, <2>3, CallFacts DEF IInv
    <3>2. Creating(v) /\ Creating(u) => On(u) # On(v)
      BY <2>3 DEF IInv, OneCreator
    <3>. QED
      BY <1>1, <1>2, <2>3, <3>1, <3>2, StateFacts
      DEF CallSound, ClaimSound, OverrideSound, CreationSound, On, Creating, WriteDraft, TypeOK
  <2>. QED
    BY <2>1, <2>2, <2>3
<1>7. OneCreator'
  BY <1>1, <1>2, <1>4, StateFacts
  DEF IInv, OneCreator, Creating, CallSound, CreationSound, TypeOK, On, WriteDraft
<1>. QED
  BY <1>5, <1>6, <1>7 DEF IInv

LEMMA ReplaceManifestStep == ASSUME IInv, NEW u \in Users, ReplaceManifest(u) PROVE IInv'
<1>1. TypeOK /\ call[u] # Idle /\ call[u].at = "replace" /\ CallSound(u)
  BY DEF IInv, ReplaceManifest, At, Idle
<1>2. On(u) \in Entities /\ call[u].result \in State
  BY <1>1, CallFacts
<1>3. CASE draft[On(u)] = NoDraft
  <2>1. Raise(u)
    BY <1>3 DEF ReplaceManifest
  <2>2. /\ call' \in [Users -> Call \cup {Idle}] /\ \A v \in Users \ {u} : call'[v] = call[v]
        /\ call'[u] = Idle
        /\ overlapped' \cup failed' \subseteq Entities
    BY <1>1, <2>1, EndFacts
  <2>3. TypeOK' /\ HeldIsClaimed'
    BY <1>3, <1>1, <1>2, <2>2, StateFacts DEF TypeOK, ReplaceManifest, IInv, HeldIsClaimed,
       CallSound, ClaimSound, OverrideSound, CreationSound, On
  <2>4. ASSUME NEW v \in Users PROVE CallSound(v)'
    <3>1. CASE v = u
      BY <1>3, <1>1, <1>2, <2>2, <3>1, StateFacts
      DEF CallSound, ClaimSound, OverrideSound, CreationSound, On, ReplaceManifest, IInv, OneCreator, TypeOK
    <3>2. CASE v # u /\ call[v] = Idle
      BY <2>2, <3>2 DEF CallSound
    <3>3. CASE v # u /\ call[v] # Idle
      <4>1. call'[v] = call[v] /\ On(v) \in Entities /\ CallSound(v)
        BY <1>1, <2>2, <3>3, CallFacts DEF IInv
      <4>2. Creating(v) /\ Creating(u) => On(u) # On(v)
        BY <3>3 DEF IInv, OneCreator
      <4>. QED
        BY <1>3, <1>1, <1>2, <3>3, <4>1, <4>2, StateFacts
        DEF CallSound, ClaimSound, OverrideSound, CreationSound, On, Creating, ReplaceManifest, TypeOK
    <3>. QED
      BY <3>1, <3>2, <3>3
  <2>5. OneCreator'
    BY <1>3, <1>1, <1>2, <2>2, StateFacts
    DEF IInv, OneCreator, Creating, CallSound, CreationSound, TypeOK, On, ReplaceManifest
  <2>. QED
    BY <2>3, <2>4, <2>5 DEF IInv
<1>4. CASE draft[On(u)] # NoDraft /\ call[u].op = "override"
  <2>1. Proceed(u, "update")
    BY <1>4 DEF ReplaceManifest
  <2>2. /\ call' \in [Users -> Call \cup {Idle}] /\ \A v \in Users \ {u} : call'[v] = call[v]
        /\ call'[u] # Idle /\ call'[u].at = "update" /\ call'[u].op = call[u].op
        /\ call'[u].entity = call[u].entity
        /\ overlapped' \cup failed' \subseteq Entities
    BY <1>1, <2>1, ProceedFacts DEF Steps
  <2>3. TypeOK' /\ HeldIsClaimed'
    BY <1>4, <1>1, <1>2, <2>2, StateFacts DEF TypeOK, ReplaceManifest, IInv, HeldIsClaimed,
       CallSound, ClaimSound, OverrideSound, CreationSound, On
  <2>4. ASSUME NEW v \in Users PROVE CallSound(v)'
    <3>1. CASE v = u
      BY <1>4, <1>1, <1>2, <2>2, <3>1, StateFacts
      DEF CallSound, ClaimSound, OverrideSound, CreationSound, On, ReplaceManifest, IInv, OneCreator, TypeOK
    <3>2. CASE v # u /\ call[v] = Idle
      BY <2>2, <3>2 DEF CallSound
    <3>3. CASE v # u /\ call[v] # Idle
      <4>1. call'[v] = call[v] /\ On(v) \in Entities /\ CallSound(v)
        BY <1>1, <2>2, <3>3, CallFacts DEF IInv
      <4>2. Creating(v) /\ Creating(u) => On(u) # On(v)
        BY <3>3 DEF IInv, OneCreator
      <4>. QED
        BY <1>4, <1>1, <1>2, <3>3, <4>1, <4>2, StateFacts
        DEF CallSound, ClaimSound, OverrideSound, CreationSound, On, Creating, ReplaceManifest, TypeOK
    <3>. QED
      BY <3>1, <3>2, <3>3
  <2>5. OneCreator'
    BY <1>4, <1>1, <1>2, <2>2, StateFacts
    DEF IInv, OneCreator, Creating, CallSound, CreationSound, TypeOK, On, ReplaceManifest
  <2>. QED
    BY <2>3, <2>4, <2>5 DEF IInv
<1>5. CASE draft[On(u)] # NoDraft /\ call[u].op # "override"
  <2>1. Return(u)
    BY <1>5 DEF ReplaceManifest
  <2>2. /\ call' \in [Users -> Call \cup {Idle}] /\ \A v \in Users \ {u} : call'[v] = call[v]
        /\ call'[u] = Idle
        /\ overlapped' \cup failed' \subseteq Entities
    BY <1>1, <2>1, EndFacts
  <2>3. TypeOK' /\ HeldIsClaimed'
    BY <1>5, <1>1, <1>2, <2>2, StateFacts DEF TypeOK, ReplaceManifest, IInv, HeldIsClaimed,
       CallSound, ClaimSound, OverrideSound, CreationSound, On
  <2>4. ASSUME NEW v \in Users PROVE CallSound(v)'
    <3>1. CASE v = u
      BY <1>5, <1>1, <1>2, <2>2, <3>1, StateFacts
      DEF CallSound, ClaimSound, OverrideSound, CreationSound, On, ReplaceManifest, IInv, OneCreator, TypeOK
    <3>2. CASE v # u /\ call[v] = Idle
      BY <2>2, <3>2 DEF CallSound
    <3>3. CASE v # u /\ call[v] # Idle
      <4>1. call'[v] = call[v] /\ On(v) \in Entities /\ CallSound(v)
        BY <1>1, <2>2, <3>3, CallFacts DEF IInv
      <4>2. Creating(v) /\ Creating(u) => On(u) # On(v)
        BY <3>3 DEF IInv, OneCreator
      <4>. QED
        BY <1>5, <1>1, <1>2, <3>3, <4>1, <4>2, StateFacts
        DEF CallSound, ClaimSound, OverrideSound, CreationSound, On, Creating, ReplaceManifest, TypeOK
    <3>. QED
      BY <3>1, <3>2, <3>3
  <2>5. OneCreator'
    BY <1>5, <1>1, <1>2, <2>2, StateFacts
    DEF IInv, OneCreator, Creating, CallSound, CreationSound, TypeOK, On, ReplaceManifest
  <2>. QED
    BY <2>3, <2>4, <2>5 DEF IInv
<1>. QED
  BY <1>3, <1>4, <1>5

LEMMA UpdateIndexStep == ASSUME IInv, NEW u \in Users, UpdateIndex(u) PROVE IInv'
<1>1. TypeOK /\ call[u] # Idle /\ call[u].at = "update" /\ CallSound(u)
  BY DEF IInv, UpdateIndex, At, Idle
<1>2. On(u) \in Entities /\ call[u].result \in State
  BY <1>1, CallFacts
<1>3. Return(u)
  BY DEF UpdateIndex
<1>4. /\ call' \in [Users -> Call \cup {Idle}] /\ \A v \in Users \ {u} : call'[v] = call[v]
      /\ call'[u] = Idle
      /\ overlapped' \cup failed' \subseteq Entities
  BY <1>1, <1>3, EndFacts
<1>5. TypeOK' /\ HeldIsClaimed'
  BY <1>1, <1>2, <1>4, StateFacts DEF TypeOK, UpdateIndex, IInv, HeldIsClaimed, CallSound,
     ClaimSound, OverrideSound, CreationSound, On
<1>6. ASSUME NEW v \in Users PROVE CallSound(v)'
  <2>1. CASE v = u
    BY <1>1, <1>2, <1>4, <2>1, StateFacts
    DEF CallSound, ClaimSound, OverrideSound, CreationSound, On, UpdateIndex, IInv, OneCreator, TypeOK
  <2>2. CASE v # u /\ call[v] = Idle
    BY <1>4, <2>2 DEF CallSound
  <2>3. CASE v # u /\ call[v] # Idle
    <3>1. call'[v] = call[v] /\ On(v) \in Entities /\ CallSound(v)
      BY <1>1, <1>4, <2>3, CallFacts DEF IInv
    <3>2. Creating(v) /\ Creating(u) => On(u) # On(v)
      BY <2>3 DEF IInv, OneCreator
    <3>. QED
      BY <1>1, <1>2, <2>3, <3>1, <3>2, StateFacts
      DEF CallSound, ClaimSound, OverrideSound, CreationSound, On, Creating, UpdateIndex, TypeOK
  <2>. QED
    BY <2>1, <2>2, <2>3
<1>7. OneCreator'
  BY <1>1, <1>2, <1>4, StateFacts
  DEF IInv, OneCreator, Creating, CallSound, CreationSound, TypeOK, On, UpdateIndex
<1>. QED
  BY <1>5, <1>6, <1>7 DEF IInv

LEMMA CrashStep == ASSUME IInv, NEW u \in Users, Crash(u) PROVE IInv'
<1>1. /\ call' \in [Users -> Call \cup {Idle}] /\ \A v \in Users \ {u} : call'[v] = call[v]
      /\ call'[u] = Idle
      /\ overlapped' \cup failed' \subseteq Entities
  <2>1. CASE call[u] # Idle
    BY <2>1, EndFacts DEF IInv, Crash
  <2>2. CASE call[u] = Idle
    BY <2>2 DEF IInv, TypeOK, Crash
  <2>. QED
    BY <2>1, <2>2
<1>2. TypeOK' /\ HeldIsClaimed'
  BY <1>1 DEF TypeOK, IInv, HeldIsClaimed, Crash
<1>3. \A v \in Users : CallSound(v)'
  BY <1>1 DEF IInv, CallSound, ClaimSound, OverrideSound, CreationSound, On, Crash
<1>4. OneCreator'
  BY <1>1 DEF IInv, OneCreator, Creating, On, Crash
<1>. QED
  BY <1>2, <1>3, <1>4 DEF IInv

(* The inductive invariant: whoever is told that it holds an entity, the   *)
(* index says so, because every call in progress relies only on what no    *)
(* other call can change under it.                                         *)
THEOREM Invariance == Spec => []IInv
<1>1. IInv /\ [Next]_vars => IInv'
  <2> SUFFICES ASSUME IInv, [Next]_vars PROVE IInv'
    OBVIOUS
  <2>1. ASSUME NEW u \in Consumers, NEW e \in Entities, ConsumerCalls(u, e)
        PROVE  IInv'
    BY <2>1, CreateEntityStep, ClaimEntityStep, GiveBackStep DEF ConsumerCalls
  <2>2. ASSUME NEW u \in Admins, NEW e \in Entities, AdminCalls(u, e)
        PROVE  IInv'
    BY <2>2, SetAvailabilityStep DEF AdminCalls
  <2>3. ASSUME NEW u \in Users, Works(u)
        PROVE  IInv'
    BY <2>3, MakeDirectoryStep, WriteManifestStep, RegisterEntityStep, WriteDraftStep,
       ReplaceManifestStep, UpdateIndexStep DEF Works
  <2>4. ASSUME NEW u \in Users, Crash(u)
        PROVE  IInv'
    BY <2>4, CrashStep
  <2>5. CASE UNCHANGED vars
    BY <2>5 DEF vars, IInv, TypeOK, HeldIsClaimed, OneCreator, Creating, CallSound,
       ClaimSound, OverrideSound, CreationSound, On
  <2>. QED
    BY <2>1, <2>2, <2>3, <2>4, <2>5 DEF Next
<1>. QED
  BY InitInvariant, <1>1, PTL DEF Spec

(* A successful claim is exclusive: what a process holds stays claimed by  *)
(* it in the index until it gives it back, dies, or is overridden.         *)
THEOREM HoldersAreExclusive == Spec => []HeldIsClaimed
BY Invariance, PTL DEF IInv

(* Races of create_entity for one directory have one winner, and a         *)
(* registered entity always has its manifest.                              *)
THEOREM CreationIsExclusive == Spec => []OneCreator
BY Invariance, PTL DEF IInv

(* Rows, manifests and callers keep their types, whatever raises between   *)
(* two writes (entity_manager.py).                                         *)
THEOREM TypeCorrect == Spec => []TypeOK
BY Invariance, PTL DEF IInv

-----------------------------------------------------------------------------
(* Calls that take turns: the two records of an entity agree.              *)
LEMMA InitTurn == Init => TurnInv
BY DEF Init, TurnInv, Overlaps, StoresAgreeInTurn, TurnSound, Agree, Calling

(* A call begins: it overlaps the others on the entity, or finds the two   *)
(* records in agreement.                                                   *)
LEMMA BeginKeeps ==
  ASSUME IInv, TurnInv, NEW u \in Users, NEW e \in Entities, call[u] = Idle,
         \A v \in Users \ {u} : call'[v] = call[v],
         call'[u] # Idle, call'[u].entity = e,
         overlapped' = IF Calling(e) # {} THEN overlapped \cup {e} ELSE overlapped,
         failed' = failed,
         \A f \in Entities \ {e} : index'[f] = index[f],
         manifest' = manifest, draft' = draft,
         Calling(e) = {} /\ e \notin overlapped \cup failed => Progress(u)'
  PROVE  TurnInv'
<1>1. ASSUME NEW v \in Users, v # u, call[v] # Idle
      PROVE  On(v)' = On(v) /\ On(v) \in Entities /\ (On(v) = e => e \in overlapped')
  BY <1>1, CallFacts DEF IInv, On, Calling
<1>2. On(u)' = e /\ overlapped \subseteq overlapped'
  BY DEF On
<1>3. Overlaps'
  <2> SUFFICES ASSUME NEW v \in Users, NEW w \in Users, call'[v] # Idle, call'[w] # Idle,
                      On(v)' = On(w)', v # w
               PROVE  On(v)' \in overlapped'
    BY DEF Overlaps
  <2>1. CASE v # u /\ w # u
    BY <1>1, <1>2, <2>1 DEF TurnInv, Overlaps
  <2>2. CASE v = u \/ w = u
    BY <1>1, <1>2, <2>2
  <2>. QED
    BY <2>1, <2>2
<1>4. StoresAgreeInTurn'
  <2> SUFFICES ASSUME NEW f \in Entities, Calling(f)' = {}, f \notin overlapped' \cup failed'
               PROVE  Agree(f)'
    BY DEF StoresAgreeInTurn
  <2>1. f # e
    BY <1>2 DEF Calling
  <2>2. Calling(f) = {}
    BY <1>1 DEF Calling, On
  <2>3. Agree(f)
    BY <1>2, <2>2 DEF TurnInv, StoresAgreeInTurn
  <2>. QED
    BY <2>1, <2>3 DEF Agree
<1>5. ASSUME NEW v \in Users PROVE TurnSound(v)'
  <2>1. CASE v = u
    BY <1>2, <2>1 DEF TurnSound
  <2>2. CASE v # u /\ call[v] # Idle /\ On(v) # e
    <3>1. TurnSound(v) /\ call'[v] = call[v] /\ On(v)' = On(v) /\ On(v) \in Entities
      BY <1>1, <2>2 DEF TurnInv
    <3>2. index'[On(v)] = index[On(v)]
      BY <2>2, <3>1
    <3>. QED
      BY <1>2, <2>2, <3>1, <3>2 DEF TurnSound, Progress
  <2>3. CASE v # u /\ call[v] # Idle /\ On(v) = e
    BY <1>1, <2>3 DEF TurnSound
  <2>4. CASE v # u /\ call[v] = Idle
    BY <2>4 DEF TurnSound
  <2>. QED
    BY <2>1, <2>2, <2>3, <2>4
<1>. QED
  BY <1>3, <1>4, <1>5 DEF TurnInv

(* A call goes on, or ends: it touches its own entity only.                *)
LEMMA StepKeeps ==
  ASSUME IInv, TurnInv, NEW u \in Users, NEW e \in Entities, call[u] # Idle, On(u) = e,
         \A v \in Users \ {u} : call'[v] = call[v],
         call'[u] # Idle => call'[u].entity = e,
         overlapped' = overlapped, failed \subseteq failed',
         \A f \in Entities \ {e} :
           index'[f] = index[f] /\ manifest'[f] = manifest[f] /\ draft'[f] = draft[f],
         call'[u] = Idle /\ e \notin overlapped \cup failed' => Agree(e)',
         call'[u] # Idle /\ e \notin overlapped \cup failed => Progress(u)'
  PROVE  TurnInv'
<1>1. ASSUME NEW v \in Users, v # u, call[v] # Idle
      PROVE  On(v)' = On(v) /\ On(v) \in Entities /\ (On(v) = e => e \in overlapped)
  BY <1>1, CallFacts DEF IInv, On, TurnInv, Overlaps
<1>2. call'[u] # Idle => On(u)' = e
  BY DEF On
<1>3. Overlaps'
  BY <1>1, <1>2 DEF TurnInv, Overlaps
<1>4. StoresAgreeInTurn'
  <2> SUFFICES ASSUME NEW f \in Entities, Calling(f)' = {}, f \notin overlapped' \cup failed'
               PROVE  Agree(f)'
    BY DEF StoresAgreeInTurn
  <2>1. CASE f = e
    BY <1>2, <2>1 DEF Calling
  <2>2. CASE f # e
    <3>1. Calling(f) = {}
      BY <1>1, <2>2 DEF Calling, On
    <3>2. Agree(f)
      BY <3>1 DEF TurnInv, StoresAgreeInTurn
    <3>. QED
      BY <2>2, <3>2 DEF Agree
  <2>. QED
    BY <2>1, <2>2
<1>5. ASSUME NEW v \in Users PROVE TurnSound(v)'
  <2>1. CASE v = u
    BY <1>2, <2>1 DEF TurnSound
  <2>2. CASE v # u /\ call[v] # Idle /\ On(v) # e
    <3>1. TurnSound(v) /\ call'[v] = call[v] /\ On(v)' = On(v) /\ On(v) \in Entities
      BY <1>1, <2>2 DEF TurnInv
    <3>2. /\ index'[On(v)] = index[On(v)] /\ manifest'[On(v)] = manifest[On(v)]
          /\ draft'[On(v)] = draft[On(v)]
      BY <2>2, <3>1
    <3>. QED
      BY <2>2, <3>1, <3>2 DEF TurnSound, Progress
  <2>3. CASE v # u /\ call[v] # Idle /\ On(v) = e
    BY <1>1, <2>3 DEF TurnSound
  <2>4. CASE v # u /\ call[v] = Idle
    BY <2>4 DEF TurnSound
  <2>. QED
    BY <2>1, <2>2, <2>3, <2>4
<1>. QED
  BY <1>3, <1>4, <1>5 DEF TurnInv

-----------------------------------------------------------------------------
(* What a beginning call looks like.                                       *)
LEMMA Begins ==
  ASSUME TypeOK, NEW u \in Users, NEW op, NEW e \in Entities, NEW at, NEW result,
         at # "idle", Begin(u, op, e, at, result)
  PROVE  /\ call[u] = Idle
         /\ \A v \in Users \ {u} : call'[v] = call[v]
         /\ call'[u] # Idle /\ call'[u].entity = e
         /\ call'[u].at = at /\ call'[u].op = op /\ call'[u].result = result
         /\ overlapped' = IF Calling(e) # {} THEN overlapped \cup {e} ELSE overlapped
         /\ failed' = failed
<1> DEFINE c == [at |-> at, op |-> op, entity |-> e, result |-> result]
<1>1. call'[u] = c /\ \A v \in Users \ {u} : call'[v] = call[v]
  BY DEF Begin, TypeOK
<1>2. c.at = at /\ Idle.at = "idle"
  BY DEF Idle
<1>3. c # Idle
  BY <1>2
<1>. QED
  BY <1>1, <1>3 DEF Begin

LEMMA CreateEntityTurn ==
  ASSUME IInv, TurnInv, NEW u \in Consumers, NEW e \in Entities, CreateEntity(u, e)
  PROVE  TurnInv'
<1>1. TypeOK /\ u \in Users /\ Begin(u, "create", e, "mkdir", Free("available"))
  BY DEF IInv, Users, CreateEntity
<1>2. /\ call[u] = Idle /\ \A v \in Users \ {u} : call'[v] = call[v]
      /\ call'[u] # Idle /\ call'[u].entity = e /\ call'[u].at = "mkdir"
      /\ overlapped' = IF Calling(e) # {} THEN overlapped \cup {e} ELSE overlapped
      /\ failed' = failed
  BY <1>1, Begins
<1>3. Calling(e) = {} /\ e \notin overlapped \cup failed => Progress(u)'
  <2>1. Absent # NoManifest /\ Absent \notin State
    <3>1. Absent.status # NoManifest.status
      BY DEF Absent, NoManifest
    <3>. QED
      BY <3>1, StateFacts
  <2>2. manifest[e] \in State \cup {NoDirectory, NoManifest}
    BY <1>1 DEF TypeOK
  <2>3. Agree(e) /\ index[e] = Absent => manifest[e] = NoDirectory
    BY <2>1, <2>2 DEF Agree
  <2>. QED
    BY <1>2, <2>3 DEF Progress, On, CreateEntity, TurnInv, StoresAgreeInTurn
<1>. QED
  BY <1>1, <1>2, <1>3, BeginKeeps DEF CreateEntity

LEMMA ClaimEntityTurn ==
  ASSUME IInv, TurnInv, NEW u \in Consumers, NEW e \in Entities, ClaimEntity(u, e)
  PROVE  TurnInv'
<1>1. TypeOK /\ u \in Users /\ Begin(u, "claim", e, "draft", Claimed(u))
  BY DEF IInv, Users, ClaimEntity
<1>2. /\ call[u] = Idle /\ \A v \in Users \ {u} : call'[v] = call[v]
      /\ call'[u] # Idle /\ call'[u].entity = e
      /\ call'[u].at = "draft" /\ call'[u].result = Claimed(u)
      /\ overlapped' = IF Calling(e) # {} THEN overlapped \cup {e} ELSE overlapped
      /\ failed' = failed
  BY <1>1, Begins
<1>3. index'[e] = Claimed(u) /\ \A f \in Entities \ {e} : index'[f] = index[f]
  BY <1>1 DEF ClaimEntity, TypeOK
<1>4. Progress(u)'
  BY <1>2, <1>3 DEF Progress, On
<1>. QED
  BY <1>1, <1>2, <1>3, <1>4, BeginKeeps DEF ClaimEntity

LEMMA GiveBackTurn ==
  ASSUME IInv, TurnInv, NEW u \in Consumers, NEW e \in Entities, NEW s, GiveBack(u, e, s)
  PROVE  TurnInv'
<1>1. TypeOK /\ u \in Users /\ Begin(u, "give back", e, "draft", Free(s))
  BY DEF IInv, Users, GiveBack
<1>2. /\ call[u] = Idle /\ \A v \in Users \ {u} : call'[v] = call[v]
      /\ call'[u] # Idle /\ call'[u].entity = e
      /\ call'[u].at = "draft" /\ call'[u].result = Free(s)
      /\ overlapped' = IF Calling(e) # {} THEN overlapped \cup {e} ELSE overlapped
      /\ failed' = failed
  BY <1>1, Begins
<1>3. index'[e] = Free(s) /\ \A f \in Entities \ {e} : index'[f] = index[f]
  BY <1>1 DEF GiveBack, TypeOK
<1>4. Progress(u)'
  BY <1>2, <1>3 DEF Progress, On
<1>. QED
  BY <1>1, <1>2, <1>3, <1>4, BeginKeeps DEF GiveBack

LEMMA SetAvailabilityTurn ==
  ASSUME IInv, TurnInv, NEW u \in Admins, NEW e \in Entities, NEW s,
         SetAvailability(u, e, s)
  PROVE  TurnInv'
<1>1. TypeOK /\ u \in Users /\ Begin(u, "override", e, "draft", Free(s))
  BY DEF IInv, Users, SetAvailability
<1>2. /\ call[u] = Idle /\ \A v \in Users \ {u} : call'[v] = call[v]
      /\ call'[u] # Idle /\ call'[u].entity = e
      /\ call'[u].at = "draft" /\ call'[u].op = "override"
      /\ overlapped' = IF Calling(e) # {} THEN overlapped \cup {e} ELSE overlapped
      /\ failed' = failed
  BY <1>1, Begins
<1>3. Progress(u)'
  BY <1>2 DEF Progress
<1>. QED
  BY <1>1, <1>2, <1>3, BeginKeeps DEF SetAvailability

-----------------------------------------------------------------------------
(* A call that goes on keeps everything but its step; one that returns     *)
(* leaves the marks alone, one that raises marks its entity.               *)
LEMMA Proceeds ==
  ASSUME TypeOK, NEW u \in Users, NEW at, at # "idle", call[u] # Idle, Proceed(u, at)
  PROVE  /\ \A v \in Users \ {u} : call'[v] = call[v]
         /\ call'[u] # Idle /\ call'[u].entity = call[u].entity
         /\ call'[u].at = at /\ call'[u].op = call[u].op
         /\ call'[u].result = call[u].result
         /\ overlapped' = overlapped /\ failed' = failed
<1>1. call'[u] = [call[u] EXCEPT !.at = at] /\ \A v \in Users \ {u} : call'[v] = call[v]
  BY DEF Proceed, TypeOK
<1>2. call[u] \in Call
  BY CallFacts
<1>3. [call[u] EXCEPT !.at = at].at = at /\ Idle.at = "idle"
  BY <1>2 DEF Idle, Call
<1>4. [call[u] EXCEPT !.at = at] # Idle
  BY <1>3
<1>5. /\ [call[u] EXCEPT !.at = at].entity = call[u].entity
      /\ [call[u] EXCEPT !.at = at].op = call[u].op
      /\ [call[u] EXCEPT !.at = at].result = call[u].result
  BY <1>2 DEF Call
<1>6. overlapped' = overlapped /\ failed' = failed
  BY DEF Proceed
<1>. QED
  BY <1>1, <1>3, <1>4, <1>5, <1>6

LEMMA Returns ==
  ASSUME TypeOK, NEW u \in Users, Return(u)
  PROVE  /\ call'[u] = Idle /\ \A v \in Users \ {u} : call'[v] = call[v]
         /\ overlapped' = overlapped /\ failed' = failed
BY DEF TypeOK, Return

(* A call that raises leaves every entity but its own as it was.           *)
LEMMA RaiseTurn ==
  ASSUME IInv, TurnInv, NEW u \in Users, call[u] # Idle, Raise(u),
         index' = index, manifest' = manifest, draft' = draft
  PROVE  TurnInv'
<1>1. PICK e \in Entities : e = On(u)
  BY CallFacts DEF IInv
<1>2. /\ call'[u] = Idle /\ \A v \in Users \ {u} : call'[v] = call[v]
      /\ overlapped' = overlapped /\ failed' = failed \cup {e}
  BY <1>1 DEF IInv, TypeOK, Raise
<1>. QED
  BY <1>1, <1>2, StepKeeps

LEMMA MakeDirectoryTurn ==
  ASSUME IInv, TurnInv, NEW u \in Users, MakeDirectory(u) PROVE TurnInv'
<1>1. TypeOK /\ call[u] # Idle /\ call[u].at = "mkdir"
  BY DEF IInv, MakeDirectory, At, Idle
<1>2. PICK e \in Entities : e = On(u)
  BY <1>1, CallFacts
<1>3. CASE manifest[e] = NoDirectory
  <2>1. /\ Proceed(u, "manifest") /\ index' = index /\ draft' = draft
        /\ \A f \in Entities \ {e} : manifest'[f] = manifest[f]
    BY <1>1, <1>2, <1>3 DEF MakeDirectory, TypeOK
  <2>2. /\ \A v \in Users \ {u} : call'[v] = call[v]
        /\ call'[u] # Idle /\ call'[u].entity = e /\ call'[u].at = "manifest"
        /\ overlapped' = overlapped /\ failed' = failed
    BY <1>1, <1>2, <2>1, Proceeds DEF On
  <2>3. Progress(u)'
    BY <2>2 DEF Progress
  <2>. QED
    BY <1>1, <1>2, <2>1, <2>2, <2>3, StepKeeps
<1>4. CASE manifest[e] # NoDirectory
  BY <1>1, <1>2, <1>4, RaiseTurn DEF MakeDirectory
<1>. QED
  BY <1>3, <1>4

LEMMA WriteManifestTurn ==
  ASSUME IInv, TurnInv, NEW u \in Users, WriteManifest(u) PROVE TurnInv'
<1>1. TypeOK /\ call[u] # Idle /\ call[u].at = "manifest"
  BY DEF IInv, WriteManifest, At, Idle
<1>2. PICK e \in Entities : e = On(u)
  BY <1>1, CallFacts
<1>3. /\ index' = index /\ draft' = draft /\ manifest'[e] = call[u].result
      /\ \A f \in Entities \ {e} : manifest'[f] = manifest[f]
  BY <1>1, <1>2 DEF WriteManifest, TypeOK
<1>4. /\ \A v \in Users \ {u} : call'[v] = call[v]
      /\ call'[u] # Idle /\ call'[u].entity = e /\ call'[u].at = "register"
      /\ call'[u].result = call[u].result
      /\ overlapped' = overlapped /\ failed' = failed
  BY <1>1, <1>2, Proceeds DEF On, WriteManifest
<1>5. Progress(u)'
  BY <1>3, <1>4 DEF Progress, On
<1>. QED
  BY <1>1, <1>2, <1>3, <1>4, <1>5, StepKeeps

LEMMA RegisterEntityTurn ==
  ASSUME IInv, TurnInv, NEW u \in Users, RegisterEntity(u) PROVE TurnInv'
<1>1. TypeOK /\ call[u] # Idle /\ call[u].at = "register"
  BY DEF IInv, RegisterEntity, At, Idle
<1>2. PICK e \in Entities : e = On(u)
  BY <1>1, CallFacts
<1>3. /\ manifest' = manifest /\ draft' = draft /\ index'[e] = call[u].result
      /\ \A f \in Entities \ {e} : index'[f] = index[f]
  BY <1>1, <1>2 DEF RegisterEntity, TypeOK
<1>4. /\ call'[u] = Idle /\ \A v \in Users \ {u} : call'[v] = call[v]
      /\ overlapped' = overlapped /\ failed' = failed
  BY <1>1, Returns DEF RegisterEntity
<1>5. e \notin overlapped \cup failed => Agree(e)'
  BY <1>1, <1>2, <1>3 DEF TurnInv, TurnSound, Progress, Agree
<1>. QED
  BY <1>1, <1>2, <1>3, <1>4, <1>5, StepKeeps

LEMMA WriteDraftTurn ==
  ASSUME IInv, TurnInv, NEW u \in Users, WriteDraft(u) PROVE TurnInv'
<1>1. TypeOK /\ call[u] # Idle /\ call[u].at = "draft"
  BY DEF IInv, WriteDraft, At, Idle
<1>2. PICK e \in Entities : e = On(u)
  BY <1>1, CallFacts
<1>3. /\ index' = index /\ manifest' = manifest /\ draft'[e] = call[u].result
      /\ \A f \in Entities \ {e} : draft'[f] = draft[f]
  BY <1>1, <1>2 DEF WriteDraft, TypeOK
<1>4. /\ \A v \in Users \ {u} : call'[v] = call[v]
      /\ call'[u] # Idle /\ call'[u].entity = e /\ call'[u].at = "replace"
      /\ call'[u].op = call[u].op /\ call'[u].result = call[u].result
      /\ overlapped' = overlapped /\ failed' = failed
  BY <1>1, <1>2, Proceeds DEF On, WriteDraft
<1>5. e \notin overlapped \cup failed => Progress(u)'
  <2> SUFFICES ASSUME e \notin overlapped \cup failed PROVE Progress(u)'
    OBVIOUS
  <2>1. call[u].op # "override" => index[e] = call[u].result
    BY <1>1, <1>2 DEF TurnInv, TurnSound, Progress
  <2>. QED
    BY <1>3, <1>4, <2>1 DEF Progress, On
<1>. QED
  BY <1>1, <1>2, <1>3, <1>4, <1>5, StepKeeps

LEMMA ReplaceManifestTurn ==
  ASSUME IInv, TurnInv, NEW u \in Users, ReplaceManifest(u) PROVE TurnInv'
<1>1. TypeOK /\ call[u] # Idle /\ call[u].at = "replace"
  BY DEF IInv, ReplaceManifest, At, Idle
<1>2. PICK e \in Entities : e = On(u)
  BY <1>1, CallFacts
<1>3. CASE draft[e] = NoDraft
  BY <1>1, <1>2, <1>3, RaiseTurn DEF ReplaceManifest
<1>4. CASE draft[e] # NoDraft
  <2>1. /\ index' = index /\ manifest'[e] = draft[e]
        /\ \A f \in Entities \ {e} : manifest'[f] = manifest[f] /\ draft'[f] = draft[f]
    BY <1>1, <1>2, <1>4 DEF ReplaceManifest, TypeOK
  <2>2. e \notin overlapped \cup failed =>
          draft[e] = call[u].result /\ (call[u].op # "override" => index[e] = call[u].result)
    BY <1>1, <1>2 DEF TurnInv, TurnSound, Progress
  <2>3. CASE call[u].op = "override"
    <3>1. Proceed(u, "update")
      BY <1>2, <1>4, <2>3 DEF ReplaceManifest
    <3>2. /\ \A v \in Users \ {u} : call'[v] = call[v]
          /\ call'[u] # Idle /\ call'[u].entity = e /\ call'[u].at = "update"
          /\ call'[u].result = call[u].result
          /\ overlapped' = overlapped /\ failed' = failed
      BY <1>1, <1>2, <3>1, Proceeds DEF On
    <3>3. e \notin overlapped \cup failed => Progress(u)'
      BY <2>1, <2>2, <3>2 DEF Progress, On
    <3>. QED
      BY <1>1, <1>2, <2>1, <3>2, <3>3, StepKeeps
  <2>4. CASE call[u].op # "override"
    <3>1. Return(u)
      BY <1>2, <1>4, <2>4 DEF ReplaceManifest
    <3>2. /\ call'[u] = Idle /\ \A v \in Users \ {u} : call'[v] = call[v]
          /\ overlapped' = overlapped /\ failed' = failed
      BY <1>1, <3>1, Returns
    <3>3. e \notin overlapped \cup failed => Agree(e)'
      BY <2>1, <2>2, <2>4 DEF Agree
    <3>. QED
      BY <1>1, <1>2, <2>1, <3>2, <3>3, StepKeeps
  <2>. QED
    BY <2>3, <2>4
<1>. QED
  BY <1>3, <1>4

LEMMA UpdateIndexTurn ==
  ASSUME IInv, TurnInv, NEW u \in Users, UpdateIndex(u) PROVE TurnInv'
<1>1. TypeOK /\ call[u] # Idle /\ call[u].at = "update"
  BY DEF IInv, UpdateIndex, At, Idle
<1>2. PICK e \in Entities : e = On(u)
  BY <1>1, CallFacts
<1>3. /\ manifest' = manifest /\ draft' = draft /\ index'[e] = call[u].result
      /\ \A f \in Entities \ {e} : index'[f] = index[f]
  BY <1>1, <1>2 DEF UpdateIndex, TypeOK
<1>4. /\ call'[u] = Idle /\ \A v \in Users \ {u} : call'[v] = call[v]
      /\ overlapped' = overlapped /\ failed' = failed
  BY <1>1, Returns DEF UpdateIndex
<1>5. e \notin overlapped \cup failed => Agree(e)'
  BY <1>1, <1>2, <1>3 DEF TurnInv, TurnSound, Progress, Agree
<1>. QED
  BY <1>1, <1>2, <1>3, <1>4, <1>5, StepKeeps

LEMMA StandStill ==
  ASSUME TurnInv, UNCHANGED <<index, manifest, draft, call, overlapped, failed>>
  PROVE  TurnInv'
BY DEF TurnInv, Overlaps, StoresAgreeInTurn, TurnSound, Progress, Agree, Calling, On

LEMMA CrashTurn ==
  ASSUME IInv, TurnInv, NEW u \in Users, Crash(u) PROVE TurnInv'
<1>1. CASE call[u] # Idle
  BY <1>1, RaiseTurn DEF Crash
<1>2. CASE call[u] = Idle
  BY <1>2, StandStill DEF Crash
<1>. QED
  BY <1>1, <1>2

(* Two calls that take turns on an entity, and do not fail, leave its row  *)
(* in entities.db and its entity.json saying the same (claim_entity,       *)
(* release_entity, mark_unavailable, set_availability, create_entity).     *)
THEOREM TurnsAgree == Spec => []StoresAgreeInTurn
<1>1. IInv /\ TurnInv /\ [Next]_vars => TurnInv'
  <2> SUFFICES ASSUME IInv, TurnInv, [Next]_vars PROVE TurnInv'
    OBVIOUS
  <2>1. ASSUME NEW u \in Consumers, NEW e \in Entities, ConsumerCalls(u, e)
        PROVE  TurnInv'
    BY <2>1, CreateEntityTurn, ClaimEntityTurn, GiveBackTurn DEF ConsumerCalls
  <2>2. ASSUME NEW u \in Admins, NEW e \in Entities, AdminCalls(u, e)
        PROVE  TurnInv'
    BY <2>2, SetAvailabilityTurn DEF AdminCalls
  <2>3. ASSUME NEW u \in Users, Works(u)
        PROVE  TurnInv'
    BY <2>3, MakeDirectoryTurn, WriteManifestTurn, RegisterEntityTurn, WriteDraftTurn,
       ReplaceManifestTurn, UpdateIndexTurn DEF Works
  <2>4. ASSUME NEW u \in Users, Crash(u)
        PROVE  TurnInv'
    BY <2>4, CrashTurn
  <2>5. CASE UNCHANGED vars
    BY <2>5, StandStill DEF vars
  <2>. QED
    BY <2>1, <2>2, <2>3, <2>4, <2>5 DEF Next
<1>2. TurnInv => StoresAgreeInTurn
  BY DEF TurnInv
<1>. QED
  BY InitTurn, Invariance, <1>1, <1>2, PTL DEF Spec
=============================================================================
