------------------------ MODULE WorkspaceFilesProofs ------------------------
(***************************************************************************)
(* Theorems of WorkspaceFiles, for any sensing processes, names, entries,  *)
(* clients and versions of a file: what a pointer names can be opened, new *)
(* entries are kept apart, and copies are whole.                           *)
(***************************************************************************)
EXTENDS WorkspaceFiles, WellFoundedInduction, SequenceTheorems, TLAPS

(* The places of a process by what it has already done: finished its       *)
(* workspace, taken its domain into management.                            *)
Opened == {"look", "unlink", "link", "text", "text fill", "recent", "remember", "domain"}
InDomain == {"entries", "pick", "working"} \cup Allocating
Filled == Opened \cup InDomain \cup {"domain manifest"}
Process == [at : {"off", "workspace"} \cup Creating \cup Filled, ws : Names \cup {Absent},
            entry : Entry \cup {NoEntry}, seen : SUBSET Entry, fresh : BOOLEAN]

DiskOK ==
  /\ workspace \in [Names -> {"none", "bare", "blank", "whole"}]
  /\ domain \in [Names -> {"none", "bare", "managed"}]
  /\ entries \in [Names -> [Entry -> {"none", "bare", "managed"}]]
  /\ saved \in [Names -> SUBSET Entry]
  /\ latest \in [kind : {"none", "link", "text"}, to : Names \cup {Absent, Blank}]

(* What a process has done is still there, in its workspace unless another *)
(* process created it too, and in its domain and entry in any case.        *)
Fits(p) ==
  /\ p.at \notin {"off", "workspace"} => p.ws \in Names
  /\ p.ws \in Names \ contested =>
       /\ p.at = "create" => workspace[p.ws] = "none"
       /\ p.at = "manifest" => workspace[p.ws] = "bare"
       /\ p.at = "fill" => workspace[p.ws] = "blank"
       /\ p.at \in Filled => workspace[p.ws] = "whole"
  /\ p.at \in InDomain => domain[p.ws] = "managed"
  /\ p.at = "pick" => p.seen \subseteq Managed(p.ws)
  /\ p.at = "working" => p.entry \in Managed(p.ws)
  /\ p.at \in Allocating => p.entry \in Entry
  /\ p.fresh => p.at = "working"

(* Two processes that create one workspace, or have taken one new entry,   *)
(* have been marked.                                                       *)
New(p) == p.at \in Allocating \/ p.fresh
Apart(p, q) ==
  /\ p.at \in Creating /\ q.at \in Creating /\ p.ws = q.ws => p.ws \in contested
  /\ New(p) /\ New(q) /\ p.ws = q.ws /\ p.entry = q.entry => <<p.ws, p.entry>> \in shared

(* Of what is saved and named, unless contested, the manifest is whole.    *)
NamedIsWhole ==
  \A n \in Names \ contested :
    /\ n \in {recent, latest.to} => workspace[n] = "whole"
    /\ saved[n] # {} => workspace[n] = "whole" /\ domain[n] = "managed" /\ Managed(n) # {}

WorkspaceInv ==
  /\ session \in [Sessions -> Process] /\ DiskOK
  /\ \A s \in Sessions : Fits(session[s])
  /\ \A s, t \in Sessions : s # t => Apart(session[s], session[t])
  /\ NamedIsWhole

(* A file that is there has bytes: those of a version, or of a beginning   *)
(* of one if it was cut, or any if it was garbled.                         *)
Bytes == (Versions \cup {NoFile}) \X Nat
Begins(p, v) == v \in Seq(Bytes) /\ Len(p) <= Len(v) /\ \A i \in 1 .. Len(p) : p[i] = v[i]
PartOf(p, wasCut) == \E v \in Whole : Begins(p, v) /\ (wasCut \/ Len(p) = Len(v))
Good(h) == /\ file[h] \in Seq(Bytes) /\ Len(file[h]) > 0
           /\ h \in garbled \/ PartOf(file[h], h \in cut)

Conversation == [at : {"idle", "asked", "receive", "open", "await", "gone"},
                 kind : {"download", "upload"}, expects : Nat, wire : Seq(Bytes),
                 closed : BOOLEAN, cut : BOOLEAN, garbled : BOOLEAN]
ServerPlaces == {Accepting} \cup [at : {"open", "receive"}, peer : Clients]

(* What has arrived and what is under way make up a beginning of a         *)
(* version, which has the announced size unless the file was replaced.     *)
MakesUp(p, w, n, wasCut) ==
  \E v \in Whole : /\ v \in Seq(Bytes) /\ Len(p) + Len(w) <= Len(v) /\ (wasCut \/ Len(v) = n)
                   /\ \A i \in 1 .. Len(p) : p[i] = v[i]
                   /\ \A i \in 1 .. Len(w) : w[i] = v[Len(p) + i]
Arrives(p, q) ==
  /\ p \in Seq(Bytes) /\ q.expects > 0
  /\ (p = <<>> /\ q.wire = <<>>) \/ q.garbled \/ MakesUp(p, q.wire, q.expects, q.cut)

(* Of a conversation: who has the attention of the server, that nothing is *)
(* there before the file is opened, and that who will send has a file.     *)
Talks(c, q) ==
  /\ q.at = "receive" =>
       /\ q.kind = "download" /\ Arrives(partial[c], q)
       /\ server = [at |-> "open", peer |-> c] => ~q.closed
       /\ ~q.closed => partial[c] = <<>> /\ q.wire = <<>>
  /\ q.at \in {"open", "await", "gone"} <=> server = [at |-> "receive", peer |-> c]
  /\ q.at \in {"open", "await", "gone"} => q.kind = "upload" /\ Arrives(partial[Server], q)
  /\ q.at = "open" => partial[Server] = <<>>
  /\ q.at \in {"idle", "asked", "open"} => q.wire = <<>> /\ ~q.closed
  /\ q.at = "idle" => q.kind = "download"
  /\ q.at \in {"asked", "open"} /\ q.kind = "upload" => Good(c) /\ q.expects > 0

TransferInv ==
  /\ file = [h \in Holders |-> file[h]] /\ partial = [h \in Holders |-> partial[h]]
  /\ \A h \in Holders : file[h] = NoFile \/ Good(h)
  /\ conv \in [Clients -> Conversation] /\ server \in ServerPlaces
  /\ server.at = "open" => Good(Server)
  /\ \A c \in Clients : Talks(c, conv[c])

-----------------------------------------------------------------------------
(* The workspaces.  A step moves one process, to r; what the others rely   *)
(* on stays.                                                               *)
DiskGrows ==
  /\ contested \subseteq contested' /\ shared \subseteq shared'
  /\ \A n \in Names : /\ domain[n] = "managed" => domain'[n] = "managed"
                      /\ Managed(n) \subseteq Managed(n)'

(* Only a workspace in creation is written, a pointer is set to a finished *)
(* one, and an entity saved where a session works.                         *)
OwnWrites(p) ==
  \A n \in Names \ contested' :
    /\ workspace'[n] = workspace[n] \/ (p.ws = n /\ p.at \in Creating)
    /\ n \in {recent', latest'.to} => n \in {recent, latest.to} \/ (p.ws = n /\ p.at \in Filled)
    /\ saved'[n] # {} => saved[n] # {} \/ (p.ws = n /\ p.at = "working")

Moves(s, r) ==
  /\ session' = [session EXCEPT ![s] = r]
  /\ DiskOK' /\ DiskGrows /\ OwnWrites(session[s])
  /\ Fits(r)'
  /\ \A t \in Sessions \ {s} : Apart(r, session[t])'

LEMMA MoveKeeps ==
  ASSUME WorkspaceInv, NEW s \in Sessions, NEW r \in Process, Moves(s, r)
  PROVE  WorkspaceInv'
<1> USE DEF WorkspaceInv, Moves
<1>1. session' \in [Sessions -> Process]
  OBVIOUS
<1>2. /\ session'[s] = r
      /\ \A t \in Sessions \ {s} : session'[t] = session[t]
  OBVIOUS
<1>3. ASSUME NEW t \in Sessions \ {s} PROVE Fits(session[t])'
  <2>1. PICK p \in Process, q \in Process :
          /\ p = session[t] /\ q = session[s] /\ session'[t] = p
          /\ Fits(p) /\ Fits(q) /\ Apart(p, q)
    BY <1>2
  <2>2. p.ws \in Names \ contested' /\ p.at \in Creating \cup Filled
          => workspace'[p.ws] = workspace[p.ws]
    BY <2>1 DEF OwnWrites, DiskGrows, Fits, Apart, Process, Creating
  <2>3. /\ p.at \notin {"off", "workspace"} => p.ws \in Names
        /\ p.ws \in Names \ contested' =>
             /\ p.at = "create" => workspace'[p.ws] = "none"
             /\ p.at = "manifest" => workspace'[p.ws] = "bare"
             /\ p.at = "fill" => workspace'[p.ws] = "blank"
             /\ p.at \in Filled => workspace'[p.ws] = "whole"
    BY <2>1, <2>2 DEF DiskGrows, Fits, Creating
  <2>4. /\ p.at \in InDomain => domain'[p.ws] = "managed"
        /\ p.at = "pick" => p.seen \subseteq Managed(p.ws)'
        /\ p.at = "working" => p.entry \in Managed(p.ws)'
        /\ p.at \in Allocating => p.entry \in Entry
        /\ p.fresh => p.at = "working"
    BY <2>1 DEF DiskGrows, Fits, InDomain, Allocating
  <2>. QED
    BY <2>1, <2>3, <2>4 DEF Fits, Managed
<1>4. \A t \in Sessions : Fits(session[t])'
  BY <1>2, <1>3 DEF Fits, Managed
<1>5. ASSUME NEW t \in Sessions, NEW u \in Sessions, t # u
      PROVE  Apart(session[t], session[u])'
  <2>1. CASE t # s /\ u # s
    <3>1. /\ Apart(session[t], session[u])
          /\ session'[t] = session[t] /\ session'[u] = session[u]
      BY <1>2, <1>5, <2>1
    <3>. QED
      BY <3>1 DEF Apart, DiskGrows
  <2>2. CASE t = s
    <3>1. Apart(r, session[u])' /\ session'[t] = r
      BY <1>2, <1>5, <2>2
    <3>. QED
      BY <3>1 DEF Apart
  <2>3. CASE u = s
    <3>1. Apart(r, session[t])' /\ session'[u] = r
      BY <1>2, <1>5, <2>3
    <3>. QED
      BY <3>1 DEF Apart
  <2>. QED
    BY <2>1, <2>2, <2>3
<1>6. NamedIsWhole'
  <2> SUFFICES ASSUME NEW n \in Names \ contested'
               PROVE  /\ n \in {recent', latest'.to} => workspace'[n] = "whole"
                      /\ saved'[n] # {} => /\ workspace'[n] = "whole" /\ domain'[n] = "managed"
                                           /\ Managed(n)' # {}
    BY DEF NamedIsWhole
  <2> DEFINE q == session[s]
  <2>1. q \in Process /\ Fits(q) /\ n \in Names \ contested
    BY DEF DiskGrows
  <2>2. workspace[n] = "whole" => workspace'[n] = "whole"
    BY <2>1 DEF OwnWrites, Fits, Creating
  <2>3. n \in {recent', latest'.to} => workspace[n] = "whole"
    BY <2>1 DEF OwnWrites, NamedIsWhole, Fits
  <2>4. saved'[n] # {} => workspace[n] = "whole" /\ domain[n] = "managed" /\ Managed(n) # {}
    <3>1. CASE saved[n] # {}
      BY <2>1, <3>1 DEF NamedIsWhole
    <3>2. CASE q.ws = n /\ q.at = "working"
      BY <2>1, <3>2 DEF Fits, Filled, InDomain
    <3>. QED
      BY <3>1, <3>2, <2>1 DEF OwnWrites
  <2>. QED
    BY <2>1, <2>2, <2>3, <2>4 DEF DiskGrows
<1>. QED
  BY <1>1, <1>4, <1>5, <1>6

LEMMA GoesTo ==
  ASSUME session \in [Sessions -> Process], NEW s \in Sessions, NEW place, Go(s, place),
         place \in {"off", "workspace"} \cup Creating \cup Filled
  PROVE  \E r \in Process :
           /\ session' = [session EXCEPT ![s] = r]
           /\ r.at = place /\ r.ws = session[s].ws /\ r.entry = session[s].entry
           /\ r.seen = session[s].seen /\ r.fresh = session[s].fresh
<1> DEFINE r == [session[s] EXCEPT !.at = place]
<1>1. session[s] \in Process
  OBVIOUS
<1>2. r \in Process
  BY <1>1 DEF Process
<1>3. /\ session' = [session EXCEPT ![s] = r]
      /\ r.at = place /\ r.ws = session[s].ws /\ r.entry = session[s].entry
      /\ r.seen = session[s].seen /\ r.fresh = session[s].fresh
  BY <1>1 DEF Go, Process
<1>. QED
  BY <1>2, <1>3

LEMMA MakeDirectoriesKeeps ==
  ASSUME WorkspaceInv, NEW s \in Sessions, MakeDirectories(s)
  PROVE  WorkspaceInv'
<1> USE NamesAssumption DEF WorkspaceInv
<1>1. PICK r \in Process :
        /\ session' = [session EXCEPT ![s] = r]
        /\ r.at = "manifest" /\ r.ws = session[s].ws /\ r.entry = session[s].entry
        /\ r.seen = session[s].seen /\ r.fresh = session[s].fresh
  <2>1. Go(s, "manifest")
    BY DEF MakeDirectories
  <2>2. "manifest" \in {"off", "workspace"} \cup Creating \cup Filled
    BY DEF Creating, Filled, Opened, InDomain, Allocating
  <2>. QED
    BY <2>1, <2>2, GoesTo
<1>2. PICK q \in Process : q = session[s] /\ Fits(q)
  OBVIOUS
<1>3. /\ \A t \in Sessions \ {s} : session'[t] = session[t] /\ Apart(q, session[t])
  BY <1>1, <1>2
<1>4. DiskOK' /\ DiskGrows /\ OwnWrites(q)
  BY <1>1, <1>2 DEF MakeDirectories, DiskOK, DiskGrows, OwnWrites, Fits, Apart, New, At, disk,
     Filled, Opened, InDomain, Creating, Allocating, Managed
<1>5. Fits(r)'
  BY <1>1, <1>2 DEF MakeDirectories, DiskOK, DiskGrows, OwnWrites, Fits, Apart, New, At, disk,
     Filled, Opened, InDomain, Creating, Allocating, Managed
<1>6. \A t \in Sessions \ {s} : Apart(r, session[t])'
  BY <1>1, <1>2, <1>3 DEF MakeDirectories, DiskOK, DiskGrows, OwnWrites, Fits, Apart, New, At,
     disk, Filled, Opened, InDomain, Creating, Allocating, Managed
<1>. QED
  BY <1>1, <1>2, <1>4, <1>5, <1>6, MoveKeeps DEF Moves

LEMMA OpenManifestKeeps ==
  ASSUME WorkspaceInv, NEW s \in Sessions, OpenManifest(s)
  PROVE  WorkspaceInv'
<1> USE NamesAssumption DEF WorkspaceInv
<1>1. PICK r \in Process :
        /\ session' = [session EXCEPT ![s] = r]
        /\ r.at = "fill" /\ r.ws = session[s].ws /\ r.entry = session[s].entry
        /\ r.seen = session[s].seen /\ r.fresh = session[s].fresh
  <2>1. Go(s, "fill")
    BY DEF OpenManifest
  <2>2. "fill" \in {"off", "workspace"} \cup Creating \cup Filled
    BY DEF Creating, Filled, Opened, InDomain, Allocating
  <2>. QED
    BY <2>1, <2>2, GoesTo
<1>2. PICK q \in Process : q = session[s] /\ Fits(q)
  OBVIOUS
<1>3. /\ \A t \in Sessions \ {s} : session'[t] = session[t] /\ Apart(q, session[t])
  BY <1>1, <1>2
<1>4. DiskOK' /\ DiskGrows /\ OwnWrites(q)
  BY <1>1, <1>2 DEF OpenManifest, DiskOK, DiskGrows, OwnWrites, Fits, Apart, New, At, disk,
     Filled, Opened, InDomain, Creating, Allocating, Managed
<1>5. Fits(r)'
  BY <1>1, <1>2 DEF OpenManifest, DiskOK, DiskGrows, OwnWrites, Fits, Apart, New, At, disk,
     Filled, Opened, InDomain, Creating, Allocating, Managed
<1>6. \A t \in Sessions \ {s} : Apart(r, session[t])'
  BY <1>1, <1>2, <1>3 DEF OpenManifest, DiskOK, DiskGrows, OwnWrites, Fits, Apart, New, At,
     disk, Filled, Opened, InDomain, Creating, Allocating, Managed
<1>. QED
  BY <1>1, <1>2, <1>4, <1>5, <1>6, MoveKeeps DEF Moves

LEMMA FillManifestKeeps ==
  ASSUME WorkspaceInv, NEW s \in Sessions, FillManifest(s)
  PROVE  WorkspaceInv'
<1> USE NamesAssumption DEF WorkspaceInv
<1>1. PICK r \in Process :
        /\ session' = [session EXCEPT ![s] = r]
        /\ r.at = "look" /\ r.ws = session[s].ws /\ r.entry = session[s].entry
        /\ r.seen = session[s].seen /\ r.fresh = session[s].fresh
  <2>1. Go(s, "look")
    BY DEF FillManifest
  <2>2. "look" \in {"off", "workspace"} \cup Creating \cup Filled
    BY DEF Creating, Filled, Opened, InDomain, Allocating
  <2>. QED
    BY <2>1, <2>2, GoesTo
<1>2. PICK q \in Process : q = session[s] /\ Fits(q)
  OBVIOUS
<1>3. /\ \A t \in Sessions \ {s} : session'[t] = session[t] /\ Apart(q, session[t])
  BY <1>1, <1>2
<1>4. DiskOK' /\ DiskGrows /\ OwnWrites(q)
  BY <1>1, <1>2 DEF FillManifest, DiskOK, DiskGrows, OwnWrites, Fits, Apart, New, At, disk,
     Filled, Opened, InDomain, Creating, Allocating, Managed
<1>5. Fits(r)'
  BY <1>1, <1>2 DEF FillManifest, DiskOK, DiskGrows, OwnWrites, Fits, Apart, New, At, disk,
     Filled, Opened, InDomain, Creating, Allocating, Managed
<1>6. \A t \in Sessions \ {s} : Apart(r, session[t])'
  BY <1>1, <1>2, <1>3 DEF FillManifest, DiskOK, DiskGrows, OwnWrites, Fits, Apart, New, At,
     disk, Filled, Opened, InDomain, Creating, Allocating, Managed
<1>. QED
  BY <1>1, <1>2, <1>4, <1>5, <1>6, MoveKeeps DEF Moves

LEMMA LookLatestKeeps ==
  ASSUME WorkspaceInv, NEW s \in Sessions, LookLatest(s)
  PROVE  WorkspaceInv'
<1> USE NamesAssumption DEF WorkspaceInv
<1>1. PICK r \in Process :
        /\ session' = [session EXCEPT ![s] = r]
        /\ r.at = (IF latest.kind = "none" THEN "link" ELSE "unlink") /\ r.ws = session[s].ws /\ r.entry = session[s].entry
        /\ r.seen = session[s].seen /\ r.fresh = session[s].fresh
  <2>1. Go(s, (IF latest.kind = "none" THEN "link" ELSE "unlink"))
    BY DEF LookLatest
  <2>2. (IF latest.kind = "none" THEN "link" ELSE "unlink") \in {"off", "workspace"} \cup Creating \cup Filled
    BY DEF Creating, Filled, Opened, InDomain, Allocating
  <2>. QED
    BY <2>1, <2>2, GoesTo
<1>2. PICK q \in Process : q = session[s] /\ Fits(q)
  OBVIOUS
<1>3. /\ \A t \in Sessions \ {s} : session'[t] = session[t] /\ Apart(q, session[t])
  BY <1>1, <1>2
<1>4. DiskOK' /\ DiskGrows /\ OwnWrites(q)
  BY <1>1, <1>2 DEF LookLatest, DiskOK, DiskGrows, OwnWrites, Fits, Apart, New, At, disk,
     Filled, Opened, InDomain, Creating, Allocating, Managed
<1>5. Fits(r)'
  BY <1>1, <1>2 DEF LookLatest, DiskOK, DiskGrows, OwnWrites, Fits, Apart, New, At, disk,
     Filled, Opened, InDomain, Creating, Allocating, Managed
<1>6. \A t \in Sessions \ {s} : Apart(r, session[t])'
  BY <1>1, <1>2, <1>3 DEF LookLatest, DiskOK, DiskGrows, OwnWrites, Fits, Apart, New, At,
     disk, Filled, Opened, InDomain, Creating, Allocating, Managed
<1>. QED
  BY <1>1, <1>2, <1>4, <1>5, <1>6, MoveKeeps DEF Moves

LEMMA UnlinkLatestKeeps ==
  ASSUME WorkspaceInv, NEW s \in Sessions, UnlinkLatest(s)
  PROVE  WorkspaceInv'
<1> USE NamesAssumption DEF WorkspaceInv
<1>1. PICK r \in Process :
        /\ session' = [session EXCEPT ![s] = r]
        /\ r.at = (IF latest.kind = "none" THEN "text" ELSE "link") /\ r.ws = session[s].ws /\ r.entry = session[s].entry
        /\ r.seen = session[s].seen /\ r.fresh = session[s].fresh
  <2>1. Go(s, (IF latest.kind = "none" THEN "text" ELSE "link"))
    BY DEF UnlinkLatest
  <2>2. (IF latest.kind = "none" THEN "text" ELSE "link") \in {"off", "workspace"} \cup Creating \cup Filled
    BY DEF Creating, Filled, Opened, InDomain, Allocating
  <2>. QED
    BY <2>1, <2>2, GoesTo
<1>2. PICK q \in Process : q = session[s] /\ Fits(q)
  OBVIOUS
<1>3. /\ \A t \in Sessions \ {s} : session'[t] = session[t] /\ Apart(q, session[t])
  BY <1>1, <1>2
<1>4. DiskOK' /\ DiskGrows /\ OwnWrites(q)
  BY <1>1, <1>2 DEF UnlinkLatest, DiskOK, DiskGrows, OwnWrites, Fits, Apart, New, At, disk,
     Filled, Opened, InDomain, Creating, Allocating, Managed
<1>5. Fits(r)'
  BY <1>1, <1>2 DEF UnlinkLatest, DiskOK, DiskGrows, OwnWrites, Fits, Apart, New, At, disk,
     Filled, Opened, InDomain, Creating, Allocating, Managed
<1>6. \A t \in Sessions \ {s} : Apart(r, session[t])'
  BY <1>1, <1>2, <1>3 DEF UnlinkLatest, DiskOK, DiskGrows, OwnWrites, Fits, Apart, New, At,
     disk, Filled, Opened, InDomain, Creating, Allocating, Managed
<1>. QED
  BY <1>1, <1>2, <1>4, <1>5, <1>6, MoveKeeps DEF Moves

LEMMA LinkLatestKeeps ==
  ASSUME WorkspaceInv, NEW s \in Sessions, LinkLatest(s)
  PROVE  WorkspaceInv'
<1> USE NamesAssumption DEF WorkspaceInv
<1>1. PICK r \in Process :
        /\ session' = [session EXCEPT ![s] = r]
        /\ r.at \in {"recent", "text"} /\ r.ws = session[s].ws /\ r.entry = session[s].entry
        /\ r.seen = session[s].seen /\ r.fresh = session[s].fresh
  <2>1. PICK place \in {"recent", "text"} : Go(s, place)
    BY DEF LinkLatest
  <2>2. place \in {"off", "workspace"} \cup Creating \cup Filled
    BY DEF Creating, Filled, Opened, InDomain, Allocating
  <2>. QED
    BY <2>1, <2>2, GoesTo
<1>2. PICK q \in Process : q = session[s] /\ Fits(q)
  OBVIOUS
<1>3. /\ \A t \in Sessions \ {s} : session'[t] = session[t] /\ Apart(q, session[t])
  BY <1>1, <1>2
<1>4. /\ q.at = "link" /\ q.ws \in Names
      /\ latest' = latest \/ latest' = [kind |-> "link", to |-> q.ws]
  BY <1>2 DEF LinkLatest, At, Fits
<1>7. DiskOK' /\ DiskGrows /\ OwnWrites(q)
  <2>1. DiskOK'
    BY <1>4 DEF LinkLatest, DiskOK
  <2>2. DiskGrows
    BY DEF LinkLatest, DiskGrows, Managed
  <2>3. OwnWrites(q)
    BY <1>4 DEF LinkLatest, OwnWrites, Filled, Opened
  <2>. QED
    BY <2>1, <2>2, <2>3
<1>5. Fits(r)'
  BY <1>1, <1>2 DEF LinkLatest, DiskOK, DiskGrows, OwnWrites, Fits, Apart, New, At, disk,
     Filled, Opened, InDomain, Creating, Allocating, Managed
<1>6. \A t \in Sessions \ {s} : Apart(r, session[t])'
  BY <1>1, <1>2, <1>3 DEF LinkLatest, DiskOK, DiskGrows, OwnWrites, Fits, Apart, New, At,
     disk, Filled, Opened, InDomain, Creating, Allocating, Managed
<1>. QED
  BY <1>1, <1>2, <1>5, <1>6, <1>7, MoveKeeps DEF Moves

LEMMA FillTextKeeps ==
  ASSUME WorkspaceInv, NEW s \in Sessions, FillText(s)
  PROVE  WorkspaceInv'
<1> USE NamesAssumption DEF WorkspaceInv
<1>1. PICK r \in Process :
        /\ session' = [session EXCEPT ![s] = r]
        /\ r.at = "recent" /\ r.ws = session[s].ws /\ r.entry = session[s].entry
        /\ r.seen = session[s].seen /\ r.fresh = session[s].fresh
  <2>1. Go(s, "recent")
    BY DEF FillText
  <2>2. "recent" \in {"off", "workspace"} \cup Creating \cup Filled
    BY DEF Creating, Filled, Opened, InDomain, Allocating
  <2>. QED
    BY <2>1, <2>2, GoesTo
<1>2. PICK q \in Process : q = session[s] /\ Fits(q)
  OBVIOUS
<1>3. /\ \A t \in Sessions \ {s} : session'[t] = session[t] /\ Apart(q, session[t])
  BY <1>1, <1>2
<1>4. DiskOK' /\ DiskGrows /\ OwnWrites(q)
  BY <1>1, <1>2 DEF FillText, DiskOK, DiskGrows, OwnWrites, Fits, Apart, New, At, disk,
     Filled, Opened, InDomain, Creating, Allocating, Managed
<1>5. Fits(r)'
  BY <1>1, <1>2 DEF FillText, DiskOK, DiskGrows, OwnWrites, Fits, Apart, New, At, disk,
     Filled, Opened, InDomain, Creating, Allocating, Managed
<1>6. \A t \in Sessions \ {s} : Apart(r, session[t])'
  BY <1>1, <1>2, <1>3 DEF FillText, DiskOK, DiskGrows, OwnWrites, Fits, Apart, New, At, disk,
     Filled, Opened, InDomain, Creating, Allocating, Managed
<1>. QED
  BY <1>1, <1>2, <1>4, <1>5, <1>6, MoveKeeps DEF Moves

LEMMA OpenRecentKeeps ==
  ASSUME WorkspaceInv, NEW s \in Sessions, OpenRecent(s)
  PROVE  WorkspaceInv'
<1> USE NamesAssumption DEF WorkspaceInv
<1>1. PICK r \in Process :
        /\ session' = [session EXCEPT ![s] = r]
        /\ r.at = "remember" /\ r.ws = session[s].ws /\ r.entry = session[s].entry
        /\ r.seen = session[s].seen /\ r.fresh = session[s].fresh
  <2>1. Go(s, "remember")
    BY DEF OpenRecent
  <2>2. "remember" \in {"off", "workspace"} \cup Creating \cup Filled
    BY DEF Creating, Filled, Opened, InDomain, Allocating
  <2>. QED
    BY <2>1, <2>2, GoesTo
<1>2. PICK q \in Process : q = session[s] /\ Fits(q)
  OBVIOUS
<1>3. /\ \A t \in Sessions \ {s} : session'[t] = session[t] /\ Apart(q, session[t])
  BY <1>1, <1>2
<1>4. DiskOK' /\ DiskGrows /\ OwnWrites(q)
  BY <1>1, <1>2 DEF OpenRecent, DiskOK, DiskGrows, OwnWrites, Fits, Apart, New, At, disk,
     Filled, Opened, InDomain, Creating, Allocating, Managed
<1>5. Fits(r)'
  BY <1>1, <1>2 DEF OpenRecent, DiskOK, DiskGrows, OwnWrites, Fits, Apart, New, At, disk,
     Filled, Opened, InDomain, Creating, Allocating, Managed
<1>6. \A t \in Sessions \ {s} : Apart(r, session[t])'
  BY <1>1, <1>2, <1>3 DEF OpenRecent, DiskOK, DiskGrows, OwnWrites, Fits, Apart, New, At,
     disk, Filled, Opened, InDomain, Creating, Allocating, Managed
<1>. QED
  BY <1>1, <1>2, <1>4, <1>5, <1>6, MoveKeeps DEF Moves

LEMMA FillRecentKeeps ==
  ASSUME WorkspaceInv, NEW s \in Sessions, FillRecent(s)
  PROVE  WorkspaceInv'
<1> USE NamesAssumption DEF WorkspaceInv
<1>1. PICK r \in Process :
        /\ session' = [session EXCEPT ![s] = r]
        /\ r.at = "domain" /\ r.ws = session[s].ws /\ r.entry = session[s].entry
        /\ r.seen = session[s].seen /\ r.fresh = session[s].fresh
  <2>1. Go(s, "domain")
    BY DEF FillRecent
  <2>2. "domain" \in {"off", "workspace"} \cup Creating \cup Filled
    BY DEF Creating, Filled, Opened, InDomain, Allocating
  <2>. QED
    BY <2>1, <2>2, GoesTo
<1>2. PICK q \in Process : q = session[s] /\ Fits(q)
  OBVIOUS
<1>3. /\ \A t \in Sessions \ {s} : session'[t] = session[t] /\ Apart(q, session[t])
  BY <1>1, <1>2
<1>4. DiskOK' /\ DiskGrows /\ OwnWrites(q)
  BY <1>1, <1>2 DEF FillRecent, DiskOK, DiskGrows, OwnWrites, Fits, Apart, New, At, disk,
     Filled, Opened, InDomain, Creating, Allocating, Managed
<1>5. Fits(r)'
  BY <1>1, <1>2 DEF FillRecent, DiskOK, DiskGrows, OwnWrites, Fits, Apart, New, At, disk,
     Filled, Opened, InDomain, Creating, Allocating, Managed
<1>6. \A t \in Sessions \ {s} : Apart(r, session[t])'
  BY <1>1, <1>2, <1>3 DEF FillRecent, DiskOK, DiskGrows, OwnWrites, Fits, Apart, New, At,
     disk, Filled, Opened, InDomain, Creating, Allocating, Managed
<1>. QED
  BY <1>1, <1>2, <1>4, <1>5, <1>6, MoveKeeps DEF Moves

LEMMA MakeDomainKeeps ==
  ASSUME WorkspaceInv, NEW s \in Sessions, MakeDomain(s)
  PROVE  WorkspaceInv'
<1> USE NamesAssumption DEF WorkspaceInv
<1>1. PICK r \in Process :
        /\ session' = [session EXCEPT ![s] = r]
        /\ r.at = "domain manifest" /\ r.ws = session[s].ws /\ r.entry = session[s].entry
        /\ r.seen = session[s].seen /\ r.fresh = session[s].fresh
  <2>1. PICK place : place = "domain manifest" /\ Go(s, place)
    BY DEF MakeDomain
  <2>2. place \in {"off", "workspace"} \cup Creating \cup Filled
    BY <2>1 DEF Filled, InDomain, Allocating
  <2>3. PICK r \in Process :
          /\ session' = [session EXCEPT ![s] = r]
          /\ r.at = place /\ r.ws = session[s].ws /\ r.entry = session[s].entry
          /\ r.seen = session[s].seen /\ r.fresh = session[s].fresh
    <3> DEFINE p == [session[s] EXCEPT !.at = place]
    <3>1. session[s] \in Process /\ p \in Process
      BY <2>2 DEF Process
    <3>. QED
      BY <2>1, <3>1 DEF Go, Process
  <2>. QED
    BY <2>1, <2>3
<1>2. PICK q \in Process : q = session[s] /\ Fits(q)
  OBVIOUS
<1>3. /\ \A t \in Sessions \ {s} : session'[t] = session[t] /\ Apart(q, session[t])
  BY <1>1, <1>2
<1>4. DiskOK' /\ DiskGrows /\ OwnWrites(q)
  BY <1>1, <1>2 DEF MakeDomain, DiskOK, DiskGrows, OwnWrites, Fits, Apart, New, At, disk,
     Filled, Opened, InDomain, Creating, Allocating, Managed
<1>5. Fits(r)'
  BY <1>1, <1>2 DEF MakeDomain, DiskOK, DiskGrows, OwnWrites, Fits, Apart, New, At, disk,
     Filled, Opened, InDomain, Creating, Allocating, Managed
<1>6. \A t \in Sessions \ {s} : Apart(r, session[t])'
  BY <1>1, <1>2, <1>3 DEF MakeDomain, DiskOK, DiskGrows, OwnWrites, Fits, Apart, New, At,
     disk, Filled, Opened, InDomain, Creating, Allocating, Managed
<1>. QED
  BY <1>1, <1>2, <1>4, <1>5, <1>6, MoveKeeps DEF Moves

LEMMA ManifestDomainKeeps ==
  ASSUME WorkspaceInv, NEW s \in Sessions, ManifestDomain(s)
  PROVE  WorkspaceInv'
<1> USE NamesAssumption DEF WorkspaceInv
<1>1. PICK r \in Process :
        /\ session' = [session EXCEPT ![s] = r]
        /\ r.at = "entries" /\ r.ws = session[s].ws /\ r.entry = session[s].entry
        /\ r.seen = session[s].seen /\ r.fresh = session[s].fresh
  <2>1. Go(s, "entries")
    BY DEF ManifestDomain
  <2>2. "entries" \in {"off", "workspace"} \cup Creating \cup Filled
    BY DEF Creating, Filled, Opened, InDomain, Allocating
  <2>. QED
    BY <2>1, <2>2, GoesTo
<1>2. PICK q \in Process : q = session[s] /\ Fits(q)
  OBVIOUS
<1>3. /\ \A t \in Sessions \ {s} : session'[t] = session[t] /\ Apart(q, session[t])
  BY <1>1, <1>2
<1>4. DiskOK' /\ DiskGrows /\ OwnWrites(q)
  BY <1>1, <1>2 DEF ManifestDomain, DiskOK, DiskGrows, OwnWrites, Fits, Apart, New, At, disk,
     Filled, Opened, InDomain, Creating, Allocating, Managed
<1>5. Fits(r)'
  BY <1>1, <1>2 DEF ManifestDomain, DiskOK, DiskGrows, OwnWrites, Fits, Apart, New, At, disk,
     Filled, Opened, InDomain, Creating, Allocating, Managed
<1>6. \A t \in Sessions \ {s} : Apart(r, session[t])'
  BY <1>1, <1>2, <1>3 DEF ManifestDomain, DiskOK, DiskGrows, OwnWrites, Fits, Apart, New, At,
     disk, Filled, Opened, InDomain, Creating, Allocating, Managed
<1>. QED
  BY <1>1, <1>2, <1>4, <1>5, <1>6, MoveKeeps DEF Moves

LEMMA MakeEntryKeeps ==
  ASSUME WorkspaceInv, NEW s \in Sessions, MakeEntry(s)
  PROVE  WorkspaceInv'
<1> USE NamesAssumption DEF WorkspaceInv
<1>1. PICK r \in Process :
        /\ session' = [session EXCEPT ![s] = r]
        /\ r.at = "entry manifest" /\ r.ws = session[s].ws /\ r.entry = session[s].entry
        /\ r.seen = session[s].seen /\ r.fresh = session[s].fresh
  <2>1. PICK place : place = "entry manifest" /\ Go(s, place)
    BY DEF MakeEntry
  <2>2. place \in {"off", "workspace"} \cup Creating \cup Filled
    BY <2>1 DEF Filled, InDomain, Allocating
  <2>3. PICK r \in Process :
          /\ session' = [session EXCEPT ![s] = r]
          /\ r.at = place /\ r.ws = session[s].ws /\ r.entry = session[s].entry
          /\ r.seen = session[s].seen /\ r.fresh = session[s].fresh
    <3> DEFINE p == [session[s] EXCEPT !.at = place]
    <3>1. session[s] \in Process /\ p \in Process
      BY <2>2 DEF Process
    <3>. QED
      BY <2>1, <3>1 DEF Go, Process
  <2>. QED
    BY <2>1, <2>3
<1>2. PICK q \in Process : q = session[s] /\ Fits(q)
  OBVIOUS
<1>3. /\ \A t \in Sessions \ {s} : session'[t] = session[t] /\ Apart(q, session[t])
  BY <1>1, <1>2
<1>4. DiskOK' /\ DiskGrows /\ OwnWrites(q)
  BY <1>1, <1>2 DEF MakeEntry, DiskOK, DiskGrows, OwnWrites, Fits, Apart, New, At, disk,
     Filled, Opened, InDomain, Creating, Allocating, Managed
<1>5. Fits(r)'
  BY <1>1, <1>2 DEF MakeEntry, DiskOK, DiskGrows, OwnWrites, Fits, Apart, New, At, disk,
     Filled, Opened, InDomain, Creating, Allocating, Managed
<1>6. \A t \in Sessions \ {s} : Apart(r, session[t])'
  <2>1. q.at = "make entry" /\ New(q) /\ r.at \notin Creating
    BY <1>1, <1>2 DEF MakeEntry, At, New, Allocating, Creating
  <2>. QED
    BY <1>1, <1>2, <1>3, <2>1 DEF MakeEntry, Apart
<1>. QED
  BY <1>1, <1>2, <1>4, <1>5, <1>6, MoveKeeps DEF Moves

LEMMA StartSessionKeeps ==
  ASSUME WorkspaceInv, NEW s \in Sessions, StartSession(s)
  PROVE  WorkspaceInv'
<1> USE NamesAssumption DEF WorkspaceInv
<1>1. PICK r \in Process :
        /\ session' = [session EXCEPT ![s] = r]
        /\ r.at = "workspace" /\ r.ws = session[s].ws /\ r.entry = session[s].entry
        /\ r.seen = session[s].seen /\ r.fresh = session[s].fresh
  <2>1. Go(s, "workspace")
    BY DEF StartSession
  <2>2. "workspace" \in {"off", "workspace"} \cup Creating \cup Filled
    BY DEF Creating, Filled, Opened, InDomain, Allocating
  <2>. QED
    BY <2>1, <2>2, GoesTo
<1>2. PICK q \in Process : q = session[s] /\ Fits(q)
  OBVIOUS
<1>3. /\ \A t \in Sessions \ {s} : session'[t] = session[t] /\ Apart(q, session[t])
  BY <1>1, <1>2
<1>4. DiskOK' /\ DiskGrows /\ OwnWrites(q)
  BY <1>1, <1>2 DEF StartSession, DiskOK, DiskGrows, OwnWrites, Fits, Apart, New, At, disk,
     Filled, Opened, InDomain, Creating, Allocating, Managed
<1>5. Fits(r)'
  BY <1>1, <1>2 DEF StartSession, DiskOK, DiskGrows, OwnWrites, Fits, Apart, New, At, disk,
     Filled, Opened, InDomain, Creating, Allocating, Managed
<1>6. \A t \in Sessions \ {s} : Apart(r, session[t])'
  BY <1>1, <1>2, <1>3 DEF StartSession, DiskOK, DiskGrows, OwnWrites, Fits, Apart, New, At,
     disk, Filled, Opened, InDomain, Creating, Allocating, Managed
<1>. QED
  BY <1>1, <1>2, <1>4, <1>5, <1>6, MoveKeeps DEF Moves

LEMMA OutsideFits == Outside \in Process /\ Outside.at = "off" /\ Outside.fresh = FALSE
BY DEF Outside, Process

(* Leaving: a process that is outside relies on nothing.                   *)
LEMMA LeavingKeeps ==
  ASSUME WorkspaceInv, NEW s \in Sessions, Exit(s), UNCHANGED <<disk, saves, contested, shared>>
  PROVE  WorkspaceInv'
<1> USE DEF WorkspaceInv
<1>1. PICK r \in Process :
        /\ session' = [session EXCEPT ![s] = r]
        /\ r.at = "off" /\ ~r.fresh
  BY OutsideFits DEF Exit
<1>2. DiskOK' /\ DiskGrows /\ OwnWrites(session[s])
  BY DEF disk, DiskOK, DiskGrows, OwnWrites, Managed
<1>3. Fits(r)'
  BY <1>1 DEF Fits, Filled, Opened, InDomain, Allocating
<1>4. \A t \in Sessions \ {s} : Apart(r, session[t])'
  BY <1>1 DEF Apart, New, Creating, Allocating
<1>. QED
  BY <1>1, <1>2, <1>3, <1>4, MoveKeeps DEF Moves

LEMMA LoadWorkspaceKeeps ==
  ASSUME WorkspaceInv, NEW s \in Sessions, NEW n, LoadWorkspace(s, n)
  PROVE  WorkspaceInv'
<1> USE DEF WorkspaceInv
<1>1. CASE workspace[n] = "blank"
  BY <1>1, LeavingKeeps DEF LoadWorkspace
<1>2. CASE workspace[n] # "blank"
  <2>1. session[s] \in Process /\ Fits(session[s]) /\ session[s].at = "workspace"
    BY DEF LoadWorkspace, At
  <2>2. PICK r \in Process :
          /\ session' = [session EXCEPT ![s] = r]
          /\ r.at = "domain" /\ r.ws = n /\ ~r.fresh
    <3> DEFINE p == [session[s] EXCEPT !.ws = n, !.at = "domain"]
    <3>1. p \in Process
      BY <2>1 DEF LoadWorkspace, Process, Filled, Opened
    <3>2. session' = [session EXCEPT ![s] = p]
      BY <1>2 DEF LoadWorkspace
    <3>3. p.at = "domain" /\ p.ws = n /\ ~p.fresh
      BY <2>1 DEF Process, Fits
    <3>. QED
      BY <3>1, <3>2, <3>3
  <2>3. DiskOK' /\ DiskGrows /\ OwnWrites(session[s])
    BY DEF LoadWorkspace, disk, DiskOK, DiskGrows, OwnWrites, Managed
  <2>4. Fits(r)'
    BY <1>2, <2>2 DEF LoadWorkspace, disk, Fits, InDomain, Allocating
  <2>5. \A t \in Sessions \ {s} : Apart(r, session[t])'
    BY <2>2 DEF Apart, New, Creating, Allocating
  <2>. QED
    BY <2>2, <2>3, <2>4, <2>5, MoveKeeps DEF Moves
<1>. QED
  BY <1>1, <1>2

(* Until it is created a workspace is not there, and nobody works in it.   *)
LEMMA NewWorkspaceKeeps ==
  ASSUME WorkspaceInv, NEW s \in Sessions, NewWorkspace(s)
  PROVE  WorkspaceInv'
<1> USE DEF WorkspaceInv
<1>1. PICK n \in Names :
        /\ workspace[n] = "none"
        /\ session' = [session EXCEPT ![s].ws = n, ![s].at = "create"]
        /\ contested' = IF \E t \in Sessions \ {s} :
                             session[t].ws = n /\ session[t].at \in Creating
                        THEN contested \cup {n} ELSE contested
  BY DEF NewWorkspace
<1>2. session[s] \in Process /\ Fits(session[s]) /\ session[s].at = "workspace"
  BY DEF NewWorkspace, At
<1>3. PICK r \in Process :
        /\ session' = [session EXCEPT ![s] = r]
        /\ r.at = "create" /\ r.ws = n /\ ~r.fresh
  <2> DEFINE p == [session[s] EXCEPT !.ws = n, !.at = "create"]
  <2>1. p \in Process
    BY <1>2 DEF Process, Creating
  <2>2. session' = [session EXCEPT ![s] = p]
    BY <1>1, <1>2 DEF Process
  <2>3. p.at = "create" /\ p.ws = n /\ ~p.fresh
    BY <1>2 DEF Process, Fits
  <2>. QED
    BY <2>1, <2>2, <2>3
<1>4. DiskOK' /\ DiskGrows /\ OwnWrites(session[s])
  BY <1>1 DEF NewWorkspace, disk, DiskOK, DiskGrows, OwnWrites, Managed
<1>5. Fits(r)'
  BY <1>1, <1>3 DEF NewWorkspace, disk, Fits, Filled, Opened, InDomain, Allocating
<1>6. ASSUME NEW t \in Sessions \ {s} PROVE Apart(r, session[t])'
  <2>1. session'[t] = session[t]
    BY <1>3
  <2>. QED
    BY <1>1, <1>3, <2>1 DEF Apart, New, Allocating
<1>. QED
  BY <1>3, <1>4, <1>5, <1>6, MoveKeeps DEF Moves

LEMMA OpenTextKeeps ==
  ASSUME WorkspaceInv, NEW s \in Sessions, OpenText(s)
  PROVE  WorkspaceInv'
<1> USE NamesAssumption DEF WorkspaceInv
<1>1. CASE latest.kind = "link"
  BY <1>1, LeavingKeeps DEF OpenText, disk
<1>2. CASE latest.kind # "link"
  <2>1. session[s] \in Process /\ Fits(session[s]) /\ session[s].at = "text"
    BY DEF OpenText, At
  <2>2. PICK r \in Process :
          /\ session' = [session EXCEPT ![s] = r]
          /\ r.at = "text fill" /\ r.ws = session[s].ws /\ ~r.fresh
    <3> DEFINE p == [session[s] EXCEPT !.at = "text fill"]
    <3>1. p \in Process
      BY <2>1 DEF Process, Filled, Opened
    <3>2. session' = [session EXCEPT ![s] = p]
      BY <1>2 DEF OpenText, Go
    <3>3. p.at = "text fill" /\ p.ws = session[s].ws /\ ~p.fresh
      BY <2>1 DEF Process, Fits
    <3>. QED
      BY <3>1, <3>2, <3>3
  <2>3. DiskOK' /\ DiskGrows /\ OwnWrites(session[s])
    <3>1. latest' = [kind |-> "text", to |-> Blank]
      BY <1>2 DEF OpenText
    <3>. QED
      BY <3>1 DEF OpenText, DiskOK, DiskGrows, OwnWrites, Managed
  <2>4. Fits(r)'
    BY <2>1, <2>2 DEF OpenText, Fits, Filled, Opened, InDomain, Allocating
  <2>5. \A t \in Sessions \ {s} : Apart(r, session[t])'
    BY <2>2 DEF Apart, New, Creating, Allocating
  <2>. QED
    BY <2>2, <2>3, <2>4, <2>5, MoveKeeps DEF Moves
<1>. QED
  BY <1>1, <1>2

LEMMA ListEntriesKeeps ==
  ASSUME WorkspaceInv, NEW s \in Sessions, ListEntries(s)
  PROVE  WorkspaceInv'
<1> USE DEF WorkspaceInv
<1>1. session[s] \in Process /\ Fits(session[s]) /\ session[s].at = "entries"
  BY DEF ListEntries, At
<1>2. PICK r \in Process :
        /\ session' = [session EXCEPT ![s] = r]
        /\ r.at = "pick" /\ r.ws = session[s].ws /\ r.seen = Managed(session[s].ws) /\ ~r.fresh
  <2> DEFINE p == [session[s] EXCEPT !.seen = Managed(session[s].ws), !.at = "pick"]
  <2>1. p \in Process
    BY <1>1 DEF Process, Filled, InDomain, Managed
  <2>2. session' = [session EXCEPT ![s] = p]
    BY DEF ListEntries
  <2>3. p.at = "pick" /\ p.ws = session[s].ws /\ p.seen = Managed(session[s].ws) /\ ~p.fresh
    BY <1>1 DEF Process, Fits
  <2>. QED
    BY <2>1, <2>2, <2>3
<1>3. DiskOK' /\ DiskGrows /\ OwnWrites(session[s])
  BY DEF ListEntries, disk, DiskOK, DiskGrows, OwnWrites, Managed
<1>4. Fits(r)'
  BY <1>1, <1>2 DEF ListEntries, disk, Fits, Filled, InDomain, Allocating, Managed
<1>5. \A t \in Sessions \ {s} : Apart(r, session[t])'
  BY <1>2 DEF Apart, New, Creating, Allocating
<1>. QED
  BY <1>2, <1>3, <1>4, <1>5, MoveKeeps DEF Moves

LEMMA PickEntryKeeps ==
  ASSUME WorkspaceInv, NEW s \in Sessions, PickEntry(s)
  PROVE  WorkspaceInv'
<1> USE DEF WorkspaceInv
<1>1. session[s] \in Process /\ Fits(session[s]) /\ session[s].at = "pick"
  BY DEF PickEntry, At
<1>2. PICK r \in Process :
        /\ session' = [session EXCEPT ![s] = r]
        /\ r.ws = session[s].ws /\ ~r.fresh
        /\ r.at = "entries" \/ (r.at = "working" /\ r.entry \in Managed(session[s].ws))
  <2>1. ASSUME NEW e \in session[s].seen,
               session' = [session EXCEPT ![s].entry = e, ![s].at = "working", ![s].seen = {}]
        PROVE  \E r \in Process :
                 /\ session' = [session EXCEPT ![s] = r]
                 /\ r.ws = session[s].ws /\ ~r.fresh
                 /\ r.at = "working" /\ r.entry \in Managed(session[s].ws)
    <3> DEFINE p == [session[s] EXCEPT !.entry = e, !.at = "working", !.seen = {}]
    <3>1. e \in Managed(session[s].ws) /\ e \in Entry
      BY <1>1 DEF Fits, Managed
    <3>2. p \in Process
      BY <1>1, <3>1 DEF Process, Filled, InDomain
    <3>3. session' = [session EXCEPT ![s] = p]
      BY <2>1
    <3>4. p.ws = session[s].ws /\ ~p.fresh /\ p.at = "working" /\ p.entry = e
      BY <1>1 DEF Process, Fits
    <3>. QED
      BY <3>1, <3>2, <3>3, <3>4
  <2>2. ASSUME session' = [session EXCEPT ![s].at = "entries", ![s].seen = {}]
        PROVE  \E r \in Process :
                 /\ session' = [session EXCEPT ![s] = r]
                 /\ r.ws = session[s].ws /\ ~r.fresh /\ r.at = "entries"
    <3> DEFINE p == [session[s] EXCEPT !.at = "entries", !.seen = {}]
    <3>1. p \in Process
      BY <1>1 DEF Process, Filled, InDomain
    <3>2. session' = [session EXCEPT ![s] = p]
      BY <2>2
    <3>3. p.ws = session[s].ws /\ ~p.fresh /\ p.at = "entries"
      BY <1>1 DEF Process, Fits
    <3>. QED
      BY <3>1, <3>2, <3>3
  <2>. QED
    BY <2>1, <2>2 DEF PickEntry
<1>3. DiskOK' /\ DiskGrows /\ OwnWrites(session[s])
  BY DEF PickEntry, disk, DiskOK, DiskGrows, OwnWrites, Managed
<1>4. Fits(r)'
  BY <1>1, <1>2 DEF PickEntry, disk, Fits, Filled, InDomain, Allocating, Managed
<1>5. \A t \in Sessions \ {s} : Apart(r, session[t])'
  BY <1>2 DEF Apart, New, Creating, Allocating
<1>. QED
  BY <1>2, <1>3, <1>4, <1>5, MoveKeeps DEF Moves

LEMMA SmallestNumber ==
  ASSUME NEW S \in SUBSET Nat, S # {}
  PROVE  \E m \in S : \A n \in S : m <= n
<1> DEFINE R == OpToRel(<, Nat)
<1>1. IsWellFoundedOn(R, Nat)
  BY NatLessThanWellFounded
<1>2. \A n, m \in Nat : n < m => <<n, m>> \in R
  BY DEF OpToRel
<1> HIDE DEF R
<1>3. PICK m \in S : \A n \in S : ~ (<<n, m>> \in R)
  BY <1>1, WFMin
<1>4. ASSUME NEW n \in S PROVE m <= n
  <2>1. n \in Nat /\ m \in Nat
    OBVIOUS
  <2>2. ~(n < m)
    BY <2>1, <1>2, <1>3
  <2>. QED
    BY <2>1, <2>2
<1>. QED
  BY <1>4

(* The number of a new entry is above those of all managed ones.           *)
LEMMA NextEntryIsNew ==
  ASSUME NEW n
  PROVE  /\ Max(Managed(n) \cup {0}) + 1 \in Nat
         /\ Max(Managed(n) \cup {0}) + 1 \notin Managed(n)
<1> DEFINE S == Managed(n) \cup {0}
<1>1. S \subseteq 0 .. MaxEntry /\ 0 \in S /\ MaxEntry \in Nat
  BY EntryAssumption DEF Managed, Entry
<1>2. \E m \in S : \A k \in S : m >= k
  <2> DEFINE B == {i \in Nat : \A k \in S : i >= k}
  <2> HIDE DEF S
  <2>1. MaxEntry \in B
    BY <1>1
  <2>2. PICK b \in B : \A i \in B : b <= i
    <3> HIDE DEF B
    <3>1. B \subseteq Nat
      BY DEF B
    <3>. QED
      BY <2>1, <3>1, SmallestNumber
  <2>3. b \in S
    <3> SUFFICES ASSUME b \notin S PROVE FALSE
      OBVIOUS
    <3>1. b \in Nat /\ b # 0 /\ \A k \in S : b > k
      BY <1>1, <2>2
    <3>2. b - 1 \in B
      BY <1>1, <3>1
    <3>. QED
      BY <2>2, <3>1, <3>2
  <2>. QED
    BY <2>2, <2>3
<1>3. Max(S) \in S /\ \A k \in S : Max(S) >= k
  BY <1>2 DEF Max
<1>4. PICK m : m = Max(S)
  OBVIOUS
<1>5. m \in Nat /\ \A k \in Managed(n) : k \in Nat /\ m >= k
  BY <1>1, <1>3, <1>4
<1>6. m + 1 \in Nat /\ m + 1 \notin Managed(n)
  BY <1>5
<1>. QED
  BY <1>4, <1>6

LEMMA AllocateEntryKeeps ==
  ASSUME WorkspaceInv, NEW s \in Sessions, AllocateEntry(s)
  PROVE  WorkspaceInv'
<1> USE DEF WorkspaceInv
<1>1. session[s] \in Process /\ Fits(session[s]) /\ session[s].at = "pick"
  BY DEF AllocateEntry, At
<1> DEFINE n == session[s].ws
<1>0. PICK e : e = Max(Managed(n) \cup {0}) + 1
  OBVIOUS
<1>2. /\ e \in Entry /\ e \notin Managed(n)
      /\ session' = [session EXCEPT ![s].entry = e, ![s].at = "named", ![s].seen = {}]
      /\ shared' = IF \E t \in Sessions \ {s} :
                        /\ session[t].ws = n /\ session[t].entry = e
                        /\ session[t].at \in Allocating
                   THEN shared \cup {<<n, e>>} ELSE shared
  BY <1>0, NextEntryIsNew DEF AllocateEntry
<1>3. PICK r \in Process :
        /\ session' = [session EXCEPT ![s] = r]
        /\ r.at = "named" /\ r.ws = n /\ r.entry = e /\ ~r.fresh
  <2> DEFINE p == [session[s] EXCEPT !.entry = e, !.at = "named", !.seen = {}]
  <2>1. p \in Process
    BY <1>1, <1>2 DEF Process, Filled, InDomain, Allocating
  <2>2. session' = [session EXCEPT ![s] = p]
    BY <1>2
  <2>3. p.at = "named" /\ p.ws = n /\ p.entry = e /\ ~p.fresh
    BY <1>1, <1>2 DEF Process, Fits
  <2>. QED
    BY <2>1, <2>2, <2>3
<1>4. DiskOK' /\ DiskGrows /\ OwnWrites(session[s])
  BY <1>2 DEF AllocateEntry, disk, DiskOK, DiskGrows, OwnWrites, Managed
<1>5. Fits(r)'
  BY <1>1, <1>2, <1>3 DEF AllocateEntry, disk, Fits, Filled, InDomain, Allocating
<1>6. ASSUME NEW t \in Sessions \ {s} PROVE Apart(r, session[t])'
  <2>1. session'[t] = session[t] /\ Fits(session[t])
    BY <1>3
  <2>2. session[t].fresh /\ session[t].ws = n => session[t].entry # e
    BY <1>2, <2>1 DEF Fits
  <2>. QED
    BY <1>2, <1>3, <2>1, <2>2 DEF Apart, New, Creating
<1>. QED
  BY <1>3, <1>4, <1>5, <1>6, MoveKeeps DEF Moves

LEMMA CheckEntryKeeps ==
  ASSUME WorkspaceInv, NEW s \in Sessions, CheckEntry(s)
  PROVE  WorkspaceInv'
<1> USE DEF WorkspaceInv
<1>1. CASE session[s].entry \in Managed(session[s].ws)
  BY <1>1, LeavingKeeps DEF CheckEntry
<1>2. CASE session[s].entry \notin Managed(session[s].ws)
  <2>1. session[s] \in Process /\ Fits(session[s]) /\ session[s].at = "named"
    BY DEF CheckEntry, At
  <2>2. PICK r \in Process :
          /\ session' = [session EXCEPT ![s] = r]
          /\ r.at = "make entry" /\ r.ws = session[s].ws /\ r.entry = session[s].entry /\ ~r.fresh
    <3> DEFINE p == [session[s] EXCEPT !.at = "make entry"]
    <3>1. p \in Process
      BY <2>1 DEF Process, Filled, InDomain, Allocating
    <3>2. session' = [session EXCEPT ![s] = p]
      BY <1>2 DEF CheckEntry, Go
    <3>3. p.at = "make entry" /\ p.ws = session[s].ws /\ p.entry = session[s].entry /\ ~p.fresh
      BY <2>1 DEF Process, Fits
    <3>. QED
      BY <3>1, <3>2, <3>3
  <2>3. DiskOK' /\ DiskGrows /\ OwnWrites(session[s])
    BY DEF CheckEntry, disk, DiskOK, DiskGrows, OwnWrites, Managed
  <2>4. Fits(r)'
    BY <2>1, <2>2 DEF CheckEntry, disk, Fits, Filled, InDomain, Allocating
  <2>5. ASSUME NEW t \in Sessions \ {s} PROVE Apart(r, session[t])'
    <3>1. session'[t] = session[t] /\ Apart(session[s], session[t]) /\ New(session[s])
      BY <2>1, <2>2 DEF New, Allocating
    <3>. QED
      BY <2>2, <3>1 DEF CheckEntry, Apart, Creating
  <2>. QED
    BY <2>2, <2>3, <2>4, <2>5, MoveKeeps DEF Moves
<1>. QED
  BY <1>1, <1>2

LEMMA ManifestEntryKeeps ==
  ASSUME WorkspaceInv, NEW s \in Sessions, ManifestEntry(s)
  PROVE  WorkspaceInv'
<1> USE DEF WorkspaceInv
<1>1. /\ session[s] \in Process /\ Fits(session[s]) /\ session[s].at = "entry manifest"
      /\ session[s].ws \in Names /\ session[s].entry \in Entry
  BY DEF ManifestEntry, At, Fits, Allocating
<1>2. PICK r \in Process :
        /\ session' = [session EXCEPT ![s] = r]
        /\ r.at = "working" /\ r.ws = session[s].ws /\ r.entry = session[s].entry /\ r.fresh
  <2> DEFINE p == [session[s] EXCEPT !.at = "working", !.fresh = TRUE]
  <2>1. p \in Process
    BY <1>1 DEF Process, Filled, InDomain
  <2>2. session' = [session EXCEPT ![s] = p]
    BY DEF ManifestEntry
  <2>3. p.at = "working" /\ p.ws = session[s].ws /\ p.entry = session[s].entry /\ p.fresh
    BY <1>1 DEF Process
  <2>. QED
    BY <2>1, <2>2, <2>3
<1>3. /\ \A n \in Names : Managed(n) \subseteq Managed(n)'
      /\ session[s].entry \in {e \in Entry : entries'[session[s].ws][e] = "managed"}
  BY <1>1 DEF ManifestEntry, DiskOK, Managed
<1>4. DiskOK'
  BY <1>1 DEF ManifestEntry, DiskOK
<1>5. DiskGrows /\ OwnWrites(session[s])
  BY <1>3 DEF ManifestEntry, DiskGrows, OwnWrites
<1>6. Fits(r)'
  BY <1>1, <1>2, <1>3 DEF ManifestEntry, Fits, Filled, InDomain, Allocating, Managed
<1>7. ASSUME NEW t \in Sessions \ {s} PROVE Apart(r, session[t])'
  <2>1. session'[t] = session[t] /\ Apart(session[s], session[t]) /\ New(session[s])
    BY <1>1, <1>2 DEF New, Allocating
  <2>. QED
    BY <1>2, <2>1 DEF ManifestEntry, Apart, Creating
<1>. QED
  BY <1>2, <1>4, <1>5, <1>6, <1>7, MoveKeeps DEF Moves

LEMMA SaveEntityKeeps ==
  ASSUME WorkspaceInv, NEW s \in Sessions, SaveEntity(s)
  PROVE  WorkspaceInv'
<1> USE DEF WorkspaceInv
<1>1. /\ session[s] \in Process /\ Fits(session[s]) /\ session[s].at = "working"
      /\ session[s].ws \in Names /\ session[s].entry \in Entry
  BY DEF SaveEntity, At, Fits, Managed
<1>2. PICK r \in Process : r = session[s]
  BY <1>1
<1>3. session' = [session EXCEPT ![s] = r]
  BY <1>2 DEF SaveEntity
<1>4. DiskOK'
  BY <1>1 DEF SaveEntity, DiskOK
<1>5. DiskGrows /\ OwnWrites(session[s])
  BY <1>1 DEF SaveEntity, DiskOK, DiskGrows, OwnWrites, Managed
<1>6. Fits(r)'
  BY <1>1, <1>2 DEF SaveEntity, Fits, Managed
<1>7. ASSUME NEW t \in Sessions \ {s} PROVE Apart(r, session[t])'
  <2>1. session'[t] = session[t] /\ Apart(r, session[t])
    BY <1>2 DEF SaveEntity
  <2>. QED
    BY <2>1 DEF SaveEntity, Apart
<1>. QED
  BY <1>3, <1>4, <1>5, <1>6, <1>7, MoveKeeps DEF Moves

LEMMA WorkspaceBegins == WorkspaceInit => WorkspaceInv
<1> SUFFICES ASSUME WorkspaceInit PROVE WorkspaceInv
  OBVIOUS
<1>1. PICK o \in Process : o = Outside /\ o.at = "off" /\ o.fresh = FALSE
  BY OutsideFits
<1>2. session \in [Sessions -> Process] /\ \A s \in Sessions : session[s] = o
  BY <1>1 DEF WorkspaceInit
<1>3. DiskOK
  BY DEF WorkspaceInit, DiskOK
<1>4. \A s \in Sessions : Fits(session[s])
  BY <1>1, <1>2 DEF Fits, Filled, Opened, InDomain, Allocating
<1>5. \A s, t \in Sessions : Apart(session[s], session[t])
  BY <1>1, <1>2 DEF Apart, New, Creating, Allocating
<1>6. NamedIsWhole
  BY NamesAssumption DEF WorkspaceInit, NamedIsWhole
<1>. QED
  BY <1>2, <1>3, <1>4, <1>5, <1>6 DEF WorkspaceInv

LEMMA WorkspaceStays ==
  ASSUME WorkspaceInv, UNCHANGED workspaceVars
  PROVE  WorkspaceInv'
BY DEF workspaceVars, disk, WorkspaceInv, DiskOK, Fits, Apart, NamedIsWhole, Managed

LEMMA SessionKeeps ==
  ASSUME WorkspaceInv, NEW s \in Sessions,
         SessionStep(s) \/ SaveEntity(s) \/ StartSession(s) \/ EndSession(s)
  PROVE  WorkspaceInv'
<1>1. CASE UseLast(s) \/ OpenByName(s)
  BY <1>1, LoadWorkspaceKeeps DEF UseLast, OpenByName
<1>2. CASE EndSession(s)
  BY <1>2, LeavingKeeps DEF EndSession
<1>. QED
  BY <1>1, <1>2, NewWorkspaceKeeps, MakeDirectoriesKeeps, OpenManifestKeeps, FillManifestKeeps,
     LookLatestKeeps, UnlinkLatestKeeps, LinkLatestKeeps, OpenTextKeeps, FillTextKeeps,
     OpenRecentKeeps, FillRecentKeeps, MakeDomainKeeps, ManifestDomainKeeps, ListEntriesKeeps,
     PickEntryKeeps, AllocateEntryKeeps, CheckEntryKeeps, MakeEntryKeeps, ManifestEntryKeeps,
     SaveEntityKeeps, StartSessionKeeps
     DEF SessionStep

-----------------------------------------------------------------------------
(* The transfers.  A step moves one conversation, to q; what the others    *)
(* have received stays, and so does whom the server attends to.            *)
OthersLeftAlone(c) ==
  \A d \in Clients \ {c} :
    /\ partial'[d] = partial[d] /\ (Good(d) => Good(d)')
    /\ server' = [at |-> "receive", peer |-> d] <=> server = [at |-> "receive", peer |-> d]
    /\ server' = [at |-> "open", peer |-> d] => server = [at |-> "open", peer |-> d]
    /\ server = [at |-> "receive", peer |-> d] => partial'[Server] = partial[Server]

FilesFit ==
  /\ file' = [h \in Holders |-> file'[h]] /\ partial' = [h \in Holders |-> partial'[h]]
  /\ \A h \in Holders : file'[h] = NoFile \/ Good(h)'
  /\ server' \in ServerPlaces /\ (server'.at = "open" => Good(Server)')

LEMMA TalkKeeps ==
  ASSUME TransferInv, NEW c \in Clients, NEW q \in Conversation,
         conv' = [conv EXCEPT ![c] = q], Talks(c, q)', OthersLeftAlone(c), FilesFit
  PROVE  TransferInv'
<1> USE DEF TransferInv
<1>1. /\ conv' \in [Clients -> Conversation] /\ conv'[c] = q
      /\ \A d \in Clients \ {c} : conv'[d] = conv[d]
  OBVIOUS
<1>2. ASSUME NEW d \in Clients \ {c} PROVE Talks(d, conv[d])'
  <2>1. PICK p \in Conversation : p = conv[d] /\ p = conv'[d] /\ Talks(d, p)
    BY <1>1
  <2>2. /\ partial'[d] = partial[d] /\ (Good(d) => Good(d)')
        /\ server' = [at |-> "receive", peer |-> d] <=> server = [at |-> "receive", peer |-> d]
        /\ server' = [at |-> "open", peer |-> d] => server = [at |-> "open", peer |-> d]
        /\ server = [at |-> "receive", peer |-> d] => partial'[Server] = partial[Server]
    BY DEF OthersLeftAlone
  <2>3. Talks(d, p)'
    BY <2>1, <2>2 DEF Talks
  <2>. QED
    BY <2>1, <2>3 DEF Talks
<1>3. Talks(c, conv[c])'
  BY <1>1 DEF Talks
<1>. QED
  BY <1>1, <1>2, <1>3 DEF FilesFit

LEMMA FilesStay ==
  ASSUME TransferInv, UNCHANGED <<file, marks>>,
         partial' = [h \in Holders |-> partial'[h]],
         server' \in ServerPlaces, server'.at = "open" => server.at = "open" \/ file[Server] # NoFile
  PROVE  FilesFit /\ \A h \in Holders : Good(h) => Good(h)'
BY DEF TransferInv, FilesFit, Good, Holders, marks

LEMMA ServerAt ==
  ASSUME NEW c \in Clients, NEW d \in Clients
  PROVE  /\ Accepting \in ServerPlaces /\ Accepting.at = "accept"
         /\ Accepting # [at |-> "receive", peer |-> d] /\ Accepting # [at |-> "open", peer |-> d]
         /\ [at |-> "receive", peer |-> c] # [at |-> "open", peer |-> d]
         /\ [at |-> "receive", peer |-> c] \in ServerPlaces
         /\ [at |-> "open", peer |-> c] \in ServerPlaces
         /\ [at |-> "receive", peer |-> c] = [at |-> "receive", peer |-> d] => c = d
         /\ [at |-> "open", peer |-> c] = [at |-> "open", peer |-> d] => c = d
BY DEF Accepting, ServerPlaces

LEMMA NoConvFits ==
  /\ NoConv \in Conversation /\ NoConv.at = "idle" /\ NoConv.wire = <<>> /\ NoConv.kind = "download"
  /\ NoConv.closed = FALSE
  /\ \A c \in Clients : server' # [at |-> "receive", peer |-> c] => Talks(c, NoConv)'
<1>1. /\ NoConv \in Conversation /\ NoConv.at = "idle" /\ NoConv.wire = <<>>
      /\ NoConv.kind = "download" /\ NoConv.closed = FALSE
  BY EmptySeq DEF NoConv, Conversation
<1>2. PICK q : q = NoConv /\ q.at = "idle" /\ q.wire = <<>> /\ q.kind = "download"
        /\ q.closed = FALSE
  BY <1>1
<1>3. \A c \in Clients : server' # [at |-> "receive", peer |-> c] => Talks(c, q)'
  BY <1>2 DEF Talks
<1>. QED
  BY <1>1, <1>2, <1>3

(* Talking again from the beginning, as after a refusal or at the end.     *)
LEMMA ConversationEnds ==
  ASSUME TransferInv, NEW c \in Clients, conv' = [conv EXCEPT ![c] = NoConv],
         server' # [at |-> "receive", peer |-> c], OthersLeftAlone(c), FilesFit
  PROVE  TransferInv'
<1>1. PICK q \in Conversation : q = NoConv /\ Talks(c, q)'
  BY NoConvFits
<1>. QED
  BY <1>1, TalkKeeps

LEMMA VersionsAreFiles ==
  \A v \in Whole : v \in Seq(Bytes) /\ Len(v) \in Nat /\ Len(v) > 0 /\ PartOf(v, FALSE)
<1> SUFFICES ASSUME NEW x \in Versions PROVE Block(x) \in Seq(Bytes) /\ Len(Block(x)) > 0
  BY LenProperties DEF Whole, PartOf, Begins
<1>1. Size[x] \in Nat \ {0}
  BY SizeAssumption
<1>2. \A i \in 1 .. Size[x] : <<x, i>> \in Bytes
  BY <1>1 DEF Bytes
<1>3. Block(x) \in [1 .. Size[x] -> Bytes]
  BY <1>2 DEF Block
<1>. QED
  BY <1>1, <1>3

LEMMA ErrorIsBytes == ErrorMessage \in Seq(Bytes)
<1>1. ErrorSize \in Nat
  BY SizeAssumption
<1>2. \A i \in 1 .. ErrorSize : <<NoFile, i>> \in Bytes
  BY <1>1 DEF Bytes
<1>3. ErrorMessage \in [1 .. ErrorSize -> Bytes]
  BY <1>2 DEF ErrorMessage
<1>. QED
  BY <1>1, <1>3

LEMMA TransferBegins == TransferInit => TransferInv
<1> SUFFICES ASSUME TransferInit PROVE TransferInv
  OBVIOUS
<1>1. PICK q \in Conversation : q = NoConv /\ q.at = "idle" /\ q.wire = <<>> /\ q.kind = "download"
        /\ q.closed = FALSE
  BY NoConvFits
<1>2. conv \in [Clients -> Conversation] /\ \A c \in Clients : conv[c] = q
  BY <1>1 DEF TransferInit
<1>3. server = Accepting
  BY DEF TransferInit
<1>4. \A c \in Clients : Talks(c, conv[c])
  BY <1>1, <1>2, <1>3, ServerAt DEF Talks
<1>. QED
  BY <1>2, <1>3, <1>4 DEF TransferInv, TransferInit, Accepting, ServerPlaces

LEMMA TransferStays ==
  ASSUME TransferInv, UNCHANGED transferVars
  PROVE  TransferInv'
BY DEF transferVars, marks, TransferInv, Talks, Good

(* A new version, while the old one may be on its way.                     *)
LEMMA RewriteKeeps ==
  ASSUME TransferInv, NEW h \in Holders, Rewrite(h)
  PROVE  TransferInv'
<1> USE DEF TransferInv
<1>1. PICK w \in Whole : file' = [file EXCEPT ![h] = w]
  BY DEF Rewrite
<1>2. file' = [x \in Holders |-> file'[x]] /\ file'[h] = w
  BY <1>1
<1>3. Good(h)'
  BY <1>2, VersionsAreFiles DEF Good, PartOf
<1>4. ASSUME NEW x \in Holders \ {h} PROVE file'[x] = file[x] /\ (Good(x) => Good(x)')
  <2>1. file'[x] = file[x] /\ (x \in cut' <=> x \in cut) /\ (x \in garbled' <=> x \in garbled)
    BY <1>1 DEF Rewrite
  <2>. QED
    BY <2>1 DEF Good
<1>5. \A x \in Holders : Good(x) => Good(x)'
  BY <1>3, <1>4
<1>6. ASSUME NEW c \in Clients PROVE Talks(c, conv[c])'
  BY <1>5 DEF Rewrite, Talks, Holders
<1>. QED
  BY <1>2, <1>3, <1>4, <1>5, <1>6 DEF Rewrite, Holders

LEMMA AskKeeps ==
  ASSUME TransferInv, NEW c \in Clients, Ask(c)
  PROVE  TransferInv'
<1> USE DEF TransferInv
<1>1. conv[c] \in Conversation /\ conv[c].at = "idle" /\ Talks(c, conv[c]) /\ c \in Holders
      /\ conv[c].wire = <<>> /\ ~conv[c].closed /\ conv[c].kind = "download"
      /\ server # [at |-> "receive", peer |-> c]
  BY DEF Ask, Talks, Holders
<1>2. PICK q \in Conversation :
        /\ conv' = [conv EXCEPT ![c] = q] /\ q.at = "asked" /\ q.wire = conv[c].wire
        /\ q.closed = conv[c].closed
        /\ q.kind = "upload" => Good(c) /\ q.expects > 0
  <2>1. ASSUME conv' = [conv EXCEPT ![c].at = "asked"]
        PROVE  \E q \in Conversation :
                 /\ conv' = [conv EXCEPT ![c] = q] /\ q.at = "asked" /\ q.wire = conv[c].wire
                 /\ q.closed = conv[c].closed
                 /\ q.kind = "download"
    <3> DEFINE q == [conv[c] EXCEPT !.at = "asked"]
    <3>1. /\ q \in Conversation /\ q.at = "asked" /\ q.wire = conv[c].wire
          /\ q.kind = "download" /\ q.closed = conv[c].closed
      BY <1>1 DEF Conversation
    <3>. QED
      BY <2>1, <3>1
  <2>2. ASSUME file[c] # NoFile,
               conv' = [conv EXCEPT ![c].at = "asked", ![c].kind = "upload",
                                    ![c].expects = Len(file[c])]
        PROVE  \E q \in Conversation :
                 /\ conv' = [conv EXCEPT ![c] = q] /\ q.at = "asked" /\ q.wire = conv[c].wire
                 /\ q.closed = conv[c].closed
                 /\ Good(c) /\ q.expects > 0
    <3> DEFINE q == [conv[c] EXCEPT !.at = "asked", !.kind = "upload", !.expects = Len(file[c])]
    <3>1. Good(c) /\ Len(file[c]) \in Nat /\ Len(file[c]) > 0
      BY <1>1, <2>2, LenProperties DEF Good
    <3>2. /\ q \in Conversation /\ q.at = "asked" /\ q.wire = conv[c].wire
          /\ q.expects = Len(file[c]) /\ q.closed = conv[c].closed
      BY <1>1, <3>1 DEF Conversation
    <3>. QED
      BY <2>2, <3>1, <3>2
  <2>. QED
    BY <2>1, <2>2 DEF Ask
<1>3. FilesFit /\ \A h \in Holders : Good(h) => Good(h)'
  BY FilesStay DEF Ask
<1>4. OthersLeftAlone(c)
  BY <1>3 DEF Ask, OthersLeftAlone, Holders
<1>5. Talks(c, q)'
  BY <1>1, <1>2, <1>3 DEF Ask, Talks
<1>. QED
  BY <1>2, <1>3, <1>4, <1>5, TalkKeeps

LEMMA ServeDownloadKeeps ==
  ASSUME TransferInv, NEW c \in Clients, NEW resolved, ServeDownload(c, resolved)
  PROVE  TransferInv'
<1> USE DEF TransferInv
<1>1. /\ conv[c] \in Conversation /\ Talks(c, conv[c]) /\ c \in Holders /\ Server \in Holders
      /\ conv[c].wire = <<>> /\ ~conv[c].closed
      /\ conv[c].at = "asked" /\ conv[c].kind = "download"
      /\ server.at = "accept" /\ \A d \in Clients : server # [at |-> "receive", peer |-> d]
  BY DEF ServeDownload, Talks, Holders
<1>2. CASE resolved /\ file[Server] # NoFile
  <2>1. /\ server' = [at |-> "open", peer |-> c]
        /\ conv' = [conv EXCEPT ![c].at = "receive", ![c].expects = Len(file[Server])]
        /\ partial' = [partial EXCEPT ![c] = <<>>] /\ UNCHANGED <<file, marks>>
    BY <1>2 DEF ServeDownload
  <2>2. Good(Server) /\ Len(file[Server]) \in Nat /\ Len(file[Server]) > 0
    BY <1>1, <1>2, LenProperties DEF Good
  <2>3. PICK q \in Conversation :
          /\ conv' = [conv EXCEPT ![c] = q] /\ q.at = "receive" /\ q.wire = <<>>
          /\ q.kind = "download" /\ q.expects > 0 /\ ~q.closed
    <3> DEFINE q == [conv[c] EXCEPT !.at = "receive", !.expects = Len(file[Server])]
    <3>1. /\ q \in Conversation /\ q.at = "receive" /\ q.wire = <<>>
          /\ q.kind = "download" /\ q.expects = Len(file[Server]) /\ q.closed = conv[c].closed
      BY <1>1, <2>2 DEF Conversation
    <3>. QED
      BY <1>1, <2>1, <2>2, <3>1
  <2>4. FilesFit /\ \A h \in Holders : Good(h) => Good(h)'
    BY <1>2, <2>1, FilesStay, ServerAt
  <2>5. OthersLeftAlone(c)
    BY <1>1, <2>1, <2>4, ServerAt DEF OthersLeftAlone, Holders
  <2>6. Talks(c, q)'
    <3>1. partial'[c] = <<>> /\ <<>> \in Seq(Bytes)
      BY <1>1, <2>1, EmptySeq
    <3>2. server' # [at |-> "receive", peer |-> c]
      BY <2>1, ServerAt
    <3>. QED
      BY <2>3, <3>1, <3>2 DEF Talks, Arrives
  <2>. QED
    BY <2>3, <2>4, <2>5, <2>6, TalkKeeps
<1>3. CASE ~(resolved /\ file[Server] # NoFile)
  <2>1. conv' = [conv EXCEPT ![c] = NoConv] /\ UNCHANGED <<server, partial, file, marks>>
    BY <1>3 DEF ServeDownload
  <2>2. FilesFit /\ \A h \in Holders : Good(h) => Good(h)'
    BY <2>1, FilesStay
  <2>3. OthersLeftAlone(c)
    BY <2>1, <2>2 DEF OthersLeftAlone, Holders
  <2>. QED
    BY <1>1, <2>1, <2>2, <2>3, ConversationEnds
<1>. QED
  BY <1>2, <1>3

LEMMA ServeUploadKeeps ==
  ASSUME TransferInv, NEW c \in Clients, ServeUpload(c)
  PROVE  TransferInv'
<1> USE DEF TransferInv
<1>1. /\ conv[c] \in Conversation /\ Talks(c, conv[c]) /\ c \in Holders /\ Server \in Holders
      /\ conv[c].wire = <<>> /\ ~conv[c].closed /\ Good(c) /\ conv[c].expects > 0
      /\ conv[c].at = "asked" /\ conv[c].kind = "upload"
      /\ server.at = "accept" /\ \A d \in Clients : server # [at |-> "receive", peer |-> d]
  BY DEF ServeUpload, Talks, Holders
<1>2. CASE Uploads
  <2>1. /\ server' = [at |-> "receive", peer |-> c] /\ conv' = [conv EXCEPT ![c].at = "open"]
        /\ partial' = [partial EXCEPT ![Server] = <<>>] /\ UNCHANGED <<file, marks>>
    BY <1>2 DEF ServeUpload
  <2>2. PICK q \in Conversation :
          /\ conv' = [conv EXCEPT ![c] = q] /\ q.at = "open" /\ q.wire = <<>>
          /\ q.kind = "upload" /\ q.expects > 0 /\ ~q.closed
    <3> DEFINE q == [conv[c] EXCEPT !.at = "open"]
    <3>1. /\ q \in Conversation /\ q.at = "open" /\ q.wire = <<>>
          /\ q.kind = "upload" /\ q.expects > 0 /\ ~q.closed
      BY <1>1 DEF Conversation
    <3>. QED
      BY <2>1, <3>1
  <2>3. FilesFit /\ \A h \in Holders : Good(h) => Good(h)'
    BY <2>1, FilesStay, ServerAt
  <2>4. OthersLeftAlone(c)
    BY <1>1, <2>1, <2>3, ServerAt, HoldersAssumption DEF OthersLeftAlone, Holders
  <2>5. partial'[Server] = <<>> /\ <<>> \in Seq(Bytes) /\ Good(c)'
    BY <1>1, <2>1, <2>3, EmptySeq
  <2>6. Talks(c, q)'
    BY <2>1, <2>2, <2>5 DEF Talks, Arrives
  <2>. QED
    BY <2>2, <2>3, <2>4, <2>6, TalkKeeps
<1>3. CASE ~Uploads
  <2>1. conv' = [conv EXCEPT ![c] = NoConv] /\ UNCHANGED <<server, partial, file, marks>>
    BY <1>3 DEF ServeUpload
  <2>2. FilesFit /\ \A h \in Holders : Good(h) => Good(h)'
    BY <2>1, FilesStay
  <2>3. OthersLeftAlone(c)
    BY <2>1, <2>2 DEF OthersLeftAlone, Holders
  <2>. QED
    BY <1>1, <2>1, <2>2, <2>3, ConversationEnds
<1>. QED
  BY <1>2, <1>3

(* What is sent of a file, to its end or to an error.                      *)
LEMMA WhatIsSent ==
  ASSUME NEW c \in Clients, NEW h \in Holders, NEW n \in 0 .. Len(file[h]), Good(h)
  PROVE  /\ SubSeq(file[h], 1, n) \in Seq(Bytes)
         /\ SubSeq(file[h], 1, n) \o ErrorMessage \in Seq(Bytes)
         /\ h \in garbled \/ MakesUp(<<>>, SubSeq(file[h], 1, n), conv[c].expects, Cut(c, h))
<1>1. file[h] \in Seq(Bytes) /\ Len(file[h]) \in Nat /\ n \in Nat /\ n <= Len(file[h])
  BY LenProperties DEF Good
<1>2. PICK s : s = SubSeq(file[h], 1, n)
  OBVIOUS
<1>3. s \in Seq(Bytes) /\ Len(s) = n /\ \A i \in 1 .. n : s[i] = file[h][i]
  <2>1. \A i \in 1 .. n : file[h][i] \in Bytes
    BY <1>1, ElementOfSeq
  <2>. QED
    BY <1>1, <1>2, <2>1, SubSeqProperties
<1>4. s \o ErrorMessage \in Seq(Bytes)
  BY <1>3, ErrorIsBytes, ConcatProperties
<1>5. ASSUME h \notin garbled PROVE MakesUp(<<>>, s, conv[c].expects, Cut(c, h))
  <2>1. PICK v \in Whole : /\ v \in Seq(Bytes) /\ Len(v) \in Nat /\ Len(file[h]) <= Len(v)
                           /\ \A i \in 1 .. Len(file[h]) : file[h][i] = v[i]
                           /\ h \in cut \/ Len(file[h]) = Len(v)
    BY <1>5, VersionsAreFiles DEF Good, PartOf, Begins
  <2>2. Cut(c, h) \/ Len(v) = conv[c].expects
    BY <2>1 DEF Cut
  <2>3. Len(<<>>) = 0
    OBVIOUS
  <2>. QED
    BY <1>1, <1>3, <2>1, <2>2, <2>3 DEF MakesUp
<1>. QED
  BY <1>2, <1>3, <1>4, <1>5

LEMMA SendDownloadKeeps ==
  ASSUME TransferInv, NEW c \in Clients, SendDownload(c)
  PROVE  TransferInv'
<1> USE DEF TransferInv
<1>1. /\ conv[c] \in Conversation /\ Talks(c, conv[c]) /\ c \in Holders /\ Server \in Holders
      /\ server = [at |-> "open", peer |-> c] /\ server' = Accepting /\ Good(Server)
      /\ UNCHANGED <<file, partial, marks>>
  BY DEF SendDownload, Holders
<1>2. FilesFit /\ \A h \in Holders : Good(h) => Good(h)'
  BY <1>1, FilesStay, ServerAt
<1>3. OthersLeftAlone(c)
  BY <1>1, <1>2, ServerAt DEF OthersLeftAlone, Holders
<1>4. CASE conv[c].at # "receive"
  <2>1. conv' = [conv EXCEPT ![c] = conv[c]]
    BY <1>4 DEF SendDownload
  <2>2. PICK q \in Conversation : q = conv[c]
    BY <1>1
  <2>3. Talks(c, q)'
    BY <1>1, <1>2, <1>4, <2>2, ServerAt DEF Talks
  <2>. QED
    BY <1>2, <1>3, <2>1, <2>2, <2>3, TalkKeeps
<1>5. CASE conv[c].at = "receive"
  <2>1. PICK n \in 0 .. Len(file[Server]) :
          conv' = [conv EXCEPT ![c].wire = SubSeq(file[Server], 1, n)
                                             \o (IF n < Len(file[Server]) THEN ErrorMessage ELSE <<>>),
                               ![c].closed = TRUE, ![c].cut = Cut(c, Server),
                               ![c].garbled = n < Len(file[Server]) \/ Server \in garbled]
    BY <1>5 DEF SendDownload
  <2>2. PICK w : w = SubSeq(file[Server], 1, n)
                       \o (IF n < Len(file[Server]) THEN ErrorMessage ELSE <<>>)
    OBVIOUS
  <2> DEFINE spoilt == n < Len(file[Server]) \/ Server \in garbled
  <2>3. w \in Seq(Bytes) /\ (spoilt \/ MakesUp(<<>>, w, conv[c].expects, Cut(c, Server)))
    <3>1. CASE n < Len(file[Server])
      <4>1. w = SubSeq(file[Server], 1, n) \o ErrorMessage
        BY <2>2, <3>1
      <4>. QED
        BY <1>1, <3>1, <4>1, WhatIsSent
    <3>2. CASE ~(n < Len(file[Server]))
      <4>1. w = SubSeq(file[Server], 1, n)
        BY <1>1, <2>2, <3>2, WhatIsSent, ConcatEmptySeq
      <4>. QED
        BY <1>1, <4>1, WhatIsSent
    <3>. QED
      BY <3>1, <3>2
  <2>4. PICK q \in Conversation :
          /\ conv' = [conv EXCEPT ![c] = q] /\ q.at = "receive" /\ q.wire = w /\ q.closed
          /\ q.kind = conv[c].kind /\ q.expects = conv[c].expects
          /\ q.cut = Cut(c, Server) /\ q.garbled = spoilt
    <3> DEFINE q == [conv[c] EXCEPT !.wire = w, !.closed = TRUE, !.cut = Cut(c, Server),
                                    !.garbled = spoilt]
    <3>1. Cut(c, Server) \in BOOLEAN /\ spoilt \in BOOLEAN
      BY DEF Cut
    <3>2. /\ q \in Conversation /\ q.at = "receive" /\ q.wire = w /\ q.closed
          /\ q.kind = conv[c].kind /\ q.expects = conv[c].expects
          /\ q.cut = Cut(c, Server) /\ q.garbled = spoilt
      <4> HIDE DEF spoilt
      <4>. QED
        BY <1>1, <1>5, <2>3, <3>1 DEF Conversation
    <3>. QED
      BY <2>1, <2>2, <3>2
  <2>5. /\ ~conv[c].closed /\ partial[c] = <<>> /\ partial[c] \in Seq(Bytes)
        /\ conv[c].kind = "download" /\ conv[c].expects > 0
    BY <1>1, <1>5 DEF Talks, Arrives
  <2>6. Arrives(partial[c], q)
    BY <2>3, <2>4, <2>5 DEF Arrives
  <2>7. Talks(c, q)'
    BY <1>1, <2>4, <2>5, <2>6, ServerAt DEF Talks
  <2>. QED
    BY <1>2, <1>3, <2>4, <2>7, TalkKeeps
<1>. QED
  BY <1>4, <1>5

LEMMA SendUploadKeeps ==
  ASSUME TransferInv, NEW c \in Clients, SendUpload(c)
  PROVE  TransferInv'
<1> USE DEF TransferInv
<1>1. /\ conv[c] \in Conversation /\ Talks(c, conv[c]) /\ c \in Holders /\ conv[c].at = "open"
      /\ UNCHANGED <<file, partial, server, marks>>
  BY DEF SendUpload, Holders
<1>2. /\ server = [at |-> "receive", peer |-> c] /\ partial[Server] = <<>>
      /\ partial[Server] \in Seq(Bytes)
      /\ conv[c].kind = "upload" /\ conv[c].expects > 0 /\ Good(c)
  BY <1>1 DEF Talks, Arrives
<1>3. FilesFit /\ \A h \in Holders : Good(h) => Good(h)'
  BY <1>1, FilesStay
<1>4. OthersLeftAlone(c)
  BY <1>1, <1>3 DEF OthersLeftAlone, Holders
<1>5. PICK n \in 0 .. Len(file[c]) :
        conv' = [conv EXCEPT ![c].wire = SubSeq(file[c], 1, n), ![c].closed = n < Len(file[c]),
                             ![c].cut = Cut(c, c), ![c].garbled = c \in garbled,
                             ![c].at = IF n < Len(file[c]) THEN "gone" ELSE "await"]
  BY DEF SendUpload
<1>6. PICK w : w = SubSeq(file[c], 1, n)
  OBVIOUS
<1>7. w \in Seq(Bytes) /\ (c \in garbled \/ MakesUp(<<>>, w, conv[c].expects, Cut(c, c)))
  BY <1>1, <1>2, <1>6, WhatIsSent
<1>8. PICK q \in Conversation :
        /\ conv' = [conv EXCEPT ![c] = q] /\ q.at \in {"gone", "await"} /\ q.wire = w
        /\ q.kind = "upload" /\ q.expects = conv[c].expects
        /\ q.cut = Cut(c, c) /\ q.garbled = (c \in garbled)
  <2> DEFINE q == [conv[c] EXCEPT !.wire = w, !.closed = n < Len(file[c]),
                                  !.cut = Cut(c, c), !.garbled = c \in garbled,
                                  !.at = IF n < Len(file[c]) THEN "gone" ELSE "await"]
  <2>1. /\ Cut(c, c) \in BOOLEAN /\ (c \in garbled) \in BOOLEAN
        /\ (n < Len(file[c])) \in BOOLEAN
    BY DEF Cut
  <2>2. /\ q \in Conversation /\ q.at \in {"gone", "await"} /\ q.wire = w
        /\ q.kind = "upload" /\ q.expects = conv[c].expects
        /\ q.cut = Cut(c, c) /\ q.garbled = (c \in garbled)
    BY <1>1, <1>2, <1>7, <2>1 DEF Conversation
  <2>. QED
    BY <1>5, <1>6, <2>2
<1>9. Arrives(partial[Server], q)
  BY <1>2, <1>7, <1>8 DEF Arrives
<1>10. Talks(c, q)'
  BY <1>1, <1>2, <1>8, <1>9 DEF Talks
<1>. QED
  BY <1>3, <1>4, <1>8, <1>10, TalkKeeps

(* Of a conversation that receives: where, and who else is not concerned.  *)
LEMMA ReceiverOf ==
  ASSUME TransferInv, NEW c \in Clients, Receiving(c)
  PROVE  /\ conv[c] \in Conversation /\ Talks(c, conv[c]) /\ Receiver(c) \in Holders
         /\ Arrives(partial[Receiver(c)], conv[c])
         /\ \/ /\ conv[c].kind = "download" /\ Receiver(c) = c /\ conv[c].at = "receive"
               /\ server # [at |-> "receive", peer |-> c]
            \/ /\ conv[c].kind = "upload" /\ Receiver(c) = Server
               /\ server = [at |-> "receive", peer |-> c]
               /\ conv[c].at \in {"open", "await", "gone"}
         /\ \A d \in Clients \ {c} :
              Receiver(c) = d \/ (Receiver(c) = Server /\ server = [at |-> "receive", peer |-> d])
                => FALSE
<1> USE DEF TransferInv
<1>1. conv[c] \in Conversation /\ Talks(c, conv[c])
  OBVIOUS
<1>2. CASE conv[c].kind = "download"
  <2>1. Receiver(c) = c /\ conv[c].at = "receive" /\ c # Server
    BY <1>2, HoldersAssumption DEF Receiver, Receiving
  <2>2. server # [at |-> "receive", peer |-> c] /\ Arrives(partial[c], conv[c])
    BY <1>1, <2>1 DEF Talks
  <2>. QED
    BY <1>1, <1>2, <2>1, <2>2 DEF Holders
<1>3. CASE conv[c].kind # "download"
  <2>1. conv[c].kind = "upload"
    BY <1>1, <1>3 DEF Conversation
  <2>2. Receiver(c) = Server /\ server = [at |-> "receive", peer |-> c] /\ Server \notin Clients
    BY <1>3, HoldersAssumption DEF Receiver, Receiving
  <2>3. conv[c].at \in {"open", "await", "gone"} /\ Arrives(partial[Server], conv[c])
    BY <1>1, <2>2 DEF Talks
  <2>. QED
    BY <1>1, <2>1, <2>2, <2>3, ServerAt DEF Holders
<1>. QED
  BY <1>2, <1>3

(* One block more is there, and one less under way.                        *)
LEMMA BlockArrives ==
  ASSUME NEW p \in Seq(Bytes), NEW w \in Seq(Bytes), w # <<>>,
         NEW r \in Conversation
  PROVE  /\ Append(p, Head(w)) \in Seq(Bytes) /\ Tail(w) \in Seq(Bytes)
         /\ MakesUp(p, w, r.expects, r.cut) => MakesUp(Append(p, Head(w)), Tail(w), r.expects, r.cut)
<1>1. /\ Head(w) \in Bytes /\ Tail(w) \in Seq(Bytes) /\ Len(Tail(w)) = Len(w) - 1
      /\ Head(w) = w[1] /\ \A i \in 1 .. Len(w) - 1 : Tail(w)[i] = w[i + 1]
      /\ Len(w) \in Nat /\ Len(w) > 0 /\ Len(p) \in Nat
  BY HeadTailProperties, LenProperties, EmptySeq
<1>2. PICK b \in Bytes, t \in Seq(Bytes) : b = Head(w) /\ t = Tail(w)
  BY <1>1
<1>3. /\ Append(p, b) \in Seq(Bytes) /\ Len(Append(p, b)) = Len(p) + 1
      /\ \A i \in 1 .. Len(p) : Append(p, b)[i] = p[i]
      /\ Append(p, b)[Len(p) + 1] = b
  BY <1>1, <1>2, AppendProperties
<1>4. PICK a \in Seq(Bytes) : a = Append(p, b)
  BY <1>3
<1>5. ASSUME MakesUp(p, w, r.expects, r.cut)
      PROVE  MakesUp(a, t, r.expects, r.cut)
  <2>1. PICK v \in Whole :
          /\ v \in Seq(Bytes) /\ Len(p) + Len(w) <= Len(v) /\ (r.cut \/ Len(v) = r.expects)
          /\ \A i \in 1 .. Len(p) : p[i] = v[i]
          /\ \A i \in 1 .. Len(w) : w[i] = v[Len(p) + i]
    BY <1>5 DEF MakesUp
  <2>2. Len(a) = Len(p) + 1 /\ Len(t) = Len(w) - 1 /\ Len(a) + Len(t) <= Len(v)
    BY <1>1, <1>2, <1>3, <1>4, <2>1
  <2>3. \A i \in 1 .. Len(a) : a[i] = v[i]
    <3> SUFFICES ASSUME NEW i \in 1 .. Len(a) PROVE a[i] = v[i]
      OBVIOUS
    <3>1. CASE i \in 1 .. Len(p)
      BY <1>3, <1>4, <2>1, <3>1
    <3>2. CASE i = Len(p) + 1
      <4>1. w[1] = v[Len(p) + 1]
        BY <1>1, <2>1
      <4>. QED
        BY <1>1, <1>2, <1>3, <1>4, <3>2, <4>1
    <3>. QED
      BY <1>1, <2>2, <3>1, <3>2
  <2>4. \A i \in 1 .. Len(t) : t[i] = v[Len(a) + i]
    <3> SUFFICES ASSUME NEW i \in 1 .. Len(t) PROVE t[i] = v[Len(a) + i]
      OBVIOUS
    <3>1. i + 1 \in 1 .. Len(w) /\ t[i] = w[i + 1]
      BY <1>1, <1>2, <2>2
    <3>2. w[i + 1] = v[Len(p) + (i + 1)]
      BY <2>1, <3>1
    <3>3. Len(p) + (i + 1) = Len(a) + i
      BY <1>1, <2>2
    <3>. QED
      BY <3>1, <3>2, <3>3
  <2>. QED
    BY <2>1, <2>2, <2>3, <2>4 DEF MakesUp
<1>. QED
  BY <1>1, <1>2, <1>3, <1>4, <1>5

LEMMA AllArrived ==
  ASSUME NEW p \in Seq(Bytes), NEW w \in Seq(Bytes), NEW n, NEW k,
         Len(p) = n, MakesUp(p, w, n, k)
  PROVE  PartOf(p, k)
<1>1. PICK v \in Whole :
        /\ v \in Seq(Bytes) /\ Len(p) + Len(w) <= Len(v) /\ (k \/ Len(v) = n)
        /\ \A i \in 1 .. Len(p) : p[i] = v[i]
  BY DEF MakesUp
<1>2. Len(p) \in Nat /\ Len(w) \in Nat /\ Len(v) \in Nat
  BY <1>1, LenProperties
<1>. QED
  BY <1>1, <1>2 DEF PartOf, Begins

LEMMA ReceiveBlockKeeps ==
  ASSUME TransferInv, NEW c \in Clients, ReceiveBlock(c)
  PROVE  TransferInv'
<1> USE DEF TransferInv
<1>1. PICK h \in Holders, t \in Conversation :
        /\ h = Receiver(c) /\ t = conv[c] /\ t.wire # <<>>
        /\ Talks(c, t) /\ Arrives(partial[h], t)
        /\ \/ /\ t.kind = "download" /\ h = c /\ t.at = "receive"
              /\ server # [at |-> "receive", peer |-> c]
           \/ /\ t.kind = "upload" /\ h = Server
              /\ server = [at |-> "receive", peer |-> c]
              /\ t.at \in {"open", "await", "gone"}
        /\ \A d \in Clients \ {c} :
             h = d \/ (h = Server /\ server = [at |-> "receive", peer |-> d]) => FALSE
  BY ReceiverOf DEF ReceiveBlock
<1>2. PICK p : p = partial[h] /\ p \in Seq(Bytes) /\ t.wire \in Seq(Bytes)
  BY <1>1 DEF Arrives, Conversation
<1>3. /\ partial' = [partial EXCEPT ![h] = Append(p, Head(t.wire))]
      /\ conv' = [conv EXCEPT ![c].wire = Tail(t.wire)] /\ UNCHANGED <<file, server, marks>>
  BY <1>1, <1>2 DEF ReceiveBlock
<1>4. PICK a, w : /\ a = Append(p, Head(t.wire)) /\ w = Tail(t.wire)
                  /\ a \in Seq(Bytes) /\ w \in Seq(Bytes)
                  /\ MakesUp(p, t.wire, t.expects, t.cut) => MakesUp(a, w, t.expects, t.cut)
  BY <1>1, <1>2, BlockArrives
<1>5. PICK q \in Conversation :
        /\ conv' = [conv EXCEPT ![c] = q] /\ q.at = t.at /\ q.wire = w
        /\ q.kind = t.kind /\ q.expects = t.expects /\ q.closed = t.closed
        /\ q.cut = t.cut /\ q.garbled = t.garbled
  <2> DEFINE q == [t EXCEPT !.wire = w]
  <2>1. /\ q \in Conversation /\ q.at = t.at /\ q.wire = w
        /\ q.kind = t.kind /\ q.expects = t.expects /\ q.closed = t.closed
        /\ q.cut = t.cut /\ q.garbled = t.garbled
    BY <1>4 DEF Conversation
  <2>. QED
    BY <1>1, <1>3, <1>4, <2>1
<1>6. Arrives(a, q)
  BY <1>1, <1>2, <1>4, <1>5 DEF Arrives
<1>7. partial'[h] = a /\ \A d \in Holders \ {h} : partial'[d] = partial[d]
  BY <1>3, <1>4
<1>8. FilesFit /\ \A d \in Holders : Good(d) => Good(d)'
  BY <1>3, FilesStay
<1>9. OthersLeftAlone(c)
  BY <1>1, <1>3, <1>7, <1>8 DEF OthersLeftAlone, Holders
<1>10. t.at \in {"receive", "await", "gone"} /\ (t.at = "receive" => t.closed)
  BY <1>1 DEF Talks
<1>11. Talks(c, q)'
  BY <1>1, <1>3, <1>5, <1>6, <1>7, <1>10 DEF Talks
<1>. QED
  BY <1>5, <1>8, <1>9, <1>11, TalkKeeps

(* The end of a reception: what the server does afterwards concerns no     *)
(* other conversation.                                                     *)
LEMMA ServerIsDone ==
  ASSUME TransferInv, NEW c \in Clients, Receiving(c), Done(c)
  PROVE  /\ conv' = [conv EXCEPT ![c] = NoConv] /\ server' \in ServerPlaces
         /\ server' # [at |-> "receive", peer |-> c]
         /\ server' = server \/ (server' = Accepting /\ Receiver(c) = Server)
         /\ Receiver(c) = Server => server'.at = "accept"
         /\ \A d \in Clients \ {c} :
              /\ server' = [at |-> "receive", peer |-> d] <=> server = [at |-> "receive", peer |-> d]
              /\ server' = [at |-> "open", peer |-> d] => server = [at |-> "open", peer |-> d]
<1> USE DEF TransferInv
<1>1. conv' = [conv EXCEPT ![c] = NoConv]
  BY DEF Done
<1>2. CASE conv[c].kind = "download"
  <2>1. server' = server /\ server # [at |-> "receive", peer |-> c] /\ Receiver(c) = c
    BY <1>2, ReceiverOf DEF Done
  <2>2. server \in ServerPlaces
    BY DEF FilesFit
  <2>3. c # Server
    BY HoldersAssumption
  <2>. QED
    BY <1>1, <2>1, <2>2, <2>3
<1>3. CASE conv[c].kind = "upload"
  <2>1. /\ server' = Accepting /\ server = [at |-> "receive", peer |-> c]
        /\ Receiver(c) = Server
    BY <1>3, ReceiverOf DEF Done
  <2>. QED
    BY <1>1, <2>1, ServerAt
<1>. QED
  BY <1>2, <1>3, ReceiverOf

LEMMA MoveIntoPlaceKeeps ==
  ASSUME TransferInv, NEW c \in Clients, MoveIntoPlace(c)
  PROVE  TransferInv'
<1> USE DEF TransferInv
<1>1. Receiving(c) /\ Received(c) = conv[c].expects /\ Done(c)
  BY DEF MoveIntoPlace
<1>2. PICK h \in Holders, t \in Conversation :
        /\ h = Receiver(c) /\ t = conv[c] /\ Arrives(partial[h], t) /\ Len(partial[h]) = t.expects
        /\ \A d \in Clients \ {c} :
             h = d \/ (h = Server /\ server = [at |-> "receive", peer |-> d]) => FALSE
  BY <1>1, ReceiverOf DEF Received
<1>3. PICK p : p = partial[h] /\ p \in Seq(Bytes) /\ Len(p) > 0 /\ t.wire \in Seq(Bytes)
  BY <1>2 DEF Arrives, Conversation
<1>4. t.garbled \/ PartOf(p, t.cut)
  <2>1. p # <<>>
    BY <1>3
  <2>. QED
    BY <1>2, <1>3, <2>1, AllArrived DEF Arrives
<1>5. /\ file' = [file EXCEPT ![h] = p] /\ partial' = [partial EXCEPT ![h] = NoFile]
      /\ cut' = IF t.cut THEN cut \cup {h} ELSE cut \ {h}
      /\ garbled' = IF t.garbled THEN garbled \cup {h} ELSE garbled \ {h}
  BY <1>2, <1>3 DEF MoveIntoPlace
<1>6. Good(h)'
  <2>1. file'[h] = p /\ (h \in garbled' <=> t.garbled) /\ (h \in cut' <=> t.cut)
    BY <1>5
  <2>. QED
    BY <1>3, <1>4, <2>1 DEF Good, PartOf
<1>7. ASSUME NEW x \in Holders \ {h}
      PROVE  file'[x] = file[x] /\ partial'[x] = partial[x] /\ (Good(x) => Good(x)')
  <2>1. file'[x] = file[x] /\ partial'[x] = partial[x] /\ (x \in cut' <=> x \in cut) /\ (x \in garbled' <=> x \in garbled)
    BY <1>5
  <2>. QED
    BY <2>1 DEF Good
<1>8. FilesFit
  <2>1. \A x \in Holders : file'[x] = NoFile \/ Good(x)'
    BY <1>6, <1>7
  <2>2. server' \in ServerPlaces /\ (server'.at = "open" => Good(Server)')
    BY <1>1, <1>6, <1>7, ServerIsDone, ServerAt DEF Holders
  <2>. QED
    BY <1>5, <2>1, <2>2 DEF FilesFit
<1>9. OthersLeftAlone(c)
  BY <1>1, <1>2, <1>7, ServerIsDone DEF OthersLeftAlone, Holders
<1>. QED
  BY <1>1, <1>8, <1>9, ServerIsDone, ConversationEnds

LEMMA ReceiveFailsKeeps ==
  ASSUME TransferInv, NEW c \in Clients, ReceiveFails(c)
  PROVE  TransferInv'
<1> USE DEF TransferInv
<1>1. Receiving(c) /\ Done(c) /\ UNCHANGED <<file, marks>>
  BY DEF ReceiveFails
<1>2. PICK h \in Holders :
        /\ h = Receiver(c)
        /\ \A d \in Clients \ {c} :
             h = d \/ (h = Server /\ server = [at |-> "receive", peer |-> d]) => FALSE
  BY <1>1, ReceiverOf
<1>3. partial' = [partial EXCEPT ![h] = NoFile]
  BY <1>2 DEF ReceiveFails
<1>4. FilesFit /\ \A d \in Holders : Good(d) => Good(d)'
  BY <1>1, <1>3, FilesStay, ServerIsDone, ServerAt
<1>5. OthersLeftAlone(c)
  BY <1>1, <1>2, <1>3, <1>4, ServerIsDone DEF OthersLeftAlone, Holders
<1>. QED
  BY <1>1, <1>4, <1>5, ServerIsDone, ConversationEnds

(* A client that leaves an upload leaves what it sent to the server.       *)
LEMMA LeaveKeeps ==
  ASSUME TransferInv, NEW c \in Clients, NEW killed, Leave(c, killed)
  PROVE  TransferInv'
<1> USE DEF TransferInv
<1>1. /\ conv[c] \in Conversation /\ Talks(c, conv[c]) /\ c \in Holders /\ c # Server
      /\ conv[c].at \notin {"idle", "gone"} /\ UNCHANGED <<file, server, marks>>
  BY HoldersAssumption DEF Leave, Holders
<1>2. /\ partial' = [partial EXCEPT ![c] = partial'[c]]
      /\ conv[c].at # "receive" => partial' = partial
  BY <1>1 DEF Leave
<1>3. FilesFit /\ \A d \in Holders : Good(d) => Good(d)'
  BY <1>1, <1>2, FilesStay
<1>4. OthersLeftAlone(c)
  <2>1. \A h \in Holders \ {c} : partial'[h] = partial[h]
    BY <1>1, <1>2
  <2>. QED
    BY <1>1, <1>3, <2>1 DEF OthersLeftAlone, Holders
<1>5. CASE server = [at |-> "receive", peer |-> c]
  <2>1. /\ conv[c].at \in {"open", "await"} /\ conv[c].kind = "upload" /\ partial' = partial
        /\ Arrives(partial[Server], conv[c])
    BY <1>1, <1>2, <1>5 DEF Talks
  <2>2. PICK q \in Conversation :
          /\ conv' = [conv EXCEPT ![c] = q] /\ q.at = "gone" /\ q.kind = "upload"
          /\ q.wire = conv[c].wire /\ q.expects = conv[c].expects /\ q.cut = conv[c].cut /\ q.garbled = conv[c].garbled
    <3> DEFINE q == [conv[c] EXCEPT !.at = "gone", !.closed = TRUE]
    <3>1. /\ q \in Conversation /\ q.at = "gone" /\ q.kind = "upload"
          /\ q.wire = conv[c].wire /\ q.expects = conv[c].expects /\ q.cut = conv[c].cut /\ q.garbled = conv[c].garbled
      BY <1>1, <2>1 DEF Conversation
    <3>. QED
      BY <1>5, <3>1 DEF Leave
  <2>3. Arrives(partial[Server], q)
    BY <2>1, <2>2 DEF Arrives
  <2>4. Talks(c, q)'
    BY <1>1, <1>5, <2>1, <2>2, <2>3 DEF Talks
  <2>. QED
    BY <1>3, <1>4, <2>2, <2>4, TalkKeeps
<1>6. CASE server # [at |-> "receive", peer |-> c]
  BY <1>1, <1>3, <1>4, <1>6, ConversationEnds DEF Leave
<1>. QED
  BY <1>5, <1>6

LEMMA ServerCrashKeeps ==
  ASSUME TransferInv, ServerCrash
  PROVE  TransferInv'
<1> USE DEF TransferInv
<1>1. server' = Accepting /\ UNCHANGED <<file, partial, marks>>
  BY DEF ServerCrash
<1>2. ASSUME NEW c \in Clients
      PROVE  conv'[c] \in Conversation /\ Talks(c, conv[c])'
  <2>1. conv[c] \in Conversation /\ Talks(c, conv[c])
    OBVIOUS
  <2>2. CASE conv[c].at = "receive"
    <3>1. PICK q \in Conversation :
            /\ q = [conv[c] EXCEPT !.closed = TRUE] /\ q.at = "receive" /\ q.closed
            /\ q.kind = conv[c].kind /\ q.wire = conv[c].wire
            /\ q.expects = conv[c].expects /\ q.cut = conv[c].cut /\ q.garbled = conv[c].garbled
      <4> DEFINE r == [conv[c] EXCEPT !.closed = TRUE]
      <4>1. /\ r \in Conversation /\ r.at = "receive" /\ r.closed
            /\ r.kind = conv[c].kind /\ r.wire = conv[c].wire
            /\ r.expects = conv[c].expects /\ r.cut = conv[c].cut /\ r.garbled = conv[c].garbled
        BY <2>1, <2>2 DEF Conversation
      <4>. QED
        BY <4>1
    <3>2. conv'[c] = q
      BY <2>2, <3>1 DEF ServerCrash
    <3>3. Arrives(partial[c], q) /\ q.kind = "download"
      BY <2>1, <2>2, <3>1 DEF Talks, Arrives
    <3>4. Talks(c, q)'
      BY <1>1, <3>1, <3>3, ServerAt DEF Talks
    <3>. QED
      BY <3>2, <3>4 DEF Talks
  <2>3. CASE conv[c].at # "receive"
    <3>1. PICK q \in Conversation : q = NoConv /\ Talks(c, q)'
      BY <1>1, NoConvFits, ServerAt
    <3>2. conv'[c] = q
      BY <2>3, <3>1 DEF ServerCrash
    <3>. QED
      BY <3>1, <3>2 DEF Talks
  <2>. QED
    BY <2>2, <2>3
<1>3. conv' \in [Clients -> Conversation]
  <2>1. conv' = [c \in Clients |-> conv'[c]]
    BY DEF ServerCrash
  <2>. QED
    BY <1>2, <2>1
<1>4. Accepting \in ServerPlaces /\ Accepting.at # "open"
  BY DEF Accepting, ServerPlaces
<1>. QED
  BY <1>1, <1>2, <1>3, <1>4 DEF Good, marks

LEMMA TransferKeeps ==
  ASSUME TransferInv, NEW c \in Clients, NEW resolved,
         TransferStep(c, resolved) \/ Ask(c) \/ Rewrite(c) \/ \E killed \in BOOLEAN : Leave(c, killed)
  PROVE  TransferInv'
<1>1. c \in Holders
  BY DEF Holders
<1>. QED
  BY <1>1, ServeDownloadKeeps, ServeUploadKeeps, SendDownloadKeeps, SendUploadKeeps,
     ReceiveBlockKeeps, MoveIntoPlaceKeeps, ReceiveFailsKeeps, AskKeeps, RewriteKeeps,
     LeaveKeeps
     DEF TransferStep

-----------------------------------------------------------------------------
(* The composition: a sensing process saves an entity by writing the file  *)
(* the server hands out; otherwise the two parts leave each other alone.   *)
FilesInv == WorkspaceInv /\ TransferInv

LEMMA FilesBegin == FilesInit => FilesInv
BY WorkspaceBegins, TransferBegins DEF FilesInit, FilesInv

LEMMA FilesKeep == FilesInv /\ [FilesNext]_filesVars => FilesInv'
<1> SUFFICES ASSUME FilesInv, [FilesNext]_filesVars PROVE FilesInv'
  OBVIOUS
<1> USE DEF FilesInv
<1>1. CASE UNCHANGED filesVars
  BY <1>1, WorkspaceStays, TransferStays DEF filesVars
<1>2. CASE SensingStep
  <2>1. ASSUME NEW s \in Sessions, SessionStep(s), UNCHANGED transferVars PROVE FilesInv'
    BY <2>1, SessionKeeps, TransferStays
  <2>2. ASSUME NEW s \in Sessions, SaveEntity(s), Rewrite(Server) PROVE FilesInv'
    BY <2>2, SessionKeeps, RewriteKeeps DEF Holders
  <2>3. ASSUME NEW s \in Sessions, StartSession(s) \/ EndSession(s), UNCHANGED transferVars
        PROVE  FilesInv'
    BY <2>3, SessionKeeps, TransferStays
  <2>. QED
    BY <1>2, <2>1, <2>2, <2>3 DEF SensingStep
<1>3. CASE FileStep
  <2>1. WorkspaceInv'
    BY <1>3, WorkspaceStays DEF FileStep
  <2>2. TransferInv'
    BY <1>3, TransferKeeps, ServerCrashKeeps DEF FileStep
  <2>. QED
    BY <2>1, <2>2
<1>4. CASE \E c \in Clients : QueryEntities(c)
  BY <1>4, WorkspaceStays, TransferStays DEF QueryEntities
<1>. QED
  BY <1>1, <1>2, <1>3, <1>4 DEF FilesNext

(* The strengthened invariant of workspaces and transfers, whoever is      *)
(* killed between any two steps.                                           *)
THEOREM FilesInvariance == FilesSpec => []FilesInv
BY FilesBegin, FilesKeep, PTL DEF FilesSpec

(* What a pointer names, or holds something saved, can be opened and       *)
(* served (init_workspace, load_workspace, ensure_domain, ensure_entry).   *)
THEOREM NamedCanBeOpened == FilesSpec => []WorkspaceIsSound
<1>1. FilesInv => WorkspaceIsSound
  BY DEF FilesInv, WorkspaceInv, NamedIsWhole, WorkspaceIsSound, Resolvable
<1>. QED
  BY <1>1, FilesInvariance, PTL

(* Sessions that allocated one after the other have entries of their own   *)
(* (EntryAllocator.allocate).                                              *)
THEOREM EntriesAreApart == FilesSpec => []EntryInTurn
<1>1. FilesInv => EntryInTurn
  BY DEF FilesInv, WorkspaceInv, Apart, New, EntryInTurn
<1>. QED
  BY <1>1, FilesInvariance, PTL

(* A beginning of a version, position by position, is one.                 *)
LEMMA PartIsBeginning ==
  ASSUME NEW h \in Holders, file[h] \in Seq(Bytes), Len(file[h]) > 0, NEW k, PartOf(file[h], k)
  PROVE  file[h] \in Whole \/ (k /\ Beginning(h))
<1>1. PICK v \in Whole : /\ v \in Seq(Bytes) /\ Len(file[h]) <= Len(v)
                         /\ \A i \in 1 .. Len(file[h]) : file[h][i] = v[i]
                         /\ k \/ Len(file[h]) = Len(v)
  BY DEF PartOf, Begins
<1>2. PICK x \in Versions : v = Block(x)
  BY <1>1 DEF Whole
<1>3. PICK n : n = Len(file[h]) /\ n \in Nat /\ n > 0
  BY LenProperties
<1>4. Size[x] \in Nat /\ Len(v) = Size[x] /\ \A i \in 1 .. Size[x] : v[i] = <<x, i>>
  BY <1>2, SizeAssumption DEF Block
<1>5. CASE n = Len(v)
  BY <1>1, <1>3, <1>5, SeqEqual
<1>6. CASE n # Len(v)
  <2>1. k /\ n \in 1 .. Size[x]
    BY <1>1, <1>3, <1>4, <1>6
  <2>2. PICK s : s = SubSeq(v, 1, n)
    OBVIOUS
  <2>3. \A i \in 1 .. n : v[i] \in Bytes
    BY <1>1, <1>4, <2>1, ElementOfSeq
  <2>4. s \in Seq(Bytes) /\ Len(s) = n /\ \A i \in 1 .. n : s[i] = v[i]
    BY <1>3, <2>2, <2>3, SubSeqProperties
  <2>5. file[h] = s
    BY <1>1, <1>3, <2>4, SeqEqual
  <2>. QED
    BY <1>2, <2>1, <2>2, <2>5 DEF Beginning
<1>. QED
  BY <1>5, <1>6

(* Wherever a transfer was cut, a file under its final name is a whole     *)
(* version, a beginning of one that was replaced after its size was        *)
(* announced, or from a sender that failed (TCPFileServer, TCPFileClient,  *)
(* send_file, receive_file).                                               *)
THEOREM CopiesAreWhole == FilesSpec => []CopyIsWhole
<1>1. FilesInv => CopyIsWhole
  BY PartIsBeginning DEF FilesInv, TransferInv, Good, CopyIsWhole
<1>. QED
  BY <1>1, FilesInvariance, PTL
=============================================================================
