----------------------------- MODULE Workspace -----------------------------
(***************************************************************************)
(* Workspaces on disk, and the sensing processes that open them: the       *)
(* menus of sensing_entrypoint(_stream), load_workspace and                *)
(* init_workspace, the domain and entry managers and the allocator of      *)
(* numbered entries.  Nothing locks the directories: every check, mkdir    *)
(* and write is a step of its own, and a process may be killed between any *)
(* two.  All entries are of one day, so an entry is its sequence number.   *)
(***************************************************************************)
EXTENDS Integers, FiniteSets, FiniteSetsExt

CONSTANTS
  Sessions,        \* sensing processes
  Names,           \* workspace names
  Absent, Blank,   \* no such file; a file that has been opened for writing
  MaxEntry,        \* bound: numbered entries of a workspace
  MaxSaves         \* bound: entities saved

ASSUME NamesAssumption == Absent \notin Names /\ Blank \notin Names /\ Absent # Blank
ASSUME EntryAssumption == MaxEntry \in Nat \ {0} /\ MaxSaves \in Nat

VARIABLES
  workspace,   \* of each name: "none", "bare" (a directory), "blank", "whole" (workspace.json)
  domain,      \* its sensing domain: "none", "bare", "managed" (domain.json is there)
  entries,     \* its entries, each "none", "bare" or "managed"
  saved,       \* its entries that hold a saved entity
  recent,      \* .last_workspace
  latest,      \* the pointer workspaces/latest: kind and name
  session,     \* each process: where it is, its workspace, its entry, what its menu shows
  saves,       \* entities saved so far
  contested,   \* names that two processes were creating at once
  shared       \* <<name, entry>> that two processes were allocating at once

disk == <<workspace, domain, entries, saved, recent, latest>>
workspaceVars == <<disk, session, saves, contested, shared>>

Entry == 1 .. MaxEntry
NoEntry == 0
Outside == [at |-> "off", ws |-> Absent, entry |-> NoEntry, seen |-> {}, fresh |-> FALSE]

WorkspaceInit ==
  /\ workspace = [n \in Names |-> "none"] /\ domain = [n \in Names |-> "none"]
  /\ entries = [n \in Names |-> [e \in Entry |-> "none"]] /\ saved = [n \in Names |-> {}]
  /\ recent = Absent /\ latest = [kind |-> "none", to |-> Absent]
  /\ session = [s \in Sessions |-> Outside]
  /\ saves = 0 /\ contested = {} /\ shared = {}

Managed(n) == {e \in Entry : entries[n][e] = "managed"}    \* list_entries
At(s, place) == session[s].at = place
Go(s, place) == session' = [session EXCEPT ![s].at = place]
Exit(s) == session' = [session EXCEPT ![s] = Outside]
Creating == {"create", "manifest", "fill"}
Allocating == {"named", "make entry", "entry manifest"}

(* What load_workspace finds without a name: the last workspace, or the    *)
(* latest pointer where no last workspace was noted.                       *)
LastUsed == IF recent # Absent THEN recent ELSE latest.to

(* [1], [2]: a workspace without a directory or without a manifest is      *)
(* reported and the menu comes again; a manifest that cannot be parsed     *)
(* raises out of the entrypoint.                                           *)
LoadWorkspace(s, n) ==
  /\ At(s, "workspace") /\ n \in Names /\ workspace[n] \in {"blank", "whole"}
  /\ IF workspace[n] = "blank" THEN Exit(s)
     ELSE session' = [session EXCEPT ![s].ws = n, ![s].at = "domain"]
  /\ UNCHANGED <<disk, saves, contested, shared>>

UseLast(s) == LoadWorkspace(s, LastUsed)
OpenByName(s) == \E n \in Names : LoadWorkspace(s, n)

(* [3]: the name must not exist yet.                                       *)
NewWorkspace(s) ==
  /\ At(s, "workspace")
  /\ \E n \in Names :
       /\ workspace[n] = "none"
       /\ session' = [session EXCEPT ![s].ws = n, ![s].at = "create"]
       /\ contested' = IF \E t \in Sessions \ {s} :
                            session[t].ws = n /\ session[t].at \in Creating
                       THEN contested \cup {n} ELSE contested
  /\ UNCHANGED <<disk, saves, shared>>

(* init_workspace: the directories, workspace.json (opened, then filled),  *)
(* the latest pointer and .last_workspace.                                 *)
MakeDirectories(s) ==
  /\ At(s, "create") /\ Go(s, "manifest")
  /\ workspace' = [workspace EXCEPT ![session[s].ws] = IF @ = "none" THEN "bare" ELSE @]
  /\ UNCHANGED <<domain, entries, saved, recent, latest, saves, contested, shared>>

OpenManifest(s) ==
  /\ At(s, "manifest") /\ Go(s, "fill")
  /\ workspace' = [workspace EXCEPT ![session[s].ws] = "blank"]
  /\ UNCHANGED <<domain, entries, saved, recent, latest, saves, contested, shared>>

FillManifest(s) ==
  /\ At(s, "fill") /\ Go(s, "look")
  /\ workspace' = [workspace EXCEPT ![session[s].ws] = "whole"]
  /\ UNCHANGED <<domain, entries, saved, recent, latest, saves, contested, shared>>

LookLatest(s) ==
  /\ At(s, "look") /\ Go(s, IF latest.kind = "none" THEN "link" ELSE "unlink")
  /\ UNCHANGED <<disk, saves, contested, shared>>

(* The pointer is gone or there again: the text file is the fallback.      *)
UnlinkLatest(s) ==
  /\ At(s, "unlink")
  /\ Go(s, IF latest.kind = "none" THEN "text" ELSE "link")
  /\ latest' = [kind |-> "none", to |-> Absent]
  /\ UNCHANGED <<workspace, domain, entries, saved, recent, saves, contested, shared>>

(* A platform may refuse the symlink, as it does one whose name is taken.  *)
LinkLatest(s) ==
  /\ At(s, "link")
  /\ \/ /\ latest.kind = "none" /\ Go(s, "recent")
        /\ latest' = [kind |-> "link", to |-> session[s].ws]
     \/ Go(s, "text") /\ UNCHANGED latest
  /\ UNCHANGED <<workspace, domain, entries, saved, recent, saves, contested, shared>>

(* Writing through a symlink that another process made opens a directory:  *)
(* the error ends this process.                                            *)
OpenText(s) ==
  /\ At(s, "text")
  /\ IF latest.kind = "link" THEN Exit(s) /\ UNCHANGED latest
     ELSE Go(s, "text fill") /\ latest' = [kind |-> "text", to |-> Blank]
  /\ UNCHANGED <<workspace, domain, entries, saved, recent, saves, contested, shared>>

(* What was opened may have been unlinked meanwhile: then nobody sees it.  *)
FillText(s) ==
  /\ At(s, "text fill") /\ Go(s, "recent")
  /\ latest' = IF latest.kind = "text" THEN [latest EXCEPT !.to = session[s].ws] ELSE latest
  /\ UNCHANGED <<workspace, domain, entries, saved, recent, saves, contested, shared>>

OpenRecent(s) ==
  /\ At(s, "recent") /\ Go(s, "remember") /\ recent' = Blank
  /\ UNCHANGED <<workspace, domain, entries, saved, latest, saves, contested, shared>>

FillRecent(s) ==
  /\ At(s, "remember") /\ Go(s, "domain") /\ recent' = session[s].ws
  /\ UNCHANGED <<workspace, domain, entries, saved, latest, saves, contested, shared>>

(* Slip: no manifest here.                                                 *)
MakeDomain_TrustsDirectory(s) ==
  /\ At(s, "domain")
  /\ Go(s, IF domain[session[s].ws] = "none" THEN "domain manifest" ELSE "entries")
  /\ domain' = [domain EXCEPT ![session[s].ws] = IF @ = "none" THEN "bare" ELSE @]
  /\ UNCHANGED <<workspace, entries, saved, recent, latest, saves, contested, shared>>

(* ensure_domain                                                           *)
MakeDomain(s) ==
  /\ At(s, "domain") /\ Go(s, "domain manifest")
  /\ domain' = [domain EXCEPT ![session[s].ws] = IF @ = "none" THEN "bare" ELSE @]
  /\ UNCHANGED <<workspace, entries, saved, recent, latest, saves, contested, shared>>

ManifestDomain(s) ==
  /\ At(s, "domain manifest") /\ Go(s, "entries")
  /\ domain' = [domain EXCEPT ![session[s].ws] = "managed"]
  /\ UNCHANGED <<workspace, entries, saved, recent, latest, saves, contested, shared>>

(* The menu of entries is drawn before the user answers.                   *)
ListEntries(s) ==
  /\ At(s, "entries")
  /\ session' = [session EXCEPT ![s].seen = Managed(session[s].ws), ![s].at = "pick"]
  /\ UNCHANGED <<disk, saves, contested, shared>>

(* [1], [2]: the latest or another entry of the menu as it was drawn; an   *)
(* invalid answer draws it again.                                          *)
PickEntry(s) ==
  /\ At(s, "pick")
  /\ \/ \E e \in session[s].seen :
          session' = [session EXCEPT ![s].entry = e, ![s].at = "working", ![s].seen = {}]
     \/ session' = [session EXCEPT ![s].at = "entries", ![s].seen = {}]
  /\ UNCHANGED <<disk, saves, contested, shared>>

(* [3]: allocate counts the managed entries and then looks for the name.   *)
AllocateEntry(s) ==
  /\ At(s, "pick")
  /\ LET n == session[s].ws
         e == Max(Managed(n) \cup {0}) + 1
     IN  /\ e \in Entry
         /\ session' = [session EXCEPT ![s].entry = e, ![s].at = "named", ![s].seen = {}]
         /\ shared' = IF \E t \in Sessions \ {s} :
                           /\ session[t].ws = n /\ session[t].entry = e
                           /\ session[t].at \in Allocating
                      THEN shared \cup {<<n, e>>} ELSE shared
  /\ UNCHANGED <<disk, saves, contested>>

CheckEntry(s) ==
  /\ At(s, "named")
  /\ IF session[s].entry \in Managed(session[s].ws) THEN Exit(s) ELSE Go(s, "make entry")
  /\ UNCHANGED <<disk, saves, contested, shared>>

(* ensure_entry: an existing directory is taken as it is.                  *)
MakeEntry(s) ==
  /\ At(s, "make entry") /\ Go(s, "entry manifest")
  /\ entries' = [entries EXCEPT ![session[s].ws][session[s].entry] = IF @ = "none" THEN "bare" ELSE @]
  /\ UNCHANGED <<workspace, domain, saved, recent, latest, saves, contested, shared>>
(* Slip: no manifest.                                                      *)
ManifestEntry_Later(s) ==
  /\ At(s, "entry manifest")
  /\ session' = [session EXCEPT ![s].at = "working", ![s].fresh = TRUE]
  /\ UNCHANGED <<disk, saves, contested, shared>>

ManifestEntry(s) ==
  /\ At(s, "entry manifest")
  /\ session' = [session EXCEPT ![s].at = "working", ![s].fresh = TRUE]
  /\ entries' = [entries EXCEPT ![session[s].ws][session[s].entry] = "managed"]
  /\ UNCHANGED <<workspace, domain, saved, recent, latest, saves, contested, shared>>

(* The sensing operation saves an entity into the session's entry.         *)
SaveEntity(s) ==
  /\ At(s, "working") /\ saves < MaxSaves
  /\ saved' = [saved EXCEPT ![session[s].ws] = @ \cup {session[s].entry}]
  /\ saves' = saves + 1
  /\ UNCHANGED <<workspace, domain, entries, recent, latest, session, contested, shared>>

StartSession(s) ==
  /\ At(s, "off") /\ Go(s, "workspace")
  /\ UNCHANGED <<disk, saves, contested, shared>>

(* [4] Exit, an error out of the program, or a kill.                       *)
EndSession(s) ==
  /\ ~At(s, "off") /\ Exit(s)
  /\ UNCHANGED <<disk, saves, contested, shared>>

SessionStep(s) ==
  \/ UseLast(s) \/ OpenByName(s) \/ NewWorkspace(s) \/ MakeDirectories(s)
  \/ OpenManifest(s) \/ FillManifest(s) \/ LookLatest(s) \/ UnlinkLatest(s) \/ LinkLatest(s) \/ OpenText(s)
  \/ FillText(s) \/ OpenRecent(s) \/ FillRecent(s) \/ MakeDomain(s) \/ ManifestDomain(s)
  \/ ListEntries(s) \/ PickEntry(s) \/ AllocateEntry(s) \/ CheckEntry(s) \/ MakeEntry(s)
  \/ ManifestEntry(s)

(* What the master needs to find an entity of a workspace: a manifest that *)
(* can be read or none (it has the layout), its domain listed and some     *)
(* entry of it managed.                                                    *)
Resolvable(n) == workspace[n] \in {"bare", "whole"} /\ domain[n] = "managed" /\ Managed(n) # {}

(* A workspace that a pointer names, or in which something was saved, can  *)
(* be opened and served, wherever processes were killed, unless two of     *)
(* them were creating it at once.                                          *)
WorkspaceIsSound ==
  \A n \in Names \ contested :
    /\ n \in {recent, latest.to} => workspace[n] = "whole"
    /\ saved[n] # {} => Resolvable(n)

(* Two sessions that each allocated a new entry write into different ones, *)
(* also after one was killed with its directory made and not its manifest, *)
(* unless they were allocating it at the same time.                        *)
EntryInTurn ==
  \A s, t \in Sessions :
    /\ s # t /\ session[s].fresh /\ session[t].fresh
    /\ session[s].ws = session[t].ws /\ session[s].entry = session[t].entry
    => <<session[s].ws, session[s].entry>> \in shared

=============================================================================
