--------------------------- MODULE WorkspaceFiles ---------------------------
(***************************************************************************)
(* The workspaces of a station and the master that serves them: sensing    *)
(* processes create, open and fill entries; a client asks the master for   *)
(* workspaces and entities, and fetches the file of an entity it was told  *)
(* of, which the master resolves anew from the same directories.           *)
(***************************************************************************)
EXTENDS Workspace, FileTransfer

CONSTANT MaxEvents   \* bound: processes started or ended, requests made or broken

VARIABLES
  known,    \* what each client was told of: a workspace and an entry with an entity
  events    \* events so far
filesVars == <<workspaceVars, transferVars, known, events>>

FilesInit ==
  /\ WorkspaceInit /\ TransferInit
  /\ known = [c \in Clients |-> <<Absent, NoEntry>>] /\ events = 0

Event == events < MaxEvents /\ events' = events + 1

(* list_workspaces, list_indexed_entries and query_entities: the answers   *)
(* come from the directories and from the index, of any entry; a query     *)
(* that matches nothing or fails tells nothing.                            *)
ListedWorkspaces == {n \in Names : workspace[n] \in {"blank", "whole"}}
IndexedEntries(n) == IF Resolvable(n) THEN saved[n] ELSE {}
QueryEntities(c) ==
  /\ conv[c].at = "idle"
  /\ \E n \in ListedWorkspaces : \E e \in IndexedEntries(n) :
       known' = [known EXCEPT ![c] = <<n, e>>]
  /\ UNCHANGED <<workspaceVars, transferVars>>

(* resolve_download: the workspace, an entry manager of any of its         *)
(* entries, and the entity, by its id, wherever it lies.                   *)
Resolved(c) ==
  LET n == known[c][1]
  IN  n \in Names /\ Resolvable(n) /\ known[c][2] \in saved[n]

SensingStep ==
  \/ /\ \E s \in Sessions : SessionStep(s)
     /\ UNCHANGED <<transferVars, known, events>>
  \/ /\ \E s \in Sessions : SaveEntity(s) /\ Rewrite(Server)
     /\ UNCHANGED <<known, events>>
  \/ /\ \E s \in Sessions : StartSession(s) \/ EndSession(s)
     /\ Event /\ UNCHANGED <<transferVars, known>>

FileStep ==
  /\ UNCHANGED <<workspaceVars, known>>
  /\ \/ (\E c \in Clients : TransferStep(c, Resolved(c))) /\ UNCHANGED events
     \/ /\ Event
        /\ \/ \E c \in Clients : Ask(c) \/ Rewrite(c) \/ \E killed \in BOOLEAN : Leave(c, killed)
           \/ ServerCrash

FilesNext ==
  \/ SensingStep \/ FileStep
  \/ (\E c \in Clients : QueryEntities(c)) /\ UNCHANGED events
FilesSpec == FilesInit /\ [][FilesNext]_filesVars
=============================================================================
