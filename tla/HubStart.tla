------------------------------ MODULE HubStart ------------------------------
(***************************************************************************)
(* How hubs start on one state directory: HubEdge::bind                    *)
(* (crates/clipmesh-hub-edge/src/lib.rs), HubCore::open                    *)
(* (crates/clipmesh-hub-core/src/lib.rs) and FileStore::open               *)
(* (crates/clipmesh-hub-core/src/file_store.rs).                           *)
(*                                                                         *)
(* A start opens both databases before it binds the address, and only the  *)
(* address keeps hubs apart: two starts may overlap, and a start may       *)
(* overlap with the hub that serves.  A process may be killed between any  *)
(* two steps.  Of what a hub does while it serves, this has what another   *)
(* start can see: clears, and the selections it puts on the file store.    *)
(***************************************************************************)
EXTENDS Naturals

CONSTANTS
  Hubs,            \* processes
  Selections,      \* ids of file selections
  GenerationMax,   \* bound: the clear generation
  EpochMax         \* bound: databases that are created

VARIABLES
  database,        \* "none": no file or an empty one; "header"; or "whole"
  epoch,           \* hub_meta.history_epoch; 0 for none
  generation,      \* hub_meta.clear_generation
  created,         \* how many epochs there have been
  shelf,           \* the file store's selections: [clip, generation]
  shelf_generation,\* file_generation; 0 for none
  hub,             \* where each process is
  loaded,          \* what it has read of hub_meta, and keeps in memory
  overtaken        \* history: a clear came between the reading and the end of a start

hubStartVars ==
  <<database, epoch, generation, created, shelf, shelf_generation, hub, loaded, overtaken>>

Unread == [epoch |-> 0, generation |-> 0]

HubStartInit ==
  /\ database = "none" /\ epoch = 0 /\ generation = 0 /\ created = 0
  /\ shelf = {} /\ shelf_generation = 0
  /\ hub = [h \in Hubs |-> "down"]
  /\ loaded = [h \in Hubs |-> Unread]
  /\ overtaken = FALSE

Becomes(h, from, to) == hub[h] = from /\ hub' = [hub EXCEPT ![h] = to]

Rest == <<epoch, generation, created, shelf, shelf_generation, loaded, overtaken>>

----------------------------------------------------------------------------
(* The core's database.                                                    *)

(* Whether it is to be initialized is decided by its length alone.         *)
OpenDatabase(h) ==
  /\ Becomes(h, "down", IF database = "none" THEN "creating" ELSE "validating")
  /\ UNCHANGED <<database, Rest>>

(* The switch to a write-ahead log writes the first page.                  *)
SetJournal(h) ==
  /\ Becomes(h, "creating", "filling")
  /\ database' = IF database = "none" THEN "header" ELSE database
  /\ UNCHANGED Rest

(* Mutant: tables that are there are made anew.                            *)
FillAnyway(h) ==
  /\ created < EpochMax
  /\ Becomes(h, "filling", "loading")
  /\ database' = "whole"
  /\ created' = created + 1
  /\ epoch' = created' /\ generation' = 1
  /\ UNCHANGED <<shelf, shelf_generation, loaded, overtaken>>

(* One transaction, which fails if another process's came first.           *)
FillTables(h) ==
  /\ created < EpochMax
  /\ \/ /\ database = "header"
        /\ Becomes(h, "filling", "loading")
        /\ database' = "whole"
        /\ created' = created + 1
        /\ epoch' = created' /\ generation' = 1
     \/ /\ database = "whole"
        /\ Becomes(h, "filling", "down")
        /\ UNCHANGED <<database, epoch, generation, created>>
  /\ UNCHANGED <<shelf, shelf_generation, loaded, overtaken>>

(* A database that has its first page only is refused, for good if the     *)
(* process that was to fill it is gone.                                    *)
ValidateSchema(h) ==
  /\ Becomes(h, "validating", IF database = "whole" THEN "loading" ELSE "down")
  /\ UNCHANGED <<database, Rest>>

LoadMeta(h) ==
  /\ Becomes(h, "loading", "syncing")
  /\ loaded' = [loaded EXCEPT ![h] = [epoch |-> epoch, generation |-> generation]]
  /\ UNCHANGED <<database, epoch, generation, created, shelf, shelf_generation, overtaken>>

----------------------------------------------------------------------------
(* The file store and the address.                                         *)

(* Mutant: a start takes what it finds for leftovers.                      *)
EmptyShelf(h) == shelf' = {} /\ shelf_generation' = loaded[h].generation

(* What belongs to another generation than the core's is deleted.          *)
SyncShelf(h) ==
  /\ shelf' = IF shelf_generation = loaded[h].generation THEN shelf ELSE {}
  /\ shelf_generation' = loaded[h].generation

StartFiles(h) ==
  /\ Becomes(h, "syncing", "binding")
  /\ SyncShelf(h)
  /\ UNCHANGED <<database, epoch, generation, created, loaded, overtaken>>

Serves(h) == hub[h] \in {"serving", "clearing"}

(* The address is one process's at a time; another's start ends here.      *)
BindAddress(h) ==
  /\ \/ /\ \A g \in Hubs : ~Serves(g)
        /\ Becomes(h, "binding", "serving")
        /\ UNCHANGED loaded
     \/ /\ \E g \in Hubs : Serves(g)
        /\ Becomes(h, "binding", "down")
        /\ loaded' = [loaded EXCEPT ![h] = Unread]
  /\ UNCHANGED <<database, epoch, generation, created, shelf, shelf_generation, overtaken>>

Dies(h) ==
  /\ hub[h] # "down"
  /\ hub' = [hub EXCEPT ![h] = "down"]
  /\ loaded' = [loaded EXCEPT ![h] = Unread]
  /\ UNCHANGED <<database, epoch, generation, created, shelf, shelf_generation, overtaken>>

----------------------------------------------------------------------------
(* The hub that serves.                                                    *)

(* Every request first syncs the store with the generation in memory.      *)
Shelve(h, clip) ==
  /\ hub[h] = "serving"
  /\ LET kept == IF shelf_generation = loaded[h].generation THEN shelf ELSE {}
     IN  shelf' = kept \cup {[clip |-> clip, generation |-> loaded[h].generation]}
  /\ shelf_generation' = loaded[h].generation
  /\ UNCHANGED <<database, epoch, generation, created, hub, loaded, overtaken>>

CommitShared(h) ==
  /\ Becomes(h, "serving", "clearing")
  /\ loaded[h].generation < GenerationMax
  /\ generation' = loaded[h].generation + 1
  /\ loaded' = [loaded EXCEPT ![h].generation = generation']
  /\ overtaken' = (overtaken \/ \E g \in Hubs : hub[g] \in {"syncing", "binding"})
  /\ UNCHANGED <<database, epoch, created, shelf, shelf_generation>>

FollowShared(h) ==
  /\ Becomes(h, "clearing", "serving")
  /\ SyncShelf(h)
  /\ UNCHANGED <<database, epoch, generation, created, loaded, overtaken>>

HubStartNext ==
  \E h \in Hubs :
    \/ OpenDatabase(h) \/ SetJournal(h) \/ FillTables(h) \/ ValidateSchema(h) \/ LoadMeta(h)
    \/ StartFiles(h) \/ BindAddress(h) \/ Dies(h)
    \/ CommitShared(h) \/ FollowShared(h)
    \/ \E clip \in Selections : Shelve(h, clip)

HubStartSpec == HubStartInit /\ [][HubStartNext]_hubStartVars

----------------------------------------------------------------------------
(* However starts overlap and wherever they are killed, a history once     *)
(* begun is never begun anew, and the hub that serves is the only one and  *)
(* names its epoch (open, initialize_schema, bind).                        *)
EpochIsKept ==
  /\ [][epoch # 0 => epoch' = epoch]_hubStartVars
  /\ [](\A h \in Hubs : Serves(h) =>
          loaded[h].epoch = epoch /\ \A g \in Hubs \ {h} : ~Serves(g))

(* A start, though it goes through the file store before it knows whether  *)
(* it may serve, takes nothing from it but what a clear has covered, and   *)
(* leaves nothing that one has; unless that clear came after it had read   *)
(* the generation (prepare, sync_generation).                              *)
StartsKeepFiles ==
  /\ [][\A file \in shelf \ shelf' :
          file.generation # generation' \/ overtaken']_hubStartVars
  /\ [](\A h \in Hubs : hub[h] = "serving" /\ ~overtaken =>
          \A file \in shelf : file.generation = generation)
=============================================================================
