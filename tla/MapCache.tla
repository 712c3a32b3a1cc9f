------------------------------ MODULE MapCache ------------------------------
(***************************************************************************)
(* How processes load a map through the persistent cache that they share   *)
(* (load_map, load_cached_map and save_cached_map in                       *)
(* map_bundle_loader.cpp).  Every map has one entry, whatever the settings *)
(* it is preprocessed with: the entry carries them, and the size and time  *)
(* of its sources.  It is written under a temporary name, which all        *)
(* processes share too, and then renamed.                                  *)
(*                                                                         *)
(* A source is known by its edition, which stands for its content and for  *)
(* its size and time.  What preprocessing makes of the sources is known by *)
(* what it was made of.                                                    *)
(*                                                                         *)
(* A file is [head, reach, cells, torn]: its head, <<>> until written; how *)
(* many of its three blocks of cells its length takes in; what is in them, *)
(* Zeros where nothing was written.  Each writer writes at its own place:  *)
(* one that goes on after another has emptied the file leaves zeros before *)
(* what it writes.  torn is not in the file; it tells that this happened.  *)
(***************************************************************************)
EXTENDS Integers, FiniteSets

CONSTANTS
  Processes,
  MostEdits,          \* bounds how often a source is edited
  Mishaps             \* what may happen of: "edit_midway", a source is edited while
                      \* a map is loaded; "full_disk", see PlanningService

ASSUME ProcessesAssumption == IsFiniteSet(Processes)

VARIABLES
  source,     \* the edition of the YAML file and of the image
  files,      \* the files of the cache, whatever their names
  entry,      \* the file at the cache path, or NoFile
  temporary,  \* the file at the cache path with ".tmp", or NoFile
  job         \* what each process is doing

cacheVars == <<source, files, entry, temporary, job>>

NoFile == 0
Files == 1..(Cardinality(Processes) + 2)

(* The traversable cells, their clearances and their costs.                *)
Blocks == 1..3
Zeros == <<>>
NoCells == [b \in Blocks |-> Zeros]
Blank(torn) == [head |-> <<>>, reach |-> 0, cells |-> NoCells, torn |-> torn]

(* block: the next one to read or write. *)
Idle ==
  [step |-> "idle", settings |-> <<>>, read |-> <<>>, stamp |-> <<>>,
   file |-> NoFile, block |-> 1, map |-> <<>>]

(* From the pixels, thresholds, clearances and costs to the map: it is a   *)
(* function of the sources that were read and of the settings.             *)
Preprocessed(read, settings) == [b \in Blocks |-> <<read, settings>>]

cacheInit ==
  /\ source = [yaml |-> 1, image |-> 1]
  /\ files = [f \in Files |-> Blank(FALSE)]
  /\ entry = NoFile /\ temporary = NoFile
  /\ job = [p \in Processes |-> Idle]

Loading(p) == job[p].step \in
  {"open", "check", "read_cells", "read_yaml", "read_image",
   "stamp", "create", "write_head", "write_cells", "publish", "publish_again"}

At(p, step) == job[p].step = step

Goto(p, step) == job' = [job EXCEPT ![p].step = step]

Load(p, settings) ==
  /\ At(p, "idle")
  /\ job' = [job EXCEPT ![p] =
               [Idle EXCEPT !.step = IF settings.persistent THEN "open" ELSE "read_yaml",
                            !.settings = settings]]
  /\ UNCHANGED <<source, files, entry, temporary>>
-----------------------------------------------------------------------------
(* The entry is looked up. *)
OpenEntry(p) ==
  /\ At(p, "open")
  /\ job' = [job EXCEPT ![p].file = entry,
                        ![p].step = IF entry = NoFile THEN "read_yaml" ELSE "check"]
  /\ UNCHANGED <<source, files, entry, temporary>>

(* An entry is good for the settings it was made with, while its sources   *)
(* are as it says.                                                         *)
SameSource(head, settings) == head.stamp = source   \* mutated: settings are not compared

Valid(head, settings) == head.stamp = source /\ head.settings = settings

Check(p) ==
  /\ At(p, "check")
  /\ LET head == files[job[p].file].head
     IN job' = IF head # <<>> /\ Valid(head, job[p].settings)
               THEN [job EXCEPT
                 ![p].step = "read_cells", ![p].stamp = source,
                 ![p].map = [geometry |-> head.geometry, cells |-> NoCells,
                             hit |-> TRUE, torn |-> files[job[p].file].torn]]
               ELSE [job EXCEPT ![p].step = "read_yaml", ![p].file = NoFile]
  /\ UNCHANGED <<source, files, entry, temporary>>

(* Block by block; all that is looked at is whether the file goes that far. *)
ReadCells(p) ==
  /\ At(p, "read_cells")
  /\ LET file == files[job[p].file]
         b == job[p].block
     IN job' = IF file.reach < b
               THEN [job EXCEPT ![p].step = "read_yaml", ![p].file = NoFile, ![p].block = 1]
               ELSE IF b = 3
               THEN [job EXCEPT ![p].step = "loaded", ![p].file = NoFile, ![p].block = 1,
                                ![p].map.cells[b] = file.cells[b]]
               ELSE [job EXCEPT ![p].block = b + 1, ![p].map.cells[b] = file.cells[b]]
  /\ UNCHANGED <<source, files, entry, temporary>>
-----------------------------------------------------------------------------
(* There is no good entry: the map is made from its sources, and saved.    *)
ReadYaml(p) ==
  /\ At(p, "read_yaml")
  /\ job' = [job EXCEPT ![p].step = "read_image", ![p].read = source]
  /\ UNCHANGED <<source, files, entry, temporary>>

ReadImage(p) ==
  /\ At(p, "read_image")
  /\ LET read == [job[p].read EXCEPT !.image = source.image]
     IN job' = [job EXCEPT
          ![p].step = IF job[p].settings.persistent THEN "stamp" ELSE "loaded",
          ![p].read = read,
          ![p].map = [geometry |-> read, cells |-> Preprocessed(read, job[p].settings),
                      hit |-> FALSE, torn |-> FALSE]]
  /\ UNCHANGED <<source, files, entry, temporary>>

ReadUnusable(p) ==
  /\ job[p].step \in {"read_yaml", "read_image"}
  /\ Goto(p, "failed")
  /\ UNCHANGED <<source, files, entry, temporary>>

Stamp(p) ==
  /\ At(p, "stamp")
  /\ job' = [job EXCEPT ![p].step = "create", ![p].stamp = source]
  /\ UNCHANGED <<source, files, entry, temporary>>

Unused(f) == f \notin {entry, temporary} /\ \A p \in Processes : job[p].file # f

Writing(p) == job[p].step \in {"write_head", "write_cells"}

(* Opening the temporary file empties the one that is there, even if       *)
(* another process is writing it.                                          *)
Create(p) ==
  /\ At(p, "create")
  /\ LET f == IF temporary # NoFile THEN temporary ELSE CHOOSE g \in Files : Unused(g)
         torn == \E q \in Processes : Writing(q) /\ job[q].file = f
     IN /\ temporary' = f
        /\ files' = [files EXCEPT ![f] = Blank(torn)]
        /\ job' = [job EXCEPT ![p].step = "write_head", ![p].file = f]
  /\ UNCHANGED <<source, entry>>

WriteHead(p) ==
  /\ At(p, "write_head")
  /\ files' = [files EXCEPT ![job[p].file].head =
                 [stamp |-> job[p].stamp, settings |-> job[p].settings,
                  geometry |-> job[p].read]]
  /\ Goto(p, "write_cells")
  /\ UNCHANGED <<source, entry, temporary>>

WriteCells(p) ==
  /\ At(p, "write_cells")
  /\ LET f == job[p].file
         b == job[p].block
     IN /\ files' = [files EXCEPT ![f].cells[b] = job[p].map.cells[b],
                                  ![f].reach = IF @ < b THEN b ELSE @]
        /\ job' = IF b = 3
                  THEN [job EXCEPT ![p].step = "publish", ![p].file = NoFile, ![p].block = 1]
                  ELSE [job EXCEPT ![p].block = b + 1]
  /\ UNCHANGED <<source, entry, temporary>>

(* A file that cannot be written is left where it is; the map was loaded.  *)
SaveFails(p) ==
  /\ job[p].step \in {"stamp", "create", "write_head", "write_cells"}
  /\ job' = [job EXCEPT ![p].step = "loaded", ![p].file = NoFile, ![p].block = 1]
  /\ UNCHANGED <<source, files, entry, temporary>>

Rename(p) ==
  /\ entry' = temporary
  /\ temporary' = NoFile
  /\ Goto(p, "loaded")

(* What is renamed is whatever has the temporary name by now.  If that is  *)
(* nothing, the entry is removed, and renaming is tried again.             *)
Publish(p) ==
  /\ At(p, "publish")
  /\ \/ temporary # NoFile /\ Rename(p)
     \/ temporary = NoFile /\ entry' = NoFile /\ Goto(p, "publish_again") /\ UNCHANGED temporary
  /\ UNCHANGED <<source, files>>

PublishAgain(p) ==
  /\ At(p, "publish_again")
  /\ \/ temporary # NoFile /\ Rename(p)
     \/ temporary = NoFile /\ Goto(p, "loaded") /\ UNCHANGED <<entry, temporary>>
  /\ UNCHANGED <<source, files>>

LoadStep(p) ==
  \/ OpenEntry(p) \/ Check(p) \/ ReadCells(p)
  \/ ReadYaml(p) \/ ReadImage(p) \/ ReadUnusable(p)
  \/ Stamp(p) \/ Create(p) \/ WriteHead(p) \/ WriteCells(p)
  \/ SaveFails(p) \/ Publish(p) \/ PublishAgain(p)

(* A source is edited; its size or time changes with it. *)
Edit ==
  /\ "edit_midway" \notin Mishaps => \A p \in Processes : ~Loading(p)
  /\ source.yaml + source.image < 2 + MostEdits
  /\ \E f \in {"yaml", "image"} : source' = [source EXCEPT ![f] = @ + 1]
  /\ UNCHANGED <<files, entry, temporary, job>>
-----------------------------------------------------------------------------
(* "A change of a map file's size or time or of the preprocessing settings *)
(* invalidates the cache" (README.md:155): a map taken from the cache is   *)
(* never of other sources than those there were when the entry was         *)
(* checked, in its geometry or in any block of its cells; and unless the   *)
(* entry was emptied under another writer, whose settings and whose zeros  *)
(* may then be in it, it is what those sources give with the settings      *)
(* asked for, wherever writers died.                                       *)
NeverOutdated(j) ==
  /\ j.map.geometry = j.stamp
  /\ \A b \in Blocks : j.map.cells[b] # Zeros => j.map.cells[b][1] = j.stamp

HitIsCurrent ==
  \A p \in Processes :
    At(p, "loaded") /\ job[p].map.hit =>
      /\ NeverOutdated(job[p])
      /\ ~job[p].map.torn => job[p].map.cells = Preprocessed(job[p].stamp, job[p].settings)
=============================================================================
