------------------------ MODULE PlanningServiceProofs ------------------------
(***************************************************************************)
(* Theorems about PlanningService, for any number of processes, requests,  *)
(* settings and edits.  The answer "done" means that the whole plan is on  *)
(* disk if no write is lost to a full disk, and even then that all of its  *)
(* files are new and its images whole.  And where no source is edited      *)
(* while a map is loaded, a map taken from the cache is of the sources as  *)
(* they are; unless its entry was emptied under another writer, it is what *)
(* they give with the settings asked for.                                  *)
(***************************************************************************)
EXTENDS PlanningService, FiniteSetTheorems, TLAPS

Editions == [yaml : Nat, image : Nat]
Settings == {r.settings : r \in Requests}
Contents == {Zeros} \cup (Editions \X Settings)
Cells == [Blocks -> Contents]
Heads == [stamp : Editions, settings : Settings, geometry : Editions]
Maps == [geometry : Editions, cells : Cells, hit : BOOLEAN, torn : BOOLEAN]
FileStates == [head : Heads \cup {<<>>}, reach : 0..3, cells : Cells, torn : BOOLEAN]

LoadingSteps ==
  {"open", "check", "read_cells", "read_yaml", "read_image", "stamp", "create",
   "write_head", "write_cells", "publish", "publish_again"}

SavingSteps == {"stamp", "create", "write_head", "write_cells", "publish", "publish_again"}
WritingSteps == {"write_head", "write_cells"}

Jobs ==
  [step : LoadingSteps \cup {"idle", "loaded", "failed"}, settings : Settings \cup {<<>>},
   read : Editions \cup {<<>>}, stamp : Editions \cup {<<>>},
   file : Files \cup {NoFile}, block : Blocks, map : Maps \cup {<<>>}]

CacheTypes ==
  /\ source \in Editions
  /\ files \in [Files -> FileStates]
  /\ entry \in Files \cup {NoFile} /\ temporary \in Files \cup {NoFile}
  /\ job \in [Processes -> Jobs]

EntryApart == entry # NoFile => entry # temporary

(* A process holds a file while it checks, reads or writes one; the file    *)
(* that it reads is not, and will not be, the temporary one.                *)
HoldsFile(j) ==
  /\ j.step \in {"check", "read_cells"} \cup WritingSteps <=> j.file # NoFile
  /\ j.step \in {"check", "read_cells"} => j.file # temporary
  /\ j.step \notin {"read_cells", "write_cells"} => j.block = 1

(* What a process that loads has read of the sources is still so.           *)
ReadsNow(j) ==
  /\ j.step \in LoadingSteps => j.settings \in Settings
  /\ j.step \in {"read_image"} \cup SavingSteps => j.read = source
  /\ j.step \in {"read_cells", "create"} \cup WritingSteps => j.stamp = source
  /\ j.step \in SavingSteps =>
       j.map = [geometry |-> source, cells |-> Preprocessed(source, j.settings),
                hit |-> FALSE, torn |-> FALSE]
  /\ j.step = "read_cells" => j.map \in Maps /\ j.map.hit /\ j.map.geometry = source

(* Zeros, or made of the sources in edition e.                              *)
Of(content, e) == content # Zeros => content[1] = e

(* What a process finds in the file it writes is of the sources as they     *)
(* are, whoever wrote it; if the file was not emptied under another, it is  *)
(* what this process has written.                                           *)
WriterFits(j) ==
  j.step \in WritingSteps =>
    /\ files[j.file].head # <<>> => files[j.file].head.stamp = source
    /\ \A b \in Blocks : Of(files[j.file].cells[b], source)
    /\ ~files[j.file].torn =>
         IF j.step = "write_head" THEN files[j.file].head = <<>> /\ files[j.file].reach = 0
         ELSE /\ files[j.file].head # <<>> /\ Valid(files[j.file].head, j.settings)
              /\ files[j.file].reach = j.block - 1

(* An entry that was found good stays so, but for the settings if it was    *)
(* emptied under a writer.                                                  *)
ReaderFits(j) ==
  j.step = "read_cells" =>
    /\ files[j.file].head # <<>> /\ files[j.file].head.stamp = source
    /\ j.map.torn = files[j.file].torn
    /\ ~j.map.torn => files[j.file].head.settings = j.settings
    /\ \A b \in Blocks : b < j.block =>
         /\ Of(j.map.cells[b], source)
         /\ ~j.map.torn => j.map.cells[b] = <<source, j.settings>>

FileFits(j) == WriterFits(j) /\ ReaderFits(j)

HitFits(j) ==
  j.step = "loaded" /\ j.map.hit =>
    /\ NeverOutdated(j)
    /\ ~j.map.torn => j.map.cells = Preprocessed(j.stamp, j.settings)

JobInv(j) == HoldsFile(j) /\ ReadsNow(j) /\ FileFits(j) /\ HitFits(j)

(* Only a file that was emptied under a writer has two.                     *)
SoleWriters ==
  \A p, q \in Processes :
    /\ p # q
    /\ job[p].step \in WritingSteps /\ job[q].step \in WritingSteps
    /\ job[p].file = job[q].file
    => files[job[p].file].torn

(* A head and cells that are in one file are of one edition; and of one     *)
(* writer, if the file was not emptied under another.                       *)
FileWhole(file) ==
  /\ file.head # <<>> =>
       /\ file.head.geometry = file.head.stamp
       /\ \A b \in Blocks : Of(file.cells[b], file.head.stamp)
  /\ ~file.torn =>
       \A b \in 1..file.reach :
         file.head # <<>> /\ file.cells[b] = <<file.head.stamp, file.head.settings>>

CacheInv ==
  /\ CacheTypes
  /\ EntryApart
  /\ SoleWriters
  /\ \A f \in Files : FileWhole(files[f])
  /\ \A p \in Processes : JobInv(job[p])
-----------------------------------------------------------------------------
LEMMA FirstBlock == 1 \in Blocks
BY DEF Blocks

(* A step of one process that leaves the files alone, and writes none next. *)
LEMMA JobStep ==
  ASSUME CacheInv, NEW p \in Processes, NEW j \in Jobs,
         job' = [job EXCEPT ![p] = j], UNCHANGED <<source, files, entry, temporary>>,
         JobInv(j), j.step \notin WritingSteps
  PROVE  CacheInv'
<1>1. job \in [Processes -> Jobs]
  BY DEF CacheInv, CacheTypes
<1>2. /\ job'[p] = j
      /\ \A q \in Processes \ {p} : job'[q] = job[q]
      /\ job' \in [Processes -> Jobs]
  BY <1>1
<1>3. CacheTypes' /\ EntryApart' /\ (\A f \in Files : FileWhole(files[f]))'
  BY <1>2 DEF CacheInv, CacheTypes, EntryApart, FileWhole
<1>4. SoleWriters'
  BY <1>2 DEF CacheInv, SoleWriters
<1>5. (\A q \in Processes : JobInv(job[q]))'
  <2> SUFFICES ASSUME NEW q \in Processes
               PROVE  JobInv(job[q])'
    OBVIOUS
  <2>1. JobInv(job'[q])
    BY <1>2 DEF CacheInv
  <2>2. HoldsFile(job[q])' /\ ReadsNow(job[q])' /\ HitFits(job[q])'
    BY <2>1 DEF JobInv, HoldsFile, ReadsNow, HitFits, NeverOutdated
  <2>3. WriterFits(job[q])' /\ ReaderFits(job[q])'
    BY <2>1 DEF JobInv, FileFits, WriterFits, ReaderFits, Valid
  <2> QED BY <2>2, <2>3 DEF JobInv, FileFits
<1> QED BY <1>3, <1>4, <1>5 DEF CacheInv

(* The facts of JobStep that a step of a process takes from the invariant.  *)
LEMMA JobFacts ==
  ASSUME CacheInv, NEW p \in Processes
  PROVE  /\ source \in Editions /\ job \in [Processes -> Jobs] /\ job[p] \in Jobs
         /\ JobInv(job[p])
BY DEF CacheInv, CacheTypes

LEMMA IdleKeepsInv ==
  ASSUME CacheInv, NEW p \in Processes, job' = [job EXCEPT ![p] = Idle],
         UNCHANGED <<source, files, entry, temporary>>
  PROVE  CacheInv'
<1>1. Idle \in Jobs /\ Idle.step = "idle" /\ Idle.file = NoFile /\ Idle.block = 1
  BY FirstBlock DEF Idle, Jobs, LoadingSteps, NoFile
<1>2. JobInv(Idle)
  BY <1>1 DEF JobInv, HoldsFile, ReadsNow, FileFits, WriterFits, ReaderFits, HitFits,
              LoadingSteps, SavingSteps, WritingSteps
<1>3. Idle.step \notin WritingSteps
  BY <1>1 DEF WritingSteps
<1> QED BY <1>1, <1>2, <1>3, JobStep

LEMMA LoadKeepsInv ==
  ASSUME CacheInv, NEW p \in Processes, NEW settings \in Settings, Load(p, settings)
  PROVE  CacheInv'
<1> DEFINE j == [Idle EXCEPT !.step = IF settings.persistent THEN "open" ELSE "read_yaml",
                             !.settings = settings]
<1>1. /\ j \in Jobs /\ j.step \in {"open", "read_yaml"} /\ j.settings = settings
      /\ j.file = NoFile /\ j.block = 1
  BY FirstBlock DEF Idle, Jobs, LoadingSteps, NoFile
<1>2. JobInv(j)
  BY <1>1 DEF JobInv, HoldsFile, ReadsNow, FileFits, WriterFits, ReaderFits, HitFits,
              LoadingSteps, SavingSteps, WritingSteps
<1>3. job' = [job EXCEPT ![p] = j] /\ UNCHANGED <<source, files, entry, temporary>>
  BY DEF Load
<1>4. j.step \notin WritingSteps
  BY <1>1 DEF WritingSteps
<1> HIDE DEF j
<1> QED BY <1>1, <1>2, <1>3, <1>4, JobStep

LEMMA OpenEntryKeepsInv ==
  ASSUME CacheInv, NEW p \in Processes, OpenEntry(p)
  PROVE  CacheInv'
<1> DEFINE j == [job[p] EXCEPT !.file = entry,
                               !.step = IF entry = NoFile THEN "read_yaml" ELSE "check"]
<1>1. /\ job[p] \in Jobs /\ JobInv(job[p]) /\ job[p].step = "open"
      /\ entry \in Files \cup {NoFile} /\ EntryApart /\ job \in [Processes -> Jobs]
  BY JobFacts DEF OpenEntry, At, CacheInv, CacheTypes
<1>2. /\ j \in Jobs /\ j.file = entry /\ j.settings = job[p].settings
      /\ j.step = (IF entry = NoFile THEN "read_yaml" ELSE "check")
      /\ j.block = job[p].block
  BY <1>1 DEF Jobs, LoadingSteps
<1>3. job[p].settings \in Settings /\ job[p].block = 1
  BY <1>1 DEF JobInv, HoldsFile, ReadsNow, LoadingSteps
<1>4. JobInv(j)
  <2>1. CASE entry = NoFile
    BY <1>2, <1>3, <2>1 DEF JobInv, HoldsFile, ReadsNow, FileFits, WriterFits, ReaderFits,
                            HitFits, LoadingSteps, SavingSteps, WritingSteps
  <2>2. CASE entry # NoFile
    BY <1>1, <1>2, <1>3, <2>2
       DEF JobInv, HoldsFile, ReadsNow, FileFits, WriterFits, ReaderFits,
           HitFits, LoadingSteps, SavingSteps, WritingSteps, EntryApart
  <2> QED BY <2>1, <2>2
<1>5. job' = [job EXCEPT ![p] = j] /\ UNCHANGED <<source, files, entry, temporary>>
  BY <1>1 DEF OpenEntry
<1>6. j.step \notin WritingSteps
  BY <1>2 DEF WritingSteps
<1> HIDE DEF j
<1> QED BY <1>2, <1>4, <1>5, <1>6, JobStep

(* A process that gives the entry up goes to its sources. *)
LEMMA MissKeepsInv ==
  ASSUME CacheInv, NEW p \in Processes, job[p].step \in {"check", "read_cells"},
         job' = [job EXCEPT ![p].step = "read_yaml", ![p].file = NoFile, ![p].block = 1],
         UNCHANGED <<source, files, entry, temporary>>
  PROVE  CacheInv'
<1> DEFINE j == [job[p] EXCEPT !.step = "read_yaml", !.file = NoFile, !.block = 1]
<1>1. /\ job[p] \in Jobs /\ job \in [Processes -> Jobs] /\ JobInv(job[p])
  BY JobFacts
<1>2. /\ j \in Jobs /\ j.step = "read_yaml" /\ j.file = NoFile /\ j.block = 1
      /\ j.settings = job[p].settings
  BY <1>1, FirstBlock DEF Jobs, LoadingSteps
<1>3. job[p].settings \in Settings
  BY <1>1 DEF JobInv, ReadsNow, LoadingSteps
<1>4. JobInv(j)
  BY <1>2, <1>3 DEF JobInv, HoldsFile, ReadsNow, FileFits, WriterFits, ReaderFits,
                    HitFits, LoadingSteps, SavingSteps, WritingSteps
<1>5. job' = [job EXCEPT ![p] = j]
  BY <1>1
<1>6. j.step \notin WritingSteps
  BY <1>2 DEF WritingSteps
<1> HIDE DEF j
<1> QED BY <1>2, <1>4, <1>5, <1>6, JobStep

LEMMA CheckKeepsInv ==
  ASSUME CacheInv, NEW p \in Processes, Check(p)
  PROVE  CacheInv'
<1> DEFINE file == files[job[p].file]
           map == [geometry |-> file.head.geometry, cells |-> NoCells, hit |-> TRUE,
                   torn |-> file.torn]
           good == [job[p] EXCEPT !.step = "read_cells", !.stamp = source, !.map = map]
<1>1. /\ job[p] \in Jobs /\ JobInv(job[p]) /\ job[p].step = "check"
      /\ source \in Editions /\ job \in [Processes -> Jobs]
      /\ UNCHANGED <<source, files, entry, temporary>>
  BY JobFacts DEF Check, At
<1>2. /\ job[p].file \in Files /\ job[p].file # NoFile /\ job[p].file # temporary
      /\ job[p].settings \in Settings /\ job[p].block = 1
  BY <1>1 DEF JobInv, HoldsFile, ReadsNow, Jobs, LoadingSteps
<1>3. file \in FileStates /\ FileWhole(file)
  BY <1>2 DEF CacheInv, CacheTypes
<1>4. CASE file.head # <<>> /\ Valid(file.head, job[p].settings)
  <2>1. /\ file.head.stamp = source /\ file.head.settings = job[p].settings
        /\ file.head.geometry = source /\ file.torn \in BOOLEAN
    BY <1>3, <1>4 DEF FileWhole, Valid, FileStates
  <2>2. NoCells \in Cells
    BY DEF NoCells, Cells, Contents
  <2> HIDE DEF file
  <2>3. map \in Maps /\ map.hit /\ map.geometry = source /\ map.torn = file.torn
    BY <1>1, <2>1, <2>2 DEF Maps
  <2> HIDE DEF map
  <2>4. /\ good \in Jobs /\ good.step = "read_cells" /\ good.stamp = source
        /\ good.file = job[p].file /\ good.settings = job[p].settings
        /\ good.block = 1 /\ good.map = map
    BY <1>1, <1>2, <2>3 DEF Jobs, LoadingSteps
  <2>5. job' = [job EXCEPT ![p] = good]
    BY <1>1, <1>4 DEF Check, file, map
  <2> HIDE DEF good
  <2>6. HoldsFile(good)
    BY <1>2, <2>4 DEF HoldsFile, WritingSteps
  <2>7. ReadsNow(good)
    BY <1>2, <2>3, <2>4 DEF ReadsNow, LoadingSteps, SavingSteps, WritingSteps
  <2>8. ReaderFits(good)
    BY <1>4, <2>1, <2>3, <2>4 DEF ReaderFits, file, Blocks
  <2>9. WriterFits(good) /\ HitFits(good) /\ good.step \notin WritingSteps
    BY <2>4 DEF WriterFits, HitFits, WritingSteps
  <2> QED BY <1>1, <2>4, <2>5, <2>6, <2>7, <2>8, <2>9, JobStep DEF JobInv, FileFits
<1>5. CASE ~(file.head # <<>> /\ Valid(file.head, job[p].settings))
  <2>1. job' = [job EXCEPT ![p].step = "read_yaml", ![p].file = NoFile]
    BY <1>1, <1>5 DEF Check
  <2>2. job' = [job EXCEPT ![p].step = "read_yaml", ![p].file = NoFile, ![p].block = 1]
    BY <1>1, <1>2, <2>1 DEF Jobs
  <2> QED BY <1>1, <2>2, MissKeepsInv
<1> QED BY <1>4, <1>5

(* Every block that is there is of the sources as they were when the entry  *)
(* was checked.                                                             *)
LEMMA ReadCellsKeepsInv ==
  ASSUME CacheInv, NEW p \in Processes, ReadCells(p)
  PROVE  CacheInv'
<1>1. /\ job[p] \in Jobs /\ JobInv(job[p]) /\ job[p].step = "read_cells"
      /\ source \in Editions /\ job \in [Processes -> Jobs]
      /\ UNCHANGED <<source, files, entry, temporary>>
  BY JobFacts DEF ReadCells, At
<1>2. PICK file \in FileStates, b \in Blocks :
        file = files[job[p].file] /\ b = job[p].block /\ FileWhole(file)
  <2>1. job[p].file \in Files /\ job[p].block \in Blocks
    BY <1>1 DEF JobInv, HoldsFile, Jobs
  <2> QED BY <2>1 DEF CacheInv, CacheTypes
<1>3. CASE file.reach < b
  <2>1. job' = [job EXCEPT ![p].step = "read_yaml", ![p].file = NoFile, ![p].block = 1]
    BY <1>1, <1>2, <1>3 DEF ReadCells
  <2> QED BY <1>1, <2>1, MissKeepsInv
<1>4. CASE ~(file.reach < b)
  <2> DEFINE map == [job[p].map EXCEPT !.cells[b] = file.cells[b]]
             next == [job[p] EXCEPT !.block = b + 1, !.map = map]
             last == [job[p] EXCEPT !.step = "loaded", !.file = NoFile, !.block = 1,
                                    !.map = map]
  <2>1. /\ job[p].map \in Maps /\ job[p].map.hit /\ job[p].map.geometry = source
        /\ job[p].stamp = source /\ job[p].settings \in Settings
        /\ job[p].file # NoFile /\ job[p].file # temporary
    BY <1>1 DEF JobInv, HoldsFile, ReadsNow, LoadingSteps
  <2>2. /\ file.head # <<>> /\ file.head.stamp = source
        /\ job[p].map.torn = file.torn
        /\ ~job[p].map.torn => file.head.settings = job[p].settings
        /\ \A c \in Blocks : c < b =>
             /\ Of(job[p].map.cells[c], source)
             /\ ~job[p].map.torn => job[p].map.cells[c] = <<source, job[p].settings>>
    BY <1>1, <1>2 DEF JobInv, FileFits, ReaderFits
  <2>3. /\ Of(file.cells[b], source)
        /\ ~job[p].map.torn => file.cells[b] = <<source, job[p].settings>>
    <3>1. b \in 1..file.reach
      BY <1>2, <1>4 DEF FileStates, Blocks
    <3> QED BY <1>2, <2>2, <3>1 DEF FileWhole
  <2>4. /\ map \in Maps /\ map.hit /\ map.geometry = source
        /\ map.torn = job[p].map.torn
        /\ \A c \in Blocks : map.cells[c] = IF c = b THEN file.cells[b] ELSE job[p].map.cells[c]
    BY <1>2, <2>1 DEF Maps, Cells, FileStates
  <2> HIDE DEF map
  <2>5. \A c \in Blocks : c < b + 1 =>
          /\ Of(map.cells[c], source)
          /\ ~map.torn => map.cells[c] = <<source, job[p].settings>>
    <3> SUFFICES ASSUME NEW c \in Blocks, c < b + 1
                 PROVE  /\ Of(map.cells[c], source)
                        /\ ~map.torn => map.cells[c] = <<source, job[p].settings>>
      OBVIOUS
    <3>1. CASE c = b
      BY <2>3, <2>4, <3>1
    <3>2. CASE c # b
      <4>1. c < b
        BY <3>2 DEF Blocks
      <4>2. map.cells[c] = job[p].map.cells[c]
        BY <2>4, <3>2
      <4> QED BY <2>2, <2>4, <4>1, <4>2
    <3> QED BY <3>1, <3>2
  <2>6. CASE b = 3
    <3>1. /\ last \in Jobs /\ last.step = "loaded" /\ last.file = NoFile /\ last.block = 1
          /\ last.map = map /\ last.stamp = source /\ last.settings = job[p].settings
      BY <1>1, <2>1, <2>4, FirstBlock DEF Jobs, LoadingSteps
    <3>2. job' = [job EXCEPT ![p] = last]
      BY <1>1, <1>2, <1>4, <2>1, <2>6 DEF ReadCells, map, Jobs, Maps
    <3> HIDE DEF last
    <3>3. \A c \in Blocks :
            /\ Of(map.cells[c], source)
            /\ ~map.torn => map.cells[c] = <<source, job[p].settings>>
      BY <2>5, <2>6 DEF Blocks
    <3>4. ~map.torn => map.cells = Preprocessed(source, job[p].settings)
      <4> DEFINE made == Preprocessed(source, job[p].settings)
      <4>1. \A c \in Blocks : made[c] = <<source, job[p].settings>>
        BY DEF Preprocessed
      <4>2. map.cells \in [Blocks -> Contents] /\ made = [c \in Blocks |-> made[c]]
        BY <2>4 DEF Maps, Cells, Preprocessed
      <4> HIDE DEF made
      <4>3. ~map.torn => \A c \in Blocks : map.cells[c] = made[c]
        BY <3>3, <4>1
      <4>4. map.cells = [c \in Blocks |-> map.cells[c]]
        BY <4>2
      <4> QED BY <4>2, <4>3, <4>4 DEF made
    <3>5. HitFits(last)
      BY <2>4, <3>1, <3>3, <3>4 DEF HitFits, NeverOutdated, Of
    <3>6. /\ HoldsFile(last) /\ ReadsNow(last) /\ FileFits(last)
          /\ last.step \notin WritingSteps
      BY <3>1 DEF HoldsFile, ReadsNow, FileFits, WriterFits, ReaderFits,
                  LoadingSteps, SavingSteps, WritingSteps
    <3> QED BY <1>1, <3>1, <3>2, <3>5, <3>6, JobStep DEF JobInv
  <2>7. CASE b # 3
    <3>1. b + 1 \in Blocks
      BY <1>2, <2>7 DEF Blocks
    <3>2. /\ next \in Jobs /\ next.step = "read_cells" /\ next.file = job[p].file
          /\ next.block = b + 1 /\ next.map = map /\ next.stamp = source
          /\ next.settings = job[p].settings
      BY <1>1, <2>1, <2>4, <3>1 DEF Jobs, LoadingSteps
    <3>3. job' = [job EXCEPT ![p] = next]
      BY <1>1, <1>2, <1>4, <2>1, <2>7 DEF ReadCells, map, Jobs, Maps
    <3> HIDE DEF next
    <3>4. HoldsFile(next) /\ ReadsNow(next)
      BY <2>1, <2>4, <3>2 DEF HoldsFile, ReadsNow, LoadingSteps, SavingSteps, WritingSteps
    <3>5. ReaderFits(next)
      <4>1. files[next.file] = file /\ file.head # <<>> /\ file.head.stamp = source
        BY <1>2, <2>2, <3>2
      <4>2. /\ map.torn = file.torn
            /\ ~map.torn => file.head.settings = job[p].settings
        BY <2>2, <2>4
      <4> QED BY <2>5, <3>2, <4>1, <4>2 DEF ReaderFits
    <3>6. WriterFits(next) /\ HitFits(next) /\ next.step \notin WritingSteps
      BY <3>2 DEF WriterFits, HitFits, WritingSteps
    <3> QED BY <1>1, <3>2, <3>3, <3>4, <3>5, <3>6, JobStep DEF JobInv, FileFits
  <2> QED BY <2>6, <2>7
<1> QED BY <1>3, <1>4

LEMMA ReadYamlKeepsInv ==
  ASSUME CacheInv, NEW p \in Processes, ReadYaml(p)
  PROVE  CacheInv'
<1> DEFINE j == [job[p] EXCEPT !.step = "read_image", !.read = source]
<1>1. /\ job[p] \in Jobs /\ JobInv(job[p]) /\ job[p].step = "read_yaml"
      /\ source \in Editions /\ job \in [Processes -> Jobs]
  BY JobFacts DEF ReadYaml, At
<1>2. /\ j \in Jobs /\ j.step = "read_image" /\ j.read = source /\ j.block = job[p].block
      /\ j.file = job[p].file /\ j.settings = job[p].settings
  BY <1>1 DEF Jobs, LoadingSteps
<1>3. job[p].file = NoFile /\ job[p].settings \in Settings /\ job[p].block = 1
  BY <1>1 DEF JobInv, HoldsFile, ReadsNow, LoadingSteps, WritingSteps
<1>4. JobInv(j) /\ j.step \notin WritingSteps
  BY <1>2, <1>3 DEF JobInv, HoldsFile, ReadsNow, FileFits, WriterFits, ReaderFits,
                    HitFits, LoadingSteps, SavingSteps, WritingSteps
<1>5. job' = [job EXCEPT ![p] = j] /\ UNCHANGED <<source, files, entry, temporary>>
  BY <1>1 DEF ReadYaml
<1> HIDE DEF j
<1> QED BY <1>2, <1>4, <1>5, JobStep

(* As no source is edited meanwhile, the image is read in the edition that  *)
(* it had when the YAML file was.                                           *)
LEMMA ReadImageKeepsInv ==
  ASSUME CacheInv, NEW p \in Processes, ReadImage(p)
  PROVE  CacheInv'
<1> DEFINE read == [job[p].read EXCEPT !.image = source.image]
           step == IF job[p].settings.persistent THEN "stamp" ELSE "loaded"
           map == [geometry |-> read, cells |-> Preprocessed(read, job[p].settings),
                   hit |-> FALSE, torn |-> FALSE]
           j == [job[p] EXCEPT !.step = step, !.read = read, !.map = map]
<1>1. /\ job[p] \in Jobs /\ JobInv(job[p]) /\ job[p].step = "read_image"
      /\ source \in Editions /\ job \in [Processes -> Jobs]
  BY JobFacts DEF ReadImage, At
<1>2. /\ job[p].read = source /\ job[p].settings \in Settings
      /\ job[p].file = NoFile /\ job[p].block = 1
  BY <1>1 DEF JobInv, HoldsFile, ReadsNow, LoadingSteps, WritingSteps
<1>3. read = source
  BY <1>1, <1>2 DEF Editions
<1> HIDE DEF read
<1>4. Preprocessed(read, job[p].settings) \in Cells
  BY <1>1, <1>2, <1>3 DEF Preprocessed, Cells, Contents
<1>5. map \in Maps /\ ~map.hit
  BY <1>1, <1>3, <1>4 DEF Maps
<1>6. map = [geometry |-> source, cells |-> Preprocessed(source, job[p].settings),
             hit |-> FALSE, torn |-> FALSE]
  BY <1>3
<1>7. step \in {"stamp", "loaded"}
  OBVIOUS
<1>8. job' = [job EXCEPT ![p] = j] /\ UNCHANGED <<source, files, entry, temporary>>
  BY <1>1 DEF ReadImage, read
<1> HIDE DEF map, step
<1>9. /\ j \in Jobs /\ j.step = step /\ j.read = source /\ j.map = map
      /\ j.file = NoFile /\ j.settings = job[p].settings /\ j.block = 1
  BY <1>1, <1>2, <1>3, <1>5, <1>7 DEF Jobs, LoadingSteps
<1>10. JobInv(j) /\ j.step \notin WritingSteps
  BY <1>2, <1>5, <1>6, <1>7, <1>9
     DEF JobInv, HoldsFile, ReadsNow, FileFits, WriterFits, ReaderFits,
         HitFits, LoadingSteps, SavingSteps, WritingSteps
<1> HIDE DEF j
<1> QED BY <1>8, <1>9, <1>10, JobStep

LEMMA ReadUnusableKeepsInv ==
  ASSUME CacheInv, NEW p \in Processes, ReadUnusable(p)
  PROVE  CacheInv'
<1> DEFINE j == [job[p] EXCEPT !.step = "failed"]
<1>1. /\ job[p] \in Jobs /\ JobInv(job[p]) /\ job[p].step \in {"read_yaml", "read_image"}
      /\ job \in [Processes -> Jobs]
  BY JobFacts DEF ReadUnusable
<1>2. /\ j \in Jobs /\ j.step = "failed" /\ j.block = job[p].block
      /\ j.file = job[p].file /\ j.settings = job[p].settings
  BY <1>1 DEF Jobs, LoadingSteps
<1>3. job[p].file = NoFile /\ job[p].block = 1
  BY <1>1 DEF JobInv, HoldsFile, WritingSteps
<1>4. JobInv(j) /\ j.step \notin WritingSteps
  BY <1>2, <1>3 DEF JobInv, HoldsFile, ReadsNow, FileFits, WriterFits, ReaderFits,
                    HitFits, LoadingSteps, SavingSteps, WritingSteps
<1>5. job' = [job EXCEPT ![p] = j] /\ UNCHANGED <<source, files, entry, temporary>>
  BY <1>1 DEF ReadUnusable, Goto
<1> HIDE DEF j
<1> QED BY <1>2, <1>4, <1>5, JobStep

LEMMA StampKeepsInv ==
  ASSUME CacheInv, NEW p \in Processes, Stamp(p)
  PROVE  CacheInv'
<1> DEFINE j == [job[p] EXCEPT !.step = "create", !.stamp = source]
<1>1. /\ job[p] \in Jobs /\ JobInv(job[p]) /\ job[p].step = "stamp"
      /\ source \in Editions /\ job \in [Processes -> Jobs]
  BY JobFacts DEF Stamp, At
<1>2. /\ j \in Jobs /\ j.step = "create" /\ j.read = job[p].read /\ j.map = job[p].map
      /\ j.file = job[p].file /\ j.settings = job[p].settings /\ j.stamp = source
      /\ j.block = job[p].block
  BY <1>1 DEF Jobs, LoadingSteps
<1>3. job[p].file = NoFile /\ job[p].block = 1 /\ ReadsNow(job[p])
  BY <1>1 DEF JobInv, HoldsFile, WritingSteps
<1>4. JobInv(j) /\ j.step \notin WritingSteps
  BY <1>1, <1>2, <1>3 DEF JobInv, HoldsFile, ReadsNow, FileFits, WriterFits, ReaderFits,
                    HitFits, LoadingSteps, SavingSteps, WritingSteps
<1>5. job' = [job EXCEPT ![p] = j] /\ UNCHANGED <<source, files, entry, temporary>>
  BY <1>1 DEF Stamp
<1> HIDE DEF j
<1> QED BY <1>2, <1>4, <1>5, JobStep

LEMMA SaveFailsKeepsInv ==
  ASSUME CacheInv, NEW p \in Processes, SaveFails(p)
  PROVE  CacheInv'
<1> DEFINE j == [job[p] EXCEPT !.step = "loaded", !.file = NoFile, !.block = 1]
<1>1. /\ job[p] \in Jobs /\ JobInv(job[p])
      /\ job[p].step \in {"stamp", "create"} \cup WritingSteps
      /\ job \in [Processes -> Jobs]
  BY JobFacts DEF SaveFails, WritingSteps
<1>2. /\ j \in Jobs /\ j.step = "loaded" /\ j.map = job[p].map
      /\ j.file = NoFile /\ j.settings = job[p].settings /\ j.block = 1
  BY <1>1, FirstBlock DEF Jobs, LoadingSteps
<1>3. ~job[p].map.hit
  BY <1>1 DEF JobInv, ReadsNow, SavingSteps, WritingSteps
<1>4. JobInv(j) /\ j.step \notin WritingSteps
  BY <1>2, <1>3 DEF JobInv, HoldsFile, ReadsNow, FileFits, WriterFits, ReaderFits,
                    HitFits, LoadingSteps, SavingSteps, WritingSteps
<1>5. job' = [job EXCEPT ![p] = j] /\ UNCHANGED <<source, files, entry, temporary>>
  BY <1>1 DEF SaveFails
<1> HIDE DEF j
<1> QED BY <1>2, <1>4, <1>5, JobStep
-----------------------------------------------------------------------------
(* A step of one process that changes one file, or which file has a name.   *)
LEMMA FileStep ==
  ASSUME CacheInv, NEW p \in Processes, NEW j \in Jobs, NEW f \in Files,
         NEW file \in FileStates,
         job' = [job EXCEPT ![p] = j], files' = [files EXCEPT ![f] = file],
         UNCHANGED source,
         entry' \in Files \cup {NoFile}, temporary' \in Files \cup {NoFile},
         EntryApart', FileWhole(file), JobInv(j)',
         \A q \in Processes \ {p} :
           /\ HoldsFile(job[q])' /\ FileFits(job[q])'
           /\ j.step \in WritingSteps /\ job[q].step \in WritingSteps /\ j.file = job[q].file
                => files'[j.file].torn,
         file.torn \/ ~files[f].torn
           \/ \A q \in Processes : job[q].step \in WritingSteps => job[q].file # f
  PROVE  CacheInv'
<1>1. job \in [Processes -> Jobs]
  BY JobFacts
<1>2. /\ job'[p] = j
      /\ \A q \in Processes \ {p} : job'[q] = job[q]
      /\ job' \in [Processes -> Jobs]
  BY <1>1
<1>3. files \in [Files -> FileStates]
  BY DEF CacheInv, CacheTypes
<1>4. CacheTypes'
  BY <1>2, <1>3 DEF CacheInv, CacheTypes
<1>5. \A g \in Files : files'[g] = IF g = f THEN file ELSE files[g]
  BY <1>3
<1>6. (\A g \in Files : FileWhole(files[g]))'
  BY <1>5 DEF CacheInv, FileWhole
<1>7. ASSUME NEW q \in Processes
      PROVE  JobInv(job[q])'
  <2>1. CASE q = p
    <3>1. job'[q] = j
      BY <1>2, <2>1
    <3>2. HoldsFile(job[q])' /\ ReadsNow(job[q])' /\ HitFits(job[q])'
      BY <3>1 DEF JobInv, HoldsFile, ReadsNow, HitFits, NeverOutdated
    <3>3. WriterFits(job[q])' /\ ReaderFits(job[q])'
      BY <3>1 DEF JobInv, FileFits, WriterFits, ReaderFits, Valid
    <3> QED BY <3>2, <3>3 DEF JobInv, FileFits
  <2>2. CASE q # p
    <3>1. ReadsNow(job[q])' /\ HitFits(job[q])'
      BY <1>2, <2>2 DEF CacheInv, JobInv, ReadsNow, HitFits, NeverOutdated
    <3> QED BY <2>2, <3>1 DEF JobInv
  <2> QED BY <2>1, <2>2
<1>8. SoleWriters'
  <2> SUFFICES ASSUME NEW q \in Processes, NEW r \in Processes, q # r,
                      job'[q].step \in WritingSteps, job'[r].step \in WritingSteps,
                      job'[q].file = job'[r].file
               PROVE  files'[job'[q].file].torn
    BY DEF SoleWriters
  <2>1. CASE q = p \/ r = p
    BY <1>2, <2>1
  <2>2. CASE q # p /\ r # p
    <3>1. /\ job[q].step \in WritingSteps /\ job[r].step \in WritingSteps
          /\ job[q].file = job[r].file /\ job'[q] = job[q]
      BY <1>2, <2>2
    <3>2. files[job[q].file].torn
      BY <3>1 DEF CacheInv, SoleWriters
    <3>3. job[q].file \in Files
      BY <3>1, JobFacts DEF JobInv, HoldsFile, Jobs, WritingSteps
    <3> QED BY <1>5, <3>1, <3>2, <3>3
  <2> QED BY <2>1, <2>2
<1> QED BY <1>4, <1>6, <1>7, <1>8 DEF CacheInv

LEMMA FileNames == NoFile \notin Files /\ 1 \in Files
<1>1. Cardinality(Processes) \in Nat
  BY ProcessesAssumption, FS_CardinalityType
<1> QED BY <1>1 DEF Files, NoFile

(* There are always more files than the processes and the two names hold.   *)
LEMMA UnusedExists ==
  ASSUME CacheInv, temporary = NoFile
  PROVE  \E g \in Files : Unused(g)
<1> DEFINE held == [q \in Processes |-> job[q].file]
           files_held == {held[q] : q \in Processes}
           n == Cardinality(Processes)
<1>1. IsFiniteSet(Processes) /\ n \in Nat
  BY ProcessesAssumption, FS_CardinalityType
<1>2. held \in Surjection(Processes, files_held)
  BY DEF Surjection
<1>3. IsFiniteSet(files_held) /\ Cardinality(files_held) <= n
  BY <1>1, <1>2, FS_Surjection
<1>4. Cardinality(files_held) \in Nat
  BY <1>3, FS_CardinalityType
<1> HIDE DEF n, held, files_held
<1>5. /\ IsFiniteSet(files_held \cup {entry})
      /\ Cardinality(files_held \cup {entry}) <= n + 1
      /\ Cardinality(files_held \cup {entry}) \in Nat
  <2>1. PICK c \in Nat : c = Cardinality(files_held) /\ c <= n
    BY <1>3, <1>4
  <2>2. /\ IsFiniteSet(files_held \cup {entry})
        /\ \/ Cardinality(files_held \cup {entry}) = c
           \/ Cardinality(files_held \cup {entry}) = c + 1
    BY <1>3, <2>1, FS_AddElement
  <2> QED BY <1>1, <2>1, <2>2
<1>6. Cardinality(Files) = n + 2
  BY <1>1, FS_Interval DEF Files, n
<1>7. ~(Files \subseteq files_held \cup {entry})
  <2>1. SUFFICES ASSUME Files \subseteq files_held \cup {entry}
                 PROVE  FALSE
    OBVIOUS
  <2>2. Cardinality(Files) <= Cardinality(files_held \cup {entry})
    BY <1>5, <2>1, FS_Subset
  <2> QED BY <1>1, <1>5, <1>6, <2>2
<1>8. PICK g \in Files : g \notin files_held \cup {entry}
  BY <1>7
<1>9. g # NoFile
  BY FileNames
<1>10. \A q \in Processes : job[q].file # g
  BY <1>8 DEF files_held, held
<1> QED BY <1>8, <1>9, <1>10 DEF Unused

LEMMA CreateKeepsInv ==
  ASSUME CacheInv, NEW p \in Processes, Create(p)
  PROVE  CacheInv'
<1>1. /\ job[p] \in Jobs /\ JobInv(job[p]) /\ job[p].step = "create"
      /\ job \in [Processes -> Jobs] /\ UNCHANGED <<source, entry>>
  BY JobFacts DEF Create, At
<1> DEFINE chosen == IF temporary # NoFile THEN temporary
                     ELSE CHOOSE g \in Files : Unused(g)
           Torn(f) == \E q \in Processes : Writing(q) /\ job[q].file = f
           Effect(f) == /\ temporary' = f
                        /\ files' = [files EXCEPT ![f] = Blank(Torn(f))]
                        /\ job' = [job EXCEPT ![p].step = "write_head", ![p].file = f]
<1>2. PICK f : f = chosen /\ Effect(f)
  <2>1. Effect(chosen)
    BY Zenon DEF Create
  <2> HIDE DEF chosen, Effect
  <2> QED BY <2>1
<1>3. /\ f \in Files /\ f # entry /\ f # NoFile
      /\ \A q \in Processes : job[q].step \in {"check", "read_cells"} => job[q].file # f
  <2>1. CASE temporary # NoFile
    BY <1>2, <2>1, JobFacts DEF CacheInv, CacheTypes, EntryApart, JobInv, HoldsFile
  <2>2. CASE temporary = NoFile
    <3>1. f \in Files /\ Unused(f)
      BY <1>2, <2>2, UnusedExists
    <3> QED BY <3>1, FileNames DEF Unused
  <2> QED BY <2>1, <2>2
<1>4. PICK j \in Jobs : j = [job[p] EXCEPT !.step = "write_head", !.file = f]
  <2>1. [job[p] EXCEPT !.step = "write_head", !.file = f] \in Jobs
    BY <1>1, <1>3 DEF Jobs, LoadingSteps
  <2> QED BY <2>1
<1>5. /\ j.step = "write_head" /\ j.file = f /\ j.settings = job[p].settings
      /\ j.read = job[p].read /\ j.stamp = job[p].stamp /\ j.map = job[p].map
      /\ j.block = job[p].block
  BY <1>1, <1>4 DEF Jobs
<1>6. job' = [job EXCEPT ![p] = j]
  <2>1. job' = [job EXCEPT ![p].step = "write_head", ![p].file = f]
    BY <1>2
  <2>2. job' = [job EXCEPT ![p] = [job[p] EXCEPT !.step = "write_head", !.file = f]]
    BY <1>1, <2>1
  <2> QED BY <1>4, <2>2
<1>7. PICK torn \in BOOLEAN : torn = Torn(f)
  OBVIOUS
<1>8. PICK file \in FileStates :
        /\ file = Blank(torn) /\ file.head = <<>> /\ file.reach = 0 /\ file.torn = torn
        /\ \A b \in Blocks : file.cells[b] = Zeros
  <2>1. Blank(torn) \in FileStates
    BY DEF Blank, FileStates, NoCells, Cells, Contents
  <2>2. \A b \in Blocks : Blank(torn).cells[b] = Zeros
    BY DEF Blank, NoCells
  <2>3. Blank(torn).head = <<>> /\ Blank(torn).reach = 0 /\ Blank(torn).torn = torn
    BY DEF Blank
  <2> QED BY <2>1, <2>2, <2>3
<1>9. files' = [files EXCEPT ![f] = file]
  BY <1>2, <1>7, <1>8
<1>10. FileWhole(file)
  BY <1>8 DEF FileWhole
<1>11. \A g \in Files : files'[g] = IF g = f THEN file ELSE files[g]
  BY <1>9 DEF CacheInv, CacheTypes
<1>12. JobInv(j)'
  <2>1. HoldsFile(j)'
    BY <1>1, <1>3, <1>5 DEF JobInv, HoldsFile, WritingSteps
  <2>2. ReadsNow(j)'
    BY <1>1, <1>5 DEF JobInv, ReadsNow, LoadingSteps, SavingSteps, WritingSteps
  <2>3. WriterFits(j)'
    BY <1>3, <1>5, <1>8, <1>11 DEF WriterFits, Of
  <2>4. ReaderFits(j)' /\ HitFits(j)'
    BY <1>5 DEF ReaderFits, HitFits
  <2> QED BY <2>1, <2>2, <2>3, <2>4 DEF JobInv, FileFits
<1>13. ASSUME NEW q \in Processes \ {p}
       PROVE  /\ HoldsFile(job[q])' /\ FileFits(job[q])'
              /\ j.step \in WritingSteps /\ job[q].step \in WritingSteps
                   /\ j.file = job[q].file => files'[j.file].torn
  <2>1. job'[q] = job[q] /\ JobInv(job[q]) /\ job[q] \in Jobs
    BY <1>1, <1>6, JobFacts
  <2>2. HoldsFile(job[q])'
    BY <1>2, <1>3, <2>1 DEF JobInv, HoldsFile
  <2>3. job[q].file # NoFile => job[q].file \in Files
    BY <2>1 DEF Jobs
  <2>4. job[q].step \in WritingSteps /\ job[q].file = f => torn
    BY <1>7 DEF Writing, WritingSteps
  <2>5. CASE job[q].file = f
    <3>1. job[q].step # "read_cells" /\ files'[job[q].file] = file
      BY <1>3, <1>11, <2>5
    <3>2. WriterFits(job[q])'
      BY <1>8, <2>1, <2>4, <2>5, <3>1 DEF WriterFits, Of
    <3>3. ReaderFits(job[q])'
      BY <2>1, <3>1 DEF ReaderFits
    <3> QED BY <1>3, <1>5, <1>8, <1>11, <2>2, <2>4, <3>2, <3>3 DEF FileFits
  <2>6. CASE job[q].file # f
    <3>1. job[q].file # NoFile => files'[job[q].file] = files[job[q].file]
      BY <1>11, <2>3, <2>6
    <3>2. WriterFits(job[q])' /\ ReaderFits(job[q])'
      BY <1>1, <2>1, <3>1
         DEF JobInv, HoldsFile, FileFits, WriterFits, ReaderFits, Valid, WritingSteps
    <3> QED BY <1>5, <2>2, <2>6, <3>2 DEF FileFits
  <2> QED BY <2>5, <2>6
<1>14. EntryApart' /\ entry' \in Files \cup {NoFile} /\ temporary' \in Files \cup {NoFile}
  BY <1>1, <1>2, <1>3 DEF EntryApart, CacheInv, CacheTypes
<1>15. file.torn \/ \A q \in Processes : job[q].step \in WritingSteps => job[q].file # f
  BY <1>7, <1>8 DEF Writing, WritingSteps
<1> QED BY <1>1, <1>3, <1>6, <1>9, <1>10, <1>12, <1>13, <1>14, <1>15, FileStep

LEMMA WriteHeadKeepsInv ==
  ASSUME CacheInv, NEW p \in Processes, WriteHead(p)
  PROVE  CacheInv'
<1>1. /\ job[p] \in Jobs /\ JobInv(job[p]) /\ job[p].step = "write_head"
      /\ job \in [Processes -> Jobs]
      /\ UNCHANGED <<source, entry, temporary>> /\ source \in Editions
  BY JobFacts DEF WriteHead, At
<1>2. /\ job[p].file \in Files /\ job[p].file # NoFile /\ job[p].block = 1
      /\ job[p].settings \in Settings /\ job[p].read = source /\ job[p].stamp = source
  BY <1>1 DEF JobInv, HoldsFile, ReadsNow, Jobs, LoadingSteps, SavingSteps, WritingSteps
<1>3. PICK f \in Files : f = job[p].file
  BY <1>2
<1>4. PICK j \in Jobs : j = [job[p] EXCEPT !.step = "write_cells"]
  <2>1. [job[p] EXCEPT !.step = "write_cells"] \in Jobs
    BY <1>1 DEF Jobs, LoadingSteps
  <2> QED BY <2>1
<1>5. /\ j.step = "write_cells" /\ j.file = f /\ j.settings = job[p].settings
      /\ j.read = source /\ j.stamp = source /\ j.map = job[p].map /\ j.block = 1
  BY <1>1, <1>2, <1>3, <1>4 DEF Jobs
<1>6. job' = [job EXCEPT ![p] = j]
  BY <1>1, <1>4 DEF WriteHead, Goto
<1>7. PICK head \in Heads :
        head = [stamp |-> source, settings |-> j.settings, geometry |-> source]
  BY <1>1, <1>2, <1>5 DEF Heads
<1>8. /\ head.stamp = source /\ head.geometry = source /\ head.settings = j.settings
      /\ head # <<>>
  BY <1>7
<1>9. files \in [Files -> FileStates]
  BY DEF CacheInv, CacheTypes
<1>10. PICK file \in FileStates : file = [files[f] EXCEPT !.head = head]
  <2>1. [files[f] EXCEPT !.head = head] \in FileStates
    BY <1>9 DEF FileStates
  <2> QED BY <2>1
<1>11. /\ file.head = head /\ file.cells = files[f].cells /\ file.reach = files[f].reach
       /\ file.torn = files[f].torn
  BY <1>9, <1>10 DEF FileStates
<1>12. files' = [files EXCEPT ![f] = file]
  <2>1. files' = [files EXCEPT ![f].head = head]
    BY <1>2, <1>3, <1>5, <1>7 DEF WriteHead
  <2> QED BY <1>9, <1>10, <2>1
<1>13. /\ \A b \in Blocks : Of(file.cells[b], source)
       /\ ~file.torn => file.reach = 0
  BY <1>1, <1>3, <1>11 DEF JobInv, FileFits, WriterFits, WritingSteps
<1>14. FileWhole(file)
  BY <1>8, <1>11, <1>13 DEF FileWhole
<1>15. \A g \in Files : files'[g] = IF g = f THEN file ELSE files[g]
  BY <1>9, <1>12
<1>16. JobInv(j)'
  <2>1. HoldsFile(j)'
    BY <1>2, <1>3, <1>5 DEF HoldsFile, WritingSteps
  <2>2. ReadsNow(j)'
    BY <1>1, <1>2, <1>5 DEF JobInv, ReadsNow, LoadingSteps, SavingSteps, WritingSteps
  <2>3. WriterFits(j)'
    BY <1>1, <1>5, <1>8, <1>11, <1>13, <1>15 DEF WriterFits, Valid
  <2>4. ReaderFits(j)' /\ HitFits(j)'
    BY <1>5 DEF ReaderFits, HitFits
  <2> QED BY <2>1, <2>2, <2>3, <2>4 DEF JobInv, FileFits
<1>17. ASSUME NEW q \in Processes \ {p}
       PROVE  /\ HoldsFile(job[q])' /\ FileFits(job[q])'
              /\ j.step \in WritingSteps /\ job[q].step \in WritingSteps
                   /\ j.file = job[q].file => files'[j.file].torn
  <2>1. job'[q] = job[q] /\ JobInv(job[q]) /\ job[q] \in Jobs
    BY <1>1, <1>6, JobFacts
  <2>2. HoldsFile(job[q])'
    BY <1>1, <2>1 DEF JobInv, HoldsFile
  <2>3. job[q].file # NoFile => job[q].file \in Files
    BY <2>1 DEF Jobs
  <2>4. job[q].step \in WritingSteps /\ job[q].file = f => file.torn
    BY <1>1, <1>3, <1>11 DEF CacheInv, SoleWriters, WritingSteps
  <2>5. CASE job[q].file = f
    <3>1. files'[job[q].file] = file
      BY <1>15, <2>5
    <3>2. WriterFits(job[q])'
      BY <1>1, <1>8, <1>11, <1>13, <2>1, <2>4, <2>5, <3>1 DEF WriterFits
    <3>3. ReaderFits(job[q])'
      <4>1. job[q].step = "read_cells" =>
              files[f].head # <<>> /\ job[q].map.torn = files[f].torn
        BY <2>1, <2>5 DEF JobInv, FileFits, ReaderFits
      <4>2. ~files[f].torn => files[f].head = <<>>
        BY <1>1, <1>3 DEF JobInv, FileFits, WriterFits, WritingSteps
      <4> QED BY <1>1, <1>8, <1>11, <2>1, <2>5, <3>1, <4>1, <4>2
              DEF JobInv, FileFits, ReaderFits
    <3> QED BY <1>5, <1>15, <2>2, <2>4, <3>2, <3>3 DEF FileFits
  <2>6. CASE job[q].file # f
    <3>1. job[q].file # NoFile => files'[job[q].file] = files[job[q].file]
      BY <1>15, <2>3, <2>6
    <3>2. WriterFits(job[q])' /\ ReaderFits(job[q])'
      BY <1>1, <2>1, <3>1
         DEF JobInv, HoldsFile, FileFits, WriterFits, ReaderFits, Valid, WritingSteps
    <3> QED BY <1>5, <2>2, <2>6, <3>2 DEF FileFits
  <2> QED BY <2>5, <2>6
<1>18. EntryApart' /\ entry' \in Files \cup {NoFile} /\ temporary' \in Files \cup {NoFile}
  BY <1>1 DEF EntryApart, CacheInv, CacheTypes
<1>19. file.torn \/ ~files[f].torn
  BY <1>9, <1>11 DEF FileStates
<1> QED BY <1>1, <1>6, <1>12, <1>14, <1>16, <1>17, <1>18, <1>19, FileStep

LEMMA WriteCellsKeepsInv ==
  ASSUME CacheInv, NEW p \in Processes, WriteCells(p)
  PROVE  CacheInv'
<1>1. /\ job[p] \in Jobs /\ JobInv(job[p]) /\ job[p].step = "write_cells"
      /\ job \in [Processes -> Jobs]
      /\ UNCHANGED <<source, entry, temporary>> /\ source \in Editions
  BY JobFacts DEF WriteCells, At
<1>2. /\ job[p].file \in Files /\ job[p].file # NoFile
      /\ job[p].settings \in Settings /\ job[p].read = source /\ job[p].stamp = source
      /\ job[p].map = [geometry |-> source, cells |-> Preprocessed(source, job[p].settings),
                       hit |-> FALSE, torn |-> FALSE]
  BY <1>1 DEF JobInv, HoldsFile, ReadsNow, Jobs, LoadingSteps, SavingSteps, WritingSteps
<1>3. PICK f \in Files : f = job[p].file
  BY <1>2
<1>4. PICK b \in Blocks : b = job[p].block
  BY <1>1 DEF Jobs
<1>5. PICK content \in Contents :
        content = <<source, job[p].settings>> /\ Of(content, source)
  <2>1. <<source, job[p].settings>> \in Contents
    BY <1>1, <1>2 DEF Contents
  <2>2. <<source, job[p].settings>>[1] = source
    OBVIOUS
  <2> QED BY <2>1, <2>2 DEF Of
<1>6. files \in [Files -> FileStates]
  BY DEF CacheInv, CacheTypes
<1>7. PICK reach \in 0..3 :
        reach = IF files[f].reach < b THEN b ELSE files[f].reach
  <2>1. files[f].reach \in 0..3 /\ b \in 0..3
    BY <1>6 DEF FileStates, Blocks
  <2> QED BY <2>1
<1>8. PICK file \in FileStates :
        file = [files[f] EXCEPT !.cells[b] = content, !.reach = reach]
  <2>1. [files[f] EXCEPT !.cells[b] = content, !.reach = reach] \in FileStates
    BY <1>6 DEF FileStates, Cells
  <2> QED BY <2>1
<1>9. /\ file.head = files[f].head /\ file.reach = reach /\ file.torn = files[f].torn
      /\ \A c \in Blocks : file.cells[c] = IF c = b THEN content ELSE files[f].cells[c]
  BY <1>6, <1>8 DEF FileStates, Cells
<1>10. files' = [files EXCEPT ![f] = file]
  <2>1. job[p].map.cells[b] = content
    BY <1>2, <1>5 DEF Preprocessed
  <2>2. files' = [files EXCEPT ![f].cells[b] = content,
                               ![f].reach = IF @ < b THEN b ELSE @]
    BY <1>2, <1>3, <1>4, <2>1 DEF WriteCells
  <2> QED BY <1>6, <1>7, <1>8, <2>2 DEF FileStates
<1>11. /\ file.head # <<>> => file.head.stamp = source
       /\ \A c \in Blocks : Of(file.cells[c], source)
       /\ ~file.torn =>
            /\ file.head # <<>> /\ Valid(file.head, job[p].settings)
            /\ files[f].reach = b - 1
  BY <1>1, <1>3, <1>4, <1>5, <1>9 DEF JobInv, FileFits, WriterFits, WritingSteps
<1>12. FileWhole(file)
  <2>1. FileWhole(files[f])
    BY DEF CacheInv
  <2>2. file.head # <<>> =>
          /\ file.head.geometry = file.head.stamp
          /\ \A c \in Blocks : Of(file.cells[c], file.head.stamp)
    BY <1>9, <1>11, <2>1 DEF FileWhole
  <2>3. ASSUME ~file.torn, NEW c \in 1..file.reach
        PROVE  file.head # <<>> /\ file.cells[c] = <<file.head.stamp, file.head.settings>>
    <3>1. /\ file.head # <<>> /\ file.head.stamp = source
          /\ file.head.settings = job[p].settings /\ files[f].reach = b - 1
      BY <1>11, <2>3 DEF Valid
    <3>2. c \in Blocks /\ file.reach = b
      BY <1>7, <1>9, <3>1 DEF Blocks
    <3>3. CASE c = b
      BY <1>5, <1>9, <3>1, <3>2, <3>3
    <3>4. CASE c # b
      <4>1. c \in 1..files[f].reach
        BY <3>1, <3>2, <3>4 DEF Blocks
      <4>2. files[f].cells[c] = <<files[f].head.stamp, files[f].head.settings>>
        BY <1>9, <2>1, <2>3, <4>1 DEF FileWhole
      <4> QED BY <1>9, <3>1, <3>2, <3>4, <4>2
    <3> QED BY <3>3, <3>4
  <2> QED BY <2>2, <2>3 DEF FileWhole
<1>13. \A g \in Files : files'[g] = IF g = f THEN file ELSE files[g]
  BY <1>6, <1>10
<1>14. PICK j \in Jobs :
         /\ j = IF b = 3
                THEN [job[p] EXCEPT !.step = "publish", !.file = NoFile, !.block = 1]
                ELSE [job[p] EXCEPT !.block = b + 1]
         /\ job' = [job EXCEPT ![p] = j]
         /\ j.settings = job[p].settings /\ j.read = source /\ j.stamp = source
         /\ j.map = job[p].map
         /\ IF b = 3 THEN j.step = "publish" /\ j.file = NoFile /\ j.block = 1
            ELSE j.step = "write_cells" /\ j.file = f /\ j.block = b + 1
  <2>1. CASE b = 3
    <3>1. [job[p] EXCEPT !.step = "publish", !.file = NoFile, !.block = 1] \in Jobs
      BY <1>1, FirstBlock DEF Jobs, LoadingSteps
    <3>2. PICK j \in Jobs :
            j = [job[p] EXCEPT !.step = "publish", !.file = NoFile, !.block = 1]
      BY <3>1
    <3>3. job' = [job EXCEPT ![p] = j]
      BY <1>1, <1>4, <2>1, <3>2 DEF WriteCells
    <3>4. /\ j.settings = job[p].settings /\ j.read = source /\ j.stamp = source
          /\ j.map = job[p].map /\ j.step = "publish" /\ j.file = NoFile /\ j.block = 1
      BY <1>1, <1>2, <3>2 DEF Jobs
    <3> QED BY <2>1, <3>2, <3>3, <3>4
  <2>2. CASE b # 3
    <3>1. b + 1 \in Blocks
      BY <2>2 DEF Blocks
    <3>2. [job[p] EXCEPT !.block = b + 1] \in Jobs
      BY <1>1, <3>1 DEF Jobs
    <3>3. PICK j \in Jobs : j = [job[p] EXCEPT !.block = b + 1]
      BY <3>2
    <3>4. job' = [job EXCEPT ![p] = j]
      BY <1>1, <1>4, <2>2, <3>3 DEF WriteCells
    <3>5. /\ j.settings = job[p].settings /\ j.read = source /\ j.stamp = source
          /\ j.map = job[p].map /\ j.step = "write_cells" /\ j.file = f /\ j.block = b + 1
      BY <1>1, <1>2, <1>3, <3>3 DEF Jobs
    <3> QED BY <2>2, <3>3, <3>4, <3>5
  <2> QED BY <2>1, <2>2
<1>15. JobInv(j)'
  <2>1. HoldsFile(j)'
    BY <1>2, <1>3, <1>14 DEF HoldsFile, WritingSteps
  <2>2. ReadsNow(j)'
    BY <1>1, <1>2, <1>14 DEF ReadsNow, LoadingSteps, SavingSteps, WritingSteps
  <2>3. WriterFits(j)'
    <3>1. CASE b = 3
      BY <1>14, <3>1 DEF WriterFits, WritingSteps
    <3>2. CASE b # 3
      <4>1. /\ j.step = "write_cells" /\ j.file = f /\ j.block = b + 1
            /\ files'[f] = file /\ j.settings = job[p].settings
        BY <1>13, <1>14, <3>2
      <4>2. ~file.torn => file.reach = j.block - 1
        BY <1>7, <1>9, <1>11, <4>1 DEF Blocks
      <4>3. ~file.torn => file.head # <<>> /\ Valid(file.head, j.settings)'
        BY <1>1, <1>11, <4>1 DEF Valid
      <4>4. file.head # <<>> => file.head.stamp = source'
        BY <1>1, <1>11
      <4>5. \A c \in Blocks : Of(file.cells[c], source')
        BY <1>1, <1>11
      <4> QED BY <4>1, <4>2, <4>3, <4>4, <4>5 DEF WriterFits, Of
    <3> QED BY <3>1, <3>2
  <2>4. ReaderFits(j)' /\ HitFits(j)'
    BY <1>14 DEF ReaderFits, HitFits
  <2> QED BY <2>1, <2>2, <2>3, <2>4 DEF JobInv, FileFits
<1>16. ASSUME NEW q \in Processes \ {p}
       PROVE  /\ HoldsFile(job[q])' /\ FileFits(job[q])'
              /\ j.step \in WritingSteps /\ job[q].step \in WritingSteps
                   /\ j.file = job[q].file => files'[j.file].torn
  <2>1. job'[q] = job[q] /\ JobInv(job[q]) /\ job[q] \in Jobs
    BY <1>1, <1>14, JobFacts
  <2>2. HoldsFile(job[q])'
    BY <1>1, <2>1 DEF JobInv, HoldsFile
  <2>3. job[q].file # NoFile => job[q].file \in Files
    BY <2>1 DEF Jobs
  <2>4. job[q].step \in WritingSteps /\ job[q].file = f => file.torn
    BY <1>1, <1>3, <1>9 DEF CacheInv, SoleWriters, WritingSteps
  <2>5. CASE job[q].file = f
    <3>1. files'[job[q].file] = file
      BY <1>13, <2>5
    <3>2. WriterFits(job[q])'
      BY <1>1, <1>11, <2>1, <2>4, <2>5, <3>1 DEF WriterFits
    <3>3. ReaderFits(job[q])'
      BY <1>1, <1>9, <2>1, <2>5, <3>1 DEF JobInv, FileFits, ReaderFits
    <3> QED BY <1>13, <1>14, <2>2, <2>4, <2>5, <3>1, <3>2, <3>3 DEF FileFits
  <2>6. CASE job[q].file # f
    <3>1. job[q].file # NoFile => files'[job[q].file] = files[job[q].file]
      BY <1>13, <2>3, <2>6
    <3>2. WriterFits(job[q])' /\ ReaderFits(job[q])'
      BY <1>1, <2>1, <3>1
         DEF JobInv, HoldsFile, FileFits, WriterFits, ReaderFits, Valid, WritingSteps
    <3> QED BY <1>14, <2>2, <2>6, <3>2 DEF FileFits, WritingSteps
  <2> QED BY <2>5, <2>6
<1>17. EntryApart' /\ entry' \in Files \cup {NoFile} /\ temporary' \in Files \cup {NoFile}
  BY <1>1 DEF EntryApart, CacheInv, CacheTypes
<1>18. file.torn \/ ~files[f].torn
  BY <1>6, <1>9 DEF FileStates
<1> QED BY <1>1, <1>10, <1>12, <1>14, <1>15, <1>16, <1>17, <1>18, FileStep

(* Renaming the temporary file, or removing the entry, touches no file.     *)
LEMMA PublishingKeepsInv ==
  ASSUME CacheInv, NEW p \in Processes, Publish(p) \/ PublishAgain(p)
  PROVE  CacheInv'
<1>1. /\ job[p] \in Jobs /\ JobInv(job[p]) /\ job[p].step \in {"publish", "publish_again"}
      /\ job \in [Processes -> Jobs]
      /\ UNCHANGED <<source, files>> /\ source \in Editions
  BY JobFacts DEF Publish, PublishAgain, At
<1>2. PICK step \in {"publish_again", "loaded"} : job' = [job EXCEPT ![p].step = step]
  BY DEF Publish, PublishAgain, Rename, Goto
<1>3. PICK j \in Jobs : j = [job[p] EXCEPT !.step = step]
  <2>1. [job[p] EXCEPT !.step = step] \in Jobs
    BY <1>1, <1>2 DEF Jobs, LoadingSteps
  <2> QED BY <2>1
<1>4. /\ j.step = step /\ j.file = job[p].file /\ j.settings = job[p].settings
      /\ j.read = job[p].read /\ j.map = job[p].map /\ j.block = job[p].block
  BY <1>1, <1>3 DEF Jobs
<1>5. job' = [job EXCEPT ![p] = j]
  BY <1>1, <1>2, <1>3
<1>6. /\ entry' \in {entry, temporary, NoFile}
      /\ \/ temporary' = NoFile
         \/ temporary' = temporary /\ entry' \in {entry, NoFile}
  BY DEF Publish, PublishAgain, Rename
<1>7. EntryApart' /\ entry' \in Files \cup {NoFile} /\ temporary' \in Files \cup {NoFile}
  BY <1>6 DEF EntryApart, CacheInv, CacheTypes
<1>8. PICK f \in Files, file \in FileStates :
        files' = [files EXCEPT ![f] = file] /\ FileWhole(file) /\ file = files[f]
  <2>1. 1 \in Files /\ FileWhole(files[1]) /\ files \in [Files -> FileStates]
    BY FileNames DEF CacheInv, CacheTypes
  <2>2. files[1] \in FileStates /\ files' = [files EXCEPT ![1] = files[1]]
    BY <1>1, <2>1
  <2> QED BY <2>1, <2>2
<1>9. job[p].file = NoFile /\ ~job[p].map.hit /\ job[p].block = 1
  BY <1>1 DEF JobInv, HoldsFile, ReadsNow, SavingSteps, WritingSteps
<1>10. JobInv(j)' /\ j.step \notin WritingSteps
  BY <1>1, <1>2, <1>4, <1>9
     DEF JobInv, HoldsFile, ReadsNow, FileFits, WriterFits, ReaderFits, HitFits,
         LoadingSteps, SavingSteps, WritingSteps
<1>11. ASSUME NEW q \in Processes \ {p}
       PROVE  HoldsFile(job[q])' /\ FileFits(job[q])'
  <2>1. job'[q] = job[q] /\ JobInv(job[q])
    BY <1>1, <1>5, JobFacts
  <2>2. HoldsFile(job[q])'
    BY <1>1, <1>6, <2>1 DEF JobInv, HoldsFile
  <2>3. FileFits(job[q])'
    BY <1>1, <2>1 DEF JobInv, FileFits, WriterFits, ReaderFits, Valid
  <2> QED BY <2>2, <2>3
<1>12. file.torn \/ ~files[f].torn
  BY <1>8 DEF FileStates
<1>13. \A q \in Processes \ {p} :
         /\ HoldsFile(job[q])' /\ FileFits(job[q])'
         /\ j.step \in WritingSteps /\ job[q].step \in WritingSteps /\ j.file = job[q].file
              => files'[j.file].torn
  BY <1>10, <1>11
<1>14. UNCHANGED source /\ JobInv(j)' /\ FileWhole(file)
  BY <1>1, <1>8, <1>10
<1> QED BY <1>5, <1>7, <1>8, <1>12, <1>13, <1>14, FileStep

(* A source is edited while no map is loaded; what was loaded stays as it   *)
(* was.                                                                     *)
LEMMA EditKeepsInv ==
  ASSUME "edit_midway" \notin Mishaps, CacheInv, Edit
  PROVE  CacheInv'
<1>1. /\ UNCHANGED <<files, entry, temporary, job>>
      /\ \A p \in Processes : job[p].step \notin LoadingSteps
  BY DEF Edit, Loading, LoadingSteps
<1>2. source' \in Editions
  BY DEF Edit, CacheInv, CacheTypes, Editions
<1>3. ASSUME NEW p \in Processes
      PROVE  JobInv(job[p])'
  <2>1. JobInv(job[p]) /\ job[p].step \notin LoadingSteps
    BY <1>1, JobFacts
  <2>2. HoldsFile(job[p])' /\ HitFits(job[p])'
    BY <1>1, <2>1 DEF JobInv, HoldsFile, HitFits, NeverOutdated
  <2>3. ReadsNow(job[p])' /\ FileFits(job[p])'
    BY <1>1, <2>1 DEF ReadsNow, FileFits, WriterFits, ReaderFits, LoadingSteps,
                      SavingSteps, WritingSteps
  <2> QED BY <2>2, <2>3 DEF JobInv
<1>4. SoleWriters' /\ EntryApart' /\ (\A f \in Files : FileWhole(files[f]))'
  BY <1>1 DEF CacheInv, SoleWriters, EntryApart, FileWhole
<1> QED BY <1>1, <1>2, <1>3, <1>4 DEF CacheInv, CacheTypes

LEMMA CacheStartsInv ==
  ASSUME cacheInit
  PROVE  CacheInv
<1>1. /\ Blank(FALSE) \in FileStates /\ FileWhole(Blank(FALSE))
  BY DEF Blank, FileStates, NoCells, Cells, Contents, FileWhole
<1>2. /\ Idle \in Jobs /\ Idle.step = "idle" /\ Idle.file = NoFile /\ Idle.block = 1
  BY FirstBlock DEF Idle, Jobs, LoadingSteps, NoFile
<1>3. CacheTypes /\ EntryApart /\ \A f \in Files : FileWhole(files[f])
  BY <1>1, <1>2 DEF cacheInit, CacheTypes, EntryApart, Editions
<1>4. \A p \in Processes : job[p] = Idle
  BY DEF cacheInit
<1>5. JobInv(Idle)
  BY <1>2 DEF JobInv, HoldsFile, ReadsNow, FileFits, WriterFits, ReaderFits, HitFits,
              LoadingSteps, SavingSteps, WritingSteps
<1>6. SoleWriters
  BY <1>2, <1>4 DEF SoleWriters, WritingSteps
<1> QED BY <1>3, <1>4, <1>5, <1>6 DEF CacheInv

LEMMA LoadStepKeepsInv ==
  ASSUME CacheInv, NEW p \in Processes, LoadStep(p)
  PROVE  CacheInv'
BY OpenEntryKeepsInv, CheckKeepsInv, ReadCellsKeepsInv, ReadYamlKeepsInv, ReadImageKeepsInv,
   ReadUnusableKeepsInv, StampKeepsInv, SaveFailsKeepsInv, CreateKeepsInv, WriteHeadKeepsInv,
   WriteCellsKeepsInv, PublishingKeepsInv DEF LoadStep

(* What the service does to the cache and its processes is loading steps,   *)
(* edits, new loads and processes that go idle.                             *)
LEMMA ServiceKeepsCacheInv ==
  ASSUME "edit_midway" \notin Mishaps, CacheInv, [Next]_vars
  PROVE  CacheInv'
<1>1. CASE UNCHANGED cacheVars
  <2>1. /\ source' = source /\ files' = files /\ entry' = entry
        /\ temporary' = temporary /\ job' = job
    BY <1>1 DEF cacheVars
  <2>2. CacheTypes' /\ EntryApart' /\ SoleWriters'
    BY <2>1 DEF CacheInv, CacheTypes, EntryApart, SoleWriters
  <2>3. \A f \in Files : FileWhole(files'[f])
    BY <2>1 DEF CacheInv
  <2>4. ASSUME NEW p \in Processes
        PROVE  JobInv(job[p])'
    <3>1. JobInv(job[p])
      BY DEF CacheInv
    <3>2. HoldsFile(job[p])' /\ ReadsNow(job[p])'
      BY <2>1, <3>1 DEF JobInv, HoldsFile, ReadsNow
    <3>3. FileFits(job[p])' /\ HitFits(job[p])'
      BY <2>1, <3>1 DEF JobInv, FileFits, WriterFits, ReaderFits, HitFits,
                        NeverOutdated, Valid
    <3> QED BY <3>2, <3>3 DEF JobInv
  <2> QED BY <2>2, <2>3, <2>4 DEF CacheInv, FileWhole
<1>2. CASE EditSource
  BY <1>2, EditKeepsInv DEF EditSource
<1>3. ASSUME NEW p \in Processes, Receive(p)
      PROVE  CacheInv'
  <2>1. PICK r \in Requests : Load(p, r.settings) \/ UNCHANGED cacheVars
    BY <1>3 DEF Receive
  <2>2. r.settings \in Settings
    BY DEF Settings
  <2> QED BY <1>1, <2>1, <2>2, LoadKeepsInv
<1>4. ASSUME NEW p \in Processes, LoadMap(p)
      PROVE  CacheInv'
  BY <1>4, LoadStepKeepsInv DEF LoadMap
<1>5. ASSUME NEW p \in Processes, Loaded(p) \/ Crash(p)
      PROVE  CacheInv'
  BY <1>5, IdleKeepsInv DEF Loaded, Crash
<1>6. ASSUME NEW p \in Processes, Plan(p) \/ Export(p) \/ ExportFails(p) \/ Exported(p)
      PROVE  CacheInv'
  BY <1>1, <1>6 DEF Plan, Export, ExportFails, Exported
<1>7. CASE UNCHANGED vars
  BY <1>1, <1>7 DEF vars
<1> QED BY <1>2, <1>3, <1>4, <1>5, <1>6, <1>7 DEF Next, Serve

(* A map taken from the cache is of its sources as they were when the entry *)
(* was checked, in its geometry and in every block of cells, and is what    *)
(* they give with the settings asked for unless the entry was emptied under *)
(* another writer (map_bundle_loader.cpp:138, 218-245), for any number of   *)
(* processes that load, write and die at once, with whatever settings, as   *)
(* long as no source is edited midway: the run stale_cache shows one that   *)
(* is.                                                                      *)
THEOREM HitsAreCurrent ==
  ASSUME "edit_midway" \notin Mishaps
  PROVE  Spec => []HitIsCurrent
<1>1. Init => CacheInv
  BY CacheStartsInv DEF Init
<1>2. CacheInv /\ [Next]_vars => CacheInv'
  BY ServiceKeepsCacheInv
<1>3. CacheInv => HitIsCurrent
  BY DEF CacheInv, JobInv, HitFits, HitIsCurrent, At
<1> QED BY <1>1, <1>2, <1>3, PTL DEF Spec
-----------------------------------------------------------------------------
Steps == {"waiting", "loading", "planning", "exporting", "done"}
States == {"old", "cut", "whole"}

Services == [step : Steps, request : Requests \cup {<<>>}, written : Nat]
Disks == [Directories -> [1..4 -> States]]

ServiceTypes ==
  /\ service \in [Processes -> Services]
  /\ \A p \in Processes :
       Serving(p) => /\ service[p].request \in Requests
                     /\ service[p].step # "exporting" => service[p].written = 0
  /\ disk \in Disks
  /\ received \in Nat

(* No two processes export to one directory at a time ...                   *)
DirectoriesApart ==
  \A p, q \in Processes :
    p # q /\ Serving(p) /\ Serving(q) => Directory(p) # Directory(q)

(* ... so that what a process has exported is still there.                  *)
WrittenOnDisk ==
  \A p \in Processes :
    service[p].step = "exporting" =>
      /\ service[p].written <= Wanted(service[p].request)
      /\ \A k \in 1..service[p].written : disk[Directory(p)][k] \in Written(k)

ServiceInv == ServiceTypes /\ DirectoriesApart /\ WrittenOnDisk
-----------------------------------------------------------------------------
(* The files asked for are among those there are.                           *)
LEMMA WantedFiles ==
  ASSUME NEW r
  PROVE  Wanted(r) \in {3, 4} /\ DOMAIN Outputs = 1..4
BY DEF Wanted, Outputs

LEMMA WrittenStates ==
  /\ Written(1) = {"cut"} /\ Written(2) = Untested /\ Written(3) = {"whole"}
  /\ Written(4) = {"whole"} /\ Untested \subseteq {"cut", "whole"}
BY DEF Written, Untested

LEMMA AllOldStates == AllOld \in [1..4 -> States]
BY WantedFiles DEF AllOld, States

(* A step of one process that changes files of one directory at most, which *)
(* no other process uses.                                                   *)
LEMMA ServiceStep ==
  ASSUME ServiceInv, NEW p \in Processes, NEW s \in Services, NEW d,
         service' = [service EXCEPT ![p] = s], received' \in Nat, disk' \in Disks,
         \A e \in Directories \ {d} : disk'[e] = disk[e],
         \A q \in Processes \ {p} : Serving(q) => Directory(q) # d,
         s.step \in {"loading", "planning", "exporting"} =>
           /\ s.request \in Requests /\ s.request.directory = d
           /\ s.step # "exporting" => s.written = 0,
         s.step = "exporting" =>
           /\ s.written <= Wanted(s.request)
           /\ \A k \in 1..s.written : disk'[d][k] \in Written(k)
  PROVE  ServiceInv'
<1>1. /\ service'[p] = s
      /\ \A q \in Processes \ {p} : service'[q] = service[q]
      /\ service' \in [Processes -> Services]
  BY DEF ServiceInv, ServiceTypes
<1>2. /\ \A q \in Processes \ {p} : Serving(q)' = Serving(q) /\ Directory(q)' = Directory(q)
      /\ Serving(p)' <=> s.step \in {"loading", "planning", "exporting"}
      /\ Directory(p)' = s.request.directory
  BY <1>1 DEF Serving, Directory
<1>3. ServiceTypes'
  BY <1>1, <1>2 DEF ServiceInv, ServiceTypes
<1>4. DirectoriesApart'
  BY <1>2 DEF ServiceInv, DirectoriesApart
<1>5. ASSUME NEW q \in Processes, service'[q].step = "exporting"
      PROVE  /\ service'[q].written <= Wanted(service'[q].request)
             /\ \A k \in 1..service'[q].written : disk'[Directory(q)'][k] \in Written(k)
  <2>1. CASE q = p
    BY <1>1, <1>2, <1>5, <2>1
  <2>2. CASE q # p
    <3>1. /\ service'[q] = service[q] /\ service[q].step = "exporting" /\ Serving(q)
          /\ Directory(q)' = Directory(q)
      BY <1>1, <1>2, <1>5, <2>2 DEF Serving
    <3>2. Directory(q) \in Directories
      BY <3>1 DEF ServiceInv, ServiceTypes, Directory, Directories
    <3>3. disk'[Directory(q)] = disk[Directory(q)]
      BY <2>2, <3>1, <3>2
    <3> QED BY <3>1, <3>3 DEF ServiceInv, WrittenOnDisk
  <2> QED BY <2>1, <2>2
<1>6. WrittenOnDisk'
  BY <1>5 DEF WrittenOnDisk
<1> QED BY <1>3, <1>4, <1>6 DEF ServiceInv

(* A process that serves uses a directory of its own. *)
LEMMA ServingFacts ==
  ASSUME ServiceInv, NEW p \in Processes, Serving(p)
  PROVE  /\ service \in [Processes -> Services] /\ service[p] \in Services
         /\ service[p].request \in Requests /\ Directory(p) \in Directories
         /\ \A q \in Processes \ {p} : Serving(q) => Directory(q) # Directory(p)
         /\ received \in Nat /\ disk \in Disks
BY DEF ServiceInv, ServiceTypes, DirectoriesApart, Directory, Directories

(* A step after which a process serves nobody. *)
LEMMA AnswerKeepsInv ==
  ASSUME ServiceInv, NEW p \in Processes, Serving(p), NEW answer \in {"waiting", "done"},
         service' = [service EXCEPT ![p] = [Waiting EXCEPT !.step = answer]],
         UNCHANGED received, disk' \in Disks,
         \A e \in Directories \ {Directory(p)} : disk'[e] = disk[e]
  PROVE  ServiceInv'
<1>1. PICK s \in Services : s = [Waiting EXCEPT !.step = answer]
  <2>1. [Waiting EXCEPT !.step = answer] \in Services
    BY DEF Waiting, Services, Steps
  <2> QED BY <2>1
<1>2. s.step = answer
  BY <1>1 DEF Waiting
<1> QED BY <1>1, <1>2, ServingFacts, ServiceStep

LEMMA RefuseKeepsInv ==
  ASSUME ServiceInv, NEW p \in Processes, Serving(p), Refuse(p),
         UNCHANGED <<disk, received>>
  PROVE  ServiceInv'
<1>1. [Waiting EXCEPT !.step = "waiting"] = Waiting
  BY DEF Waiting
<1> QED BY <1>1, ServingFacts, AnswerKeepsInv DEF Refuse

LEMMA GoesKeepsInv ==
  ASSUME ServiceInv, NEW p \in Processes, Serving(p),
         NEW step \in {"planning", "exporting"}, Goes(p, step),
         service[p].step # "exporting",
         UNCHANGED <<disk, received>>
  PROVE  ServiceInv'
<1>1. /\ service \in [Processes -> Services] /\ service[p].request \in Requests
      /\ service[p].written = 0
  BY DEF ServiceInv, ServiceTypes
<1>2. PICK s \in Services : s = [service[p] EXCEPT !.step = step]
  <2>1. [service[p] EXCEPT !.step = step] \in Services
    BY <1>1 DEF Services, Steps
  <2> QED BY <2>1
<1>3. s.step = step /\ s.request = service[p].request /\ s.written = 0
  BY <1>1, <1>2 DEF Services
<1>4. service' = [service EXCEPT ![p] = s]
  BY <1>1, <1>2 DEF Goes
<1>5. /\ s.request \in Requests /\ s.request.directory = Directory(p)
      /\ s.written <= Wanted(s.request) /\ 1..s.written = {}
  BY <1>1, <1>3, WantedFiles DEF Directory
<1>6. disk' \in Disks /\ received' \in Nat /\ \A e \in Directories : disk'[e] = disk[e]
  BY ServingFacts
<1>7. \A q \in Processes \ {p} : Serving(q) => Directory(q) # Directory(p)
  BY ServingFacts
<1>8. \A k \in 1..s.written : disk'[Directory(p)][k] \in Written(k)
  BY <1>5
<1> QED BY <1>3, <1>4, <1>5, <1>6, <1>7, <1>8, ServiceStep

LEMMA ReceiveKeepsInv ==
  ASSUME ServiceInv, NEW p \in Processes, Receive(p)
  PROVE  ServiceInv'
<1>1. service \in [Processes -> Services] /\ received' \in Nat /\ disk \in Disks
  BY DEF Receive, ServiceInv, ServiceTypes
<1>2. PICK r \in Requests :
        /\ \A q \in Processes : Serving(q) => service[q].request.directory # r.directory
        /\ IF r.valid
           THEN /\ service' = [service EXCEPT ![p] =
                     [step |-> "loading", request |-> r, written |-> 0]]
                /\ disk' = [disk EXCEPT ![r.directory] = AllOld]
           ELSE Refuse(p) /\ UNCHANGED disk
  BY DEF Receive
<1>3. \A q \in Processes \ {p} : Serving(q) => Directory(q) # r.directory
  BY <1>2 DEF Directory
<1>4. CASE r.valid
  <2>1. PICK s \in Services : s = [step |-> "loading", request |-> r, written |-> 0]
    BY DEF Services, Steps
  <2>2. /\ service' = [service EXCEPT ![p] = s]
        /\ s.step = "loading" /\ s.request = r /\ s.written = 0
    BY <1>2, <1>4, <2>1
  <2>3. disk' \in Disks /\ \A e \in Directories \ {r.directory} : disk'[e] = disk[e]
    BY <1>1, <1>2, <1>4, AllOldStates DEF Disks
  <2> QED BY <1>1, <1>3, <2>2, <2>3, ServiceStep
<1>5. CASE ~r.valid
  <2>1. Waiting \in Services /\ Waiting.step = "waiting"
    BY DEF Waiting, Services, Steps
  <2>2. service' = [service EXCEPT ![p] = Waiting] /\ UNCHANGED disk
    BY <1>2, <1>5 DEF Refuse
  <2> QED BY <1>1, <1>3, <2>1, <2>2, ServiceStep
<1> QED BY <1>4, <1>5

(* Writing file k touches no other directory and no other file.             *)
LEMMA FileWritten ==
  ASSUME ServiceInv, NEW p \in Processes, Serving(p), NEW k \in 1..4, NEW state \in States
  PROVE  /\ WithFile(p, k, state) \in Disks
         /\ \A e \in Directories \ {Directory(p)} : WithFile(p, k, state)[e] = disk[e]
         /\ \A l \in 1..4 :
              WithFile(p, k, state)[Directory(p)][l] =
                IF l = k THEN state ELSE disk[Directory(p)][l]
<1>1. disk \in Disks /\ Directory(p) \in Directories
  BY ServingFacts
<1> QED BY <1>1 DEF WithFile, Disks

LEMMA ExportKeepsInv ==
  ASSUME ServiceInv, NEW p \in Processes, Export(p)
  PROVE  ServiceInv'
<1>1. /\ service[p].step = "exporting" /\ Serving(p) /\ UNCHANGED received
  BY DEF Export, Serving
<1>2. PICK k \in Nat : k = service[p].written + 1
  BY <1>1, ServingFacts DEF Services
<1>3. PICK state \in Written(k) : disk' = WithFile(p, k, state)
  BY <1>2 DEF Export
<1>4. /\ k \in 1..4 /\ k <= Wanted(service[p].request)
      /\ service' = [service EXCEPT ![p].written = k]
  BY <1>1, <1>2, WantedFiles, ServingFacts DEF Export, Services
<1>5. state \in States
  BY <1>3, <1>4, WrittenStates DEF States
<1>6. PICK s \in Services : s = [service[p] EXCEPT !.written = k]
  <2>1. [service[p] EXCEPT !.written = k] \in Services
    BY <1>1, ServingFacts DEF Services
  <2> QED BY <2>1
<1>7. /\ s.step = "exporting" /\ s.written = k /\ s.request = service[p].request
      /\ s.request.directory = Directory(p) /\ service' = [service EXCEPT ![p] = s]
  BY <1>1, <1>4, <1>6, ServingFacts DEF Services, Directory
<1>8. /\ disk' \in Disks
      /\ \A e \in Directories \ {Directory(p)} : disk'[e] = disk[e]
      /\ \A l \in 1..4 :
           disk'[Directory(p)][l] = IF l = k THEN state ELSE disk[Directory(p)][l]
  BY <1>1, <1>3, <1>4, <1>5, FileWritten
<1>9. ASSUME NEW l \in 1..k
      PROVE  disk'[Directory(p)][l] \in Written(l)
  <2>1. l \in 1..4
    BY <1>4
  <2>2. CASE l = k
    BY <1>3, <1>8, <2>1, <2>2
  <2>3. CASE l # k
    <3>1. l \in 1..service[p].written
      BY <1>1, <1>2, <2>3, ServingFacts DEF Services
    <3>2. disk[Directory(p)][l] \in Written(l)
      BY <1>1, <3>1 DEF ServiceInv, WrittenOnDisk
    <3> QED BY <1>8, <2>1, <2>3, <3>2
  <2> QED BY <2>2, <2>3
<1>10. /\ s.request \in Requests /\ s.written <= Wanted(s.request) /\ received' \in Nat
       /\ \A q \in Processes \ {p} : Serving(q) => Directory(q) # Directory(p)
  BY <1>1, <1>4, <1>7, ServingFacts
<1>11. \A l \in 1..s.written : disk'[Directory(p)][l] \in Written(l)
  BY <1>7, <1>9
<1> QED BY <1>7, <1>8, <1>10, <1>11, ServiceStep

(* Closing the plan writes no file but the plan's.                          *)
LEMMA PlanClosedFacts ==
  ASSUME ServiceInv, NEW p \in Processes, Serving(p), NEW state \in Untested
  PROVE  /\ PlanClosed(p, state) \in Disks
         /\ \A e \in Directories \ {Directory(p)} : PlanClosed(p, state)[e] = disk[e]
         /\ service[p].written # 0 =>
              \A l \in 1..4 :
                PlanClosed(p, state)[Directory(p)][l] =
                  IF l = 1 THEN state ELSE disk[Directory(p)][l]
<1>1. state \in States /\ 1 \in 1..4
  BY WrittenStates DEF States
<1>2. CASE service[p].written = 0
  BY <1>2, ServingFacts DEF PlanClosed
<1>3. CASE service[p].written # 0
  BY <1>1, <1>3, FileWritten DEF PlanClosed
<1> QED BY <1>2, <1>3

(* Closing the plan, and answering, leaves the other directories alone.     *)
LEMMA ClosingKeepsInv ==
  ASSUME ServiceInv, NEW p \in Processes, ExportFails(p) \/ Exported(p)
  PROVE  ServiceInv'
<1>1. /\ service[p].step = "exporting" /\ Serving(p) /\ UNCHANGED received
  BY DEF ExportFails, Exported, Serving
<1>2. PICK answer \in {"waiting", "done"} :
        service' = [service EXCEPT ![p] = [Waiting EXCEPT !.step = answer]]
  <2>1. [Waiting EXCEPT !.step = "waiting"] = Waiting
    BY DEF Waiting
  <2> QED BY <2>1 DEF ExportFails, Exported, Refuse
<1>3. PICK state \in Untested, k \in 1..4 :
        LET closed == PlanClosed(p, state)
        IN \/ disk' = closed
           \/ disk' = [closed EXCEPT ![Directory(p)][k] = "cut"]
  <2>1. CASE Exported(p)
    BY <2>1 DEF Exported
  <2>2. CASE ExportFails(p)
    <3>1. service[p].written + 1 \in 1..4
      BY <1>1, <2>2, WantedFiles, ServingFacts DEF ExportFails, Services
    <3> QED BY <2>2, <3>1 DEF ExportFails
  <2> QED BY <2>1, <2>2
<1>4. PICK closed \in Disks :
        /\ closed = PlanClosed(p, state)
        /\ \A e \in Directories \ {Directory(p)} : closed[e] = disk[e]
  BY <1>1, PlanClosedFacts
<1>5. disk' \in Disks /\ \A e \in Directories \ {Directory(p)} : disk'[e] = disk[e]
  <2>1. CASE disk' = closed
    BY <1>4, <2>1
  <2>2. CASE disk' = [closed EXCEPT ![Directory(p)][k] = "cut"]
    <3>1. "cut" \in States /\ Directory(p) \in Directories
      BY <1>1, ServingFacts DEF States
    <3> QED BY <1>4, <2>2, <3>1 DEF Disks
  <2> QED BY <1>3, <1>4, <2>1, <2>2
<1> QED BY <1>1, <1>2, <1>5, AnswerKeepsInv

LEMMA ServiceKeepsInv ==
  ASSUME ServiceInv, [Next]_vars
  PROVE  ServiceInv'
<1>1. CASE UNCHANGED <<service, disk, received>>
  BY <1>1 DEF ServiceInv, ServiceTypes, DirectoriesApart, WrittenOnDisk, Serving, Directory
<1>2. ASSUME NEW p \in Processes, Loaded(p) \/ Plan(p)
      PROVE  ServiceInv'
  <2>1. Serving(p) /\ UNCHANGED <<disk, received>>
    BY <1>2 DEF Loaded, Plan, Serving
  <2>2. CASE Refuse(p)
    BY <2>1, <2>2, RefuseKeepsInv
  <2>3. CASE service[p].step = "loading" /\ Goes(p, "planning")
    BY <2>1, <2>3, GoesKeepsInv
  <2>4. CASE service[p].step = "planning" /\ Goes(p, "exporting")
    BY <2>1, <2>4, GoesKeepsInv
  <2> QED BY <1>2, <2>2, <2>3, <2>4 DEF Loaded, Plan
<1>3. ASSUME NEW p \in Processes, Crash(p)
      PROVE  ServiceInv'
  BY <1>3, RefuseKeepsInv DEF Crash, Refuse
<1>4. CASE EditSource \/ UNCHANGED vars \/ \E p \in Processes : LoadMap(p)
  BY <1>1, <1>4 DEF EditSource, LoadMap, vars
<1> QED BY <1>2, <1>3, <1>4, ReceiveKeepsInv, ExportKeepsInv, ClosingKeepsInv
        DEF Next, Serve

LEMMA ServiceStartsInv ==
  ASSUME Init
  PROVE  ServiceInv
<1>1. service = [p \in Processes |-> Waiting] /\ Waiting \in Services
  BY DEF Init, Waiting, Services, Steps
<1>2. ASSUME NEW p \in Processes
      PROVE  ~Serving(p) /\ service[p].step # "exporting"
  BY <1>1 DEF Serving, Waiting
<1>3. disk \in Disks /\ received \in Nat
  BY AllOldStates DEF Init, Disks
<1> QED BY <1>1, <1>2, <1>3
        DEF ServiceInv, ServiceTypes, DirectoriesApart, WrittenOnDisk

(* Only the end of an export is answered so. *)
LEMMA OnlyExportedIsDone ==
  ASSUME ServiceInv, Next, NEW p \in Processes,
         service[p].step # "done", service'[p].step = "done"
  PROVE  Exported(p)
<1>1. service \in [Processes -> Services]
  BY DEF ServiceInv, ServiceTypes
<1>2. ~ UNCHANGED service
  OBVIOUS
<1>3. PICK q \in Processes : Receive(q) \/ Serve(q) \/ Crash(q)
  BY <1>2 DEF Next, EditSource
<1>4. ASSUME NEW s, service' = [service EXCEPT ![q] = s]
      PROVE  q = p /\ s.step = "done"
  BY <1>1, <1>4
<1>5. ~(service' = [service EXCEPT ![q] = Waiting])
  BY <1>4 DEF Waiting
<1>6. ~Receive(q)
  <2> SUFFICES ASSUME Receive(q) PROVE FALSE
    OBVIOUS
  <2>1. PICK s : s.step # "done" /\ service' = [service EXCEPT ![q] = s]
    BY <1>5 DEF Receive, Refuse
  <2> QED BY <1>4, <2>1
<1>7. ~Crash(q) /\ ~Refuse(q)
  BY <1>5 DEF Crash, Refuse
<1>8. \A step : Goes(q, step) => q = p /\ step = "done"
  BY <1>1 DEF Goes, Services
<1>9. ~Export(q)
  BY <1>1 DEF Export, Services
<1>10. Exported(q)
  BY <1>2, <1>3, <1>6, <1>7, <1>8, <1>9
     DEF Serve, LoadMap, Loaded, Plan, ExportFails
<1> QED BY <1>4, <1>10 DEF Exported

(* What is on disk when a process answers "done". *)
LEMMA DiskWhenDone ==
  ASSUME ServiceInv, Next, NEW p \in Processes,
         service[p].step # "done", service'[p].step = "done"
  PROVE  \E state \in Untested :
           \A l \in 1..Wanted(service[p].request) :
             /\ l \in 1..4
             /\ disk'[Directory(p)][l] \in IF l = 1 THEN {state} ELSE Written(l)
<1>1. Exported(p)
  BY OnlyExportedIsDone
<1>2. /\ service[p].step = "exporting" /\ Serving(p)
      /\ service[p].written = Wanted(service[p].request)
      /\ service[p].written \in {3, 4}
  BY <1>1, WantedFiles DEF Exported, Serving
<1>3. PICK state \in Untested : disk' = PlanClosed(p, state)
  BY <1>1 DEF Exported
<1>4. \A l \in 1..4 :
        disk'[Directory(p)][l] = IF l = 1 THEN state ELSE disk[Directory(p)][l]
  BY <1>2, <1>3, PlanClosedFacts
<1>5. ASSUME NEW l \in 1..Wanted(service[p].request)
      PROVE  /\ l \in 1..4
             /\ disk'[Directory(p)][l] \in IF l = 1 THEN {state} ELSE Written(l)
  <2>1. l \in 1..4 /\ l \in 1..service[p].written
    BY <1>2
  <2>2. disk[Directory(p)][l] \in Written(l)
    BY <1>2, <2>1 DEF ServiceInv, WrittenOnDisk
  <2> QED BY <1>4, <2>1, <2>2
<1> QED BY <1>5

(* When a process answers "done", every file of the plan is on disk, whole  *)
(* and of the request answered (plan_exporter.cpp:379-483, handle_plan in   *)
(* mission_planner_node.cpp), for any number of processes, requests and     *)
(* crashes, and whatever the cache does: if the disk does not fill up       *)
(* unnoticed, as it does in the run full_disk.                              *)
THEOREM DoneIsOnDisk ==
  ASSUME "full_disk" \notin Mishaps
  PROVE  Spec => SuccessIsOnDisk
<1> DEFINE OnDisk(p) ==
      service[p].step # "done" /\ service'[p].step = "done" =>
        \A k \in 1..Wanted(service[p].request) : disk'[Directory(p)][k] = "whole"
<1>1. ASSUME ServiceInv, Next, NEW p \in Processes
      PROVE  OnDisk(p)
  <2> SUFFICES ASSUME service[p].step # "done", service'[p].step = "done",
                      NEW k \in 1..Wanted(service[p].request)
               PROVE  disk'[Directory(p)][k] = "whole"
    OBVIOUS
  <2>1. Untested = {"whole"}
    BY DEF Untested
  <2>2. PICK state \in Untested :
          k \in 1..4 /\ disk'[Directory(p)][k] \in IF k = 1 THEN {state} ELSE Written(k)
    BY <1>1, DiskWhenDone
  <2> QED BY <2>1, <2>2, WrittenStates
<1>2. ServiceInv /\ [Next]_vars => [\A p \in Processes : OnDisk(p)]_vars
  BY <1>1
<1>3. Init => ServiceInv
  BY ServiceStartsInv
<1>4. ServiceInv /\ [Next]_vars => ServiceInv'
  BY ServiceKeepsInv
<1> QED BY <1>2, <1>3, <1>4, PTL DEF Spec, SuccessIsOnDisk

(* Even on a full disk: no file of the plan is left from an earlier request *)
(* when a process answers "done", and the images and the animation, whose   *)
(* writing is tested (plan_exporter.cpp:480), are whole.                    *)
SuccessIsWritten ==
  [][\A p \in Processes :
       service[p].step # "done" /\ service'[p].step = "done" =>
         \A k \in 1..Wanted(service[p].request) :
           /\ disk'[Directory(p)][k] # "old"
           /\ k > 2 => disk'[Directory(p)][k] = "whole"]_vars

THEOREM DoneIsWritten == Spec => SuccessIsWritten
<1> DEFINE OnDisk(p) ==
      service[p].step # "done" /\ service'[p].step = "done" =>
        \A k \in 1..Wanted(service[p].request) :
          /\ disk'[Directory(p)][k] # "old"
          /\ k > 2 => disk'[Directory(p)][k] = "whole"
<1>1. ASSUME ServiceInv, Next, NEW p \in Processes
      PROVE  OnDisk(p)
  <2> SUFFICES ASSUME service[p].step # "done", service'[p].step = "done",
                      NEW k \in 1..Wanted(service[p].request)
               PROVE  /\ disk'[Directory(p)][k] # "old"
                      /\ k > 2 => disk'[Directory(p)][k] = "whole"
    OBVIOUS
  <2>1. PICK state \in Untested :
          k \in 1..4 /\ disk'[Directory(p)][k] \in IF k = 1 THEN {state} ELSE Written(k)
    BY <1>1, DiskWhenDone
  <2>2. k \in {1, 2, 3, 4}
    BY <2>1
  <2> QED BY <2>1, <2>2, WrittenStates
<1>2. ServiceInv /\ [Next]_vars => [\A p \in Processes : OnDisk(p)]_vars
  BY <1>1
<1>3. Init => ServiceInv
  BY ServiceStartsInv
<1>4. ServiceInv /\ [Next]_vars => ServiceInv'
  BY ServiceKeepsInv
<1> QED BY <1>2, <1>3, <1>4, PTL DEF Spec, SuccessIsWritten
=============================================================================
