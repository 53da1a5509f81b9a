------------------------- MODULE ConfigReloadProofs -------------------------
(***************************************************************************)
(* Proofs about ConfigReload: what a Load that races edits of the files    *)
(* and other Loads hands to the collector, for any files and contents and  *)
(* any number of reloaders, reloads and edits.                             *)
(*                                                                         *)
(* RunsWholeLoads needs Whole: a Load that could not list a directory has  *)
(* its error flag set, and so never reaches the scheduler.  QuietLoad      *)
(* needs Faithful: file by file, what a Load has read is what the files    *)
(* before the next one say, the last file with a key deciding.             *)
(* QuietReload follows with ResolveCorrect, which is about ResolveJobs     *)
(* alone: of the rounds of its loops that come to one pair, exactly one is *)
(* the first.                                                              *)
(***************************************************************************)
EXTENDS ConfigReload, RankingProofs, WellFoundedInduction

Fields == {"pc", "sec", "todo", "acc", "errs", "quiet", "listed"}
PCs == {"idle", "list", "read", "store", "started", "failed"}

\* load and disk are tables of the shape Init gives them.
Shape ==
    /\ DOMAIN load = Callers
    /\ \A c \in Callers : /\ DOMAIN load[c] = Fields
                          /\ DOMAIN load[c].acc = Sections
                          /\ load[c].pc \in PCs
                          /\ load[c].sec \in 1..6
                          /\ load[c].pc = "read" => load[c].sec \in 1..5
    /\ DOMAIN disk = Sections
    /\ \A s \in Sections : disk[s] \in [1..Slots[s] -> Contents[s] \cup {Unreadable, NoFile}]

\* The flags of a Load, and the counters of the bounds.
Flags ==
    /\ running \in BOOLEAN
    /\ \A c \in Callers : /\ load[c].errs \in BOOLEAN /\ load[c].quiet \in BOOLEAN
                          /\ load[c].listed \in BOOLEAN
    /\ trouble \in 0..MaxTrouble /\ reloads \in 0..MaxReloads

\* The files that a Load still has to read are files of its section.
Listed == \A c \in Callers : load[c].pc = "read" => load[c].todo \subseteq 1..Slots[Order[load[c].sec]]

\* No device has a zero setting, in a Load under way or in the scheduler.
NoZero(devices) == \A h \in DOMAIN devices : \A f \in DOMAIN Defaults : devices[h].opts[f] # 0
Resolved == NoZero(sched["devices"]) /\ \A c \in Callers : NoZero(load[c].acc["devices"])

\* A Load that could not list a directory fails; what a Reload is about to store,
\* and what the collector runs, comes from Loads that did not.
Whole ==
    /\ \A c \in Callers : load[c].errs \/ load[c].listed
    /\ \A c \in Callers : load[c].pc = "store" => load[c].acc \in whole
    /\ RunsWholeLoads

\* Start comes before every Reload.
StartFirst ==
    /\ running => load[Main].pc = "started"
    /\ \A c \in Reloaders : load[c].pc # "idle" => running

\* The tables are functions on the sections.
Tables == \A c \in Callers : load[c].acc = [s \in Sections |-> load[c].acc[s]]

\* What the files R of section s say, the last one with a key deciding, when
\* the section's directory is dir; what all its files say; and the objects on
\* disk D.
Merged(dir, s, R, objects) ==
    [k \in UNION {DOMAIN Convert(s, dir[f], objects) : f \in R} |->
       Convert(s, dir[Max({f \in R : k \in DOMAIN Convert(s, dir[f], objects)})], objects)[k]]
Decoded(dir, s) == {f \in 1..Slots[s] : dir[f] \notin {Unreadable, NoFile}}
Says(dir, s, objects) == Merged(dir, s, Decoded(dir, s), objects)
ObjectsOf(D) == Says(D["objects"], "objects", <<>>)

\* The part of Load r that is done is what the files on disk D say.
SoFar(D, r) ==
    LET s == Order[r.sec]
    IN  /\ \A j \in 1..5 : j < r.sec => r.acc[Order[j]] = Says(D[Order[j]], Order[j], ObjectsOf(D))
        /\ \A j \in 1..5 : j > r.sec \/ (j = r.sec /\ r.pc = "list") => r.acc[Order[j]] = <<>>
        /\ r.pc = "read" =>
             /\ \A f \in 1..Slots[s] : \A g \in r.todo :
                   f \in r.todo \/ f < g \/ D[s][f] = NoFile
             /\ r.acc[s] = Merged(D[s], s, Decoded(D[s], s) \ r.todo, ObjectsOf(D))
        /\ r.pc = "store" => r.sec = 6

\* What a Load that nobody disturbs has read so far is what the files say.
Loading == {"list", "read", "store"}
Faithful ==
    \A c \in Callers :
       load[c].pc \in Loading /\ load[c].quiet /\ ~load[c].errs => SoFar(disk, load[c])

\* Nobody has overtaken a quiet Reload.
NotOvertaken ==
    \A c \in Reloaders : load[c].pc = "store" /\ load[c].quiet =>
       ~load[c].errs /\ sched = load[c].acc

\* What a quiet Reload stores is what the files say, and what the scheduler runs.
QuietLoad ==
    \A c \in Reloaders : load[c].pc = "store" /\ load[c].quiet =>
       load[c].acc = ConfigOnDisk /\ sched = load[c].acc

IInv ==
    /\ Shape /\ Tables /\ Flags /\ Listed /\ Resolved
    /\ Whole /\ StartFirst /\ Faithful /\ NotOvertaken
-----------------------------------------------------------------------------
(* The sections, and the effect of each step on the table of Loads. *)

\* Order lists the five sections, each once.
LEMMA OrderFacts ==
    /\ Len(Order) = 5 /\ DOMAIN Order = 1..5
    /\ Order[1] = "devices" /\ Order[2] = "device_groups" /\ Order[3] = "object_groups"
    /\ Order[4] = "objects" /\ Order[5] = "enums"
    /\ \A j \in 1..5 : Order[j] \in Sections
    /\ \A s \in Sections : \E j \in 1..5 : s = Order[j]
    /\ \A j, k \in 1..5 : Order[j] = Order[k] => j = k
<1>1. /\ Len(Order) = 5 /\ DOMAIN Order = 1..5
      /\ Order[1] = "devices" /\ Order[2] = "device_groups" /\ Order[3] = "object_groups"
      /\ Order[4] = "objects" /\ Order[5] = "enums"
  BY DEF Order
<1> HIDE DEF Order
<1>2. /\ \A j \in 1..5 : Order[j] \in Sections
      /\ \A s \in Sections : \E j \in 1..5 : s = Order[j]
  BY <1>1 DEF Sections, ToSet
<1>3. ASSUME NEW j \in 1..5, NEW k \in 1..5, Order[j] = Order[k] PROVE j = k
  <2>1. \A n \in 1..5 : n = 1 \/ n = 2 \/ n = 3 \/ n = 4 \/ n = 5
    OBVIOUS
  <2> QED BY <1>1, <1>3, <2>1
<1> QED BY <1>1, <1>2, <1>3

\* A step of one Load leaves the others alone.
Frame(c) ==
    /\ DOMAIN load' = Callers /\ DOMAIN load'[c] = Fields
    /\ \A d \in Callers : d # c => load'[d] = load[d]

\* A Load that is not under way has read nothing and seen no error.
LEMMA IdleFacts ==
    /\ DOMAIN Idle = Fields /\ Idle.pc = "idle" /\ Idle.sec = 1 /\ Idle.todo = {}
    /\ Idle.acc = EmptyConfig /\ Idle.errs = FALSE /\ Idle.quiet = TRUE /\ Idle.listed = TRUE
    /\ DOMAIN EmptyConfig = Sections /\ \A s \in Sections : EmptyConfig[s] = <<>>
<1>1. DOMAIN Idle = Fields
  BY DEF Idle, Fields
<1>2. /\ Idle.pc = "idle" /\ Idle.sec = 1 /\ Idle.todo = {} /\ Idle.acc = EmptyConfig
  BY DEF Idle
<1>3. Idle.errs = FALSE /\ Idle.quiet = TRUE /\ Idle.listed = TRUE
  BY DEF Idle
<1>4. DOMAIN EmptyConfig = Sections /\ \A s \in Sections : EmptyConfig[s] = <<>>
  BY DEF EmptyConfig
<1> QED BY <1>1, <1>2, <1>3, <1>4

\* An edit changes one file, and no Load under way is quiet after it.
LEMMA EditEffect ==
    ASSUME Shape, Edit
    PROVE  /\ DOMAIN load' = Callers
           /\ \A c \in Callers :
                 /\ DOMAIN load'[c] = Fields
                 /\ load'[c].pc = load[c].pc /\ load'[c].sec = load[c].sec
                 /\ load'[c].todo = load[c].todo /\ load'[c].acc = load[c].acc
                 /\ load'[c].errs = load[c].errs /\ load'[c].listed = load[c].listed
                 /\ load'[c].quiet = FALSE
           /\ DOMAIN disk' = Sections
           /\ \A s \in Sections : disk'[s] \in [1..Slots[s] -> Contents[s] \cup {Unreadable, NoFile}]
           /\ trouble < MaxTrouble /\ trouble' = trouble + 1
           /\ UNCHANGED <<running, loadedCfg, sched, enums, reloads, whole>>
<1>1. PICK s \in Sections : \E f \in 1..Slots[s] : \E x \in Contents[s] \cup {Unreadable, NoFile} :
         Touch(s, f, x)
  BY DEF Edit, BeginEdit, FinishEdit, RemoveFile
<1>2. PICK f \in 1..Slots[s], x \in Contents[s] \cup {Unreadable, NoFile} : Touch(s, f, x)
  BY <1>1
<1>3. load' = [c \in Callers |-> [load[c] EXCEPT !.quiet = FALSE]]
  BY <1>2 DEF Touch
<1>4. /\ DOMAIN load' = Callers
      /\ \A c \in Callers :
            /\ DOMAIN load'[c] = Fields
            /\ load'[c].pc = load[c].pc /\ load'[c].sec = load[c].sec
            /\ load'[c].todo = load[c].todo /\ load'[c].acc = load[c].acc
            /\ load'[c].errs = load[c].errs /\ load'[c].listed = load[c].listed
            /\ load'[c].quiet = FALSE
  BY <1>3 DEF Shape, Fields
<1>5. /\ DOMAIN disk' = Sections
      /\ \A t \in Sections : disk'[t] \in [1..Slots[t] -> Contents[t] \cup {Unreadable, NoFile}]
  BY <1>2 DEF Touch, Shape
<1> QED BY <1>2, <1>4, <1>5 DEF Touch, appVars

\* A Start or a Reload begins: its Load is at the first directory, with nothing read.
LEMMA BeginEffect ==
    ASSUME Shape, NEW c \in Callers, Begin(c)
    PROVE  /\ Frame(c) /\ load[c].pc = "idle"
           /\ load'[c].pc = "list" /\ load'[c].sec = 1 /\ load'[c].todo = {}
           /\ load'[c].acc = EmptyConfig /\ load'[c].errs = FALSE
           /\ load'[c].quiet = TRUE /\ load'[c].listed = TRUE
           /\ UNCHANGED <<disk, running, loadedCfg, sched, enums, trouble, whole>>
<1>1. load' = [load EXCEPT ![c] = [Idle EXCEPT !.pc = "list"]]
  BY DEF Begin
<1>2. load'[c] = [Idle EXCEPT !.pc = "list"] /\ DOMAIN load' = Callers
      /\ \A d \in Callers : d # c => load'[d] = load[d]
  BY <1>1 DEF Shape
<1>3. /\ DOMAIN load'[c] = Fields
      /\ load'[c].pc = "list" /\ load'[c].sec = 1 /\ load'[c].todo = {}
      /\ load'[c].acc = EmptyConfig /\ load'[c].errs = FALSE
      /\ load'[c].quiet = TRUE /\ load'[c].listed = TRUE
  BY <1>2, IdleFacts DEF Fields
<1> QED BY <1>2, <1>3 DEF Begin, Frame, appVars

\* A directory is listed: the Load has all its files before it.
LEMMA ListEffect ==
    ASSUME Shape, NEW c \in Callers, List(c)
    PROVE  /\ Frame(c) /\ load[c].pc = "list" /\ load[c].sec \in 1..5
           /\ load'[c].pc = "read" /\ load'[c].sec = load[c].sec
           /\ load'[c].todo = {f \in 1..Slots[Order[load[c].sec]] :
                                 disk[Order[load[c].sec]][f] # NoFile}
           /\ load'[c].acc = load[c].acc /\ load'[c].errs = load[c].errs
           /\ load'[c].quiet = load[c].quiet /\ load'[c].listed = load[c].listed
           /\ UNCHANGED <<disk, running, loadedCfg, sched, enums, trouble, reloads, whole>>
<1>1. load[c].pc = "list" /\ load[c].sec \in 1..5
  BY OrderFacts DEF List, Shape
<1>2. /\ Frame(c)
      /\ load'[c].pc = "read" /\ load'[c].sec = load[c].sec
      /\ load'[c].todo = {f \in 1..Slots[Order[load[c].sec]] :
                            disk[Order[load[c].sec]][f] # NoFile}
      /\ load'[c].acc = load[c].acc /\ load'[c].errs = load[c].errs
      /\ load'[c].quiet = load[c].quiet /\ load'[c].listed = load[c].listed
  BY DEF List, Frame, Shape, Fields
<1> QED BY <1>1, <1>2 DEF List, appVars

\* A directory cannot be listed: the Load keeps the error and goes on to the next.
LEMMA ListFailEffect ==
    ASSUME Shape, NEW c \in Callers, ListFail(c)
    PROVE  /\ Frame(c) /\ load[c].pc = "list" /\ load[c].sec \in 1..5
           /\ load'[c].pc = "list" /\ load'[c].sec = load[c].sec + 1
           /\ load'[c].todo = load[c].todo
           /\ load'[c].acc = load[c].acc /\ load'[c].errs = TRUE
           /\ load'[c].quiet = load[c].quiet /\ load'[c].listed = FALSE
           /\ trouble < MaxTrouble /\ trouble' = trouble + 1
           /\ UNCHANGED <<disk, running, loadedCfg, sched, enums, reloads, whole>>
<1>1. load[c].pc = "list" /\ load[c].sec \in 1..5
  BY OrderFacts DEF ListFail, Shape
<1>2. /\ Frame(c)
      /\ load'[c].pc = load[c].pc /\ load'[c].sec = load[c].sec + 1
      /\ load'[c].todo = load[c].todo
      /\ load'[c].acc = load[c].acc /\ load'[c].errs = TRUE
      /\ load'[c].quiet = load[c].quiet /\ load'[c].listed = FALSE
  BY DEF ListFail, Frame, Shape, Fields
<1> QED BY <1>1, <1>2 DEF ListFail, appVars

\* Something below a directory vanishes: the Load leaves its section empty, keeps no
\* error and goes on to the next.
LEMMA ListVanishedEffect ==
    ASSUME Shape, NEW c \in Callers, ListVanished(c)
    PROVE  /\ Frame(c) /\ load[c].pc = "list" /\ load[c].sec \in 1..5
           /\ load'[c].pc = "list" /\ load'[c].sec = load[c].sec + 1
           /\ load'[c].todo = load[c].todo
           /\ load'[c].acc = load[c].acc /\ load'[c].errs = load[c].errs
           /\ load'[c].quiet = FALSE /\ load'[c].listed = load[c].listed
           /\ trouble < MaxTrouble /\ trouble' = trouble + 1
           /\ UNCHANGED <<disk, running, loadedCfg, sched, enums, reloads, whole>>
<1>1. load[c].pc = "list" /\ load[c].sec \in 1..5
  BY OrderFacts DEF ListVanished, Shape
<1>2. /\ Frame(c)
      /\ load'[c].pc = load[c].pc /\ load'[c].sec = load[c].sec + 1
      /\ load'[c].todo = load[c].todo
      /\ load'[c].acc = load[c].acc /\ load'[c].errs = load[c].errs
      /\ load'[c].quiet = FALSE /\ load'[c].listed = load[c].listed
  BY DEF ListVanished, Frame, Shape, Fields
<1> QED BY <1>1, <1>2 DEF ListVanished, appVars

\* The section's table after one more file.
Read(c) ==
    LET s   == Order[load[c].sec]
        raw == disk[s][Min(load[c].todo)]
    IN  IF raw \in {Unreadable, NoFile} THEN load[c].acc[s]
        ELSE Override(load[c].acc[s], Convert(s, raw, load[c].acc["objects"]))

\* One file is read: only its section of the result can change.
LEMMA ReadEffect ==
    ASSUME Shape, NEW c \in Callers, ReadFile(c)
    PROVE  /\ Frame(c) /\ load[c].pc = "read" /\ load[c].sec \in 1..5 /\ load[c].todo # {}
           /\ load'[c].pc = "read" /\ load'[c].sec = load[c].sec
           /\ load'[c].todo = load[c].todo \ {Min(load[c].todo)}
           /\ DOMAIN load'[c].acc = Sections
           /\ load'[c].acc = [s \in Sections |-> load'[c].acc[s]]
           /\ load'[c].acc[Order[load[c].sec]] = Read(c)
           /\ \A s \in Sections : s # Order[load[c].sec] => load'[c].acc[s] = load[c].acc[s]
           /\ load'[c].errs = load[c].errs
           /\ load'[c].quiet = load[c].quiet /\ load'[c].listed = load[c].listed
           /\ UNCHANGED <<disk, running, loadedCfg, sched, enums, trouble, reloads, whole>>
<1>1. load[c].pc = "read" /\ load[c].sec \in 1..5 /\ load[c].todo # {}
  BY DEF ReadFile, Shape
<1> DEFINE s == Order[load[c].sec]
<1>2. s \in Sections
  BY <1>1, OrderFacts
<1>3. load' = [load EXCEPT ![c].todo = @ \ {Min(load[c].todo)}, ![c].acc[s] = Read(c)]
  BY DEF ReadFile, Read
<1> HIDE DEF s
<1>4. /\ Frame(c)
      /\ load'[c].pc = load[c].pc /\ load'[c].sec = load[c].sec
      /\ load'[c].todo = load[c].todo \ {Min(load[c].todo)}
      /\ load'[c].errs = load[c].errs
      /\ load'[c].quiet = load[c].quiet /\ load'[c].listed = load[c].listed
      /\ load'[c].acc = [load[c].acc EXCEPT ![s] = Read(c)]
  BY <1>3 DEF Frame, Shape, Fields
<1>5. /\ DOMAIN load'[c].acc = Sections /\ load'[c].acc[s] = Read(c)
      /\ load'[c].acc = [t \in Sections |-> load'[c].acc[t]]
      /\ \A t \in Sections : t # s => load'[c].acc[t] = load[c].acc[t]
  BY <1>2, <1>4 DEF Shape
<1> QED BY <1>1, <1>4, <1>5 DEF ReadFile, appVars, s

\* A section is done: the Load moves to the next directory.
LEMMA NextSectionEffect ==
    ASSUME Shape, NEW c \in Callers, NextSection(c)
    PROVE  /\ Frame(c) /\ load[c].pc = "read" /\ load[c].sec \in 1..5 /\ load[c].todo = {}
           /\ load'[c].pc = "list" /\ load'[c].sec = load[c].sec + 1
           /\ load'[c].todo = load[c].todo
           /\ load'[c].acc = load[c].acc /\ load'[c].errs = load[c].errs
           /\ load'[c].quiet = load[c].quiet /\ load'[c].listed = load[c].listed
           /\ UNCHANGED <<disk, running, loadedCfg, sched, enums, trouble, reloads, whole>>
<1>1. load[c].pc = "read" /\ load[c].sec \in 1..5 /\ load[c].todo = {}
  BY DEF NextSection, Shape
<1>2. /\ Frame(c)
      /\ load'[c].pc = "list" /\ load'[c].sec = load[c].sec + 1
      /\ load'[c].todo = load[c].todo
      /\ load'[c].acc = load[c].acc /\ load'[c].errs = load[c].errs
      /\ load'[c].quiet = load[c].quiet /\ load'[c].listed = load[c].listed
  BY DEF NextSection, Frame, Shape, Fields
<1> QED BY <1>1, <1>2 DEF NextSection, appVars

\* A Load that saw an error ends and changes nothing that the collector runs.
LEMMA LoadFailsEffect ==
    ASSUME Shape, NEW c \in Callers, LoadFails(c)
    PROVE  /\ Frame(c) /\ load[c].pc = "list"
           /\ load'[c].pc = (IF c = Main THEN "failed" ELSE "idle")
           /\ load'[c].sec = 1 /\ load'[c].todo = {}
           /\ load'[c].acc = EmptyConfig /\ load'[c].errs = FALSE
           /\ load'[c].quiet = TRUE /\ load'[c].listed = TRUE
           /\ UNCHANGED <<disk, running, loadedCfg, sched, enums, trouble, reloads, whole>>
<1> DEFINE p == IF c = Main THEN "failed" ELSE "idle"
<1>1. load' = [load EXCEPT ![c] = [Idle EXCEPT !.pc = p]]
  BY DEF LoadFails
<1> HIDE DEF p
<1>2. load'[c] = [Idle EXCEPT !.pc = p] /\ DOMAIN load' = Callers
      /\ \A d \in Callers : d # c => load'[d] = load[d]
  BY <1>1 DEF Shape
<1>3. /\ DOMAIN load'[c] = Fields
      /\ load'[c].pc = p /\ load'[c].sec = 1 /\ load'[c].todo = {}
      /\ load'[c].acc = EmptyConfig /\ load'[c].errs = FALSE
      /\ load'[c].quiet = TRUE /\ load'[c].listed = TRUE
  BY <1>2, IdleFacts DEF Fields
<1> QED BY <1>2, <1>3 DEF LoadFails, Frame, appVars, p

\* Start takes the configuration it loaded, for the App and the scheduler both.
LEMMA StartEffect ==
    ASSUME Shape, NEW c \in Callers, StartPipeline(c)
    PROVE  /\ c = Main /\ Frame(c)
           /\ load[c].pc = "list" /\ load[c].sec = 6 /\ ~load[c].errs
           /\ load'[c].pc = "started" /\ load'[c].sec = load[c].sec
           /\ load'[c].todo = load[c].todo
           /\ load'[c].acc = load[c].acc /\ load'[c].errs = load[c].errs
           /\ load'[c].quiet = load[c].quiet /\ load'[c].listed = load[c].listed
           /\ running' = TRUE /\ loadedCfg' = load[c].acc /\ sched' = load[c].acc /\ Note(c)
           /\ enums' = load[c].acc["enums"]
           /\ UNCHANGED <<disk, trouble, reloads>>
<1>1. load[c].pc = "list" /\ load[c].sec = 6 /\ ~load[c].errs
  BY OrderFacts DEF StartPipeline, Succeeds, Shape
<1>2. /\ Frame(c)
      /\ load'[c].pc = "started" /\ load'[c].sec = load[c].sec
      /\ load'[c].todo = load[c].todo
      /\ load'[c].acc = load[c].acc /\ load'[c].errs = load[c].errs
      /\ load'[c].quiet = load[c].quiet /\ load'[c].listed = load[c].listed
  BY DEF StartPipeline, Frame, Shape, Fields
<1> QED BY <1>1, <1>2 DEF StartPipeline

\* Reload gives the scheduler what it loaded, and has yet to store it.
LEMMA SchedReloadEffect ==
    ASSUME Shape, NEW c \in Callers, SchedReload(c)
    PROVE  /\ c # Main
           /\ load[c].pc = "list" /\ load[c].sec = 6 /\ ~load[c].errs
           /\ DOMAIN load' = Callers
           /\ \A d \in Callers :
                 /\ DOMAIN load'[d] = Fields
                 /\ load'[d].pc = (IF d = c THEN "store" ELSE load[d].pc)
                 /\ load'[d].sec = load[d].sec
                 /\ load'[d].todo = load[d].todo /\ load'[d].acc = load[d].acc
                 /\ load'[d].errs = load[d].errs /\ load'[d].listed = load[d].listed
           /\ load'[c].quiet = load[c].quiet
           /\ \A d \in Callers : d # c => load'[d].quiet = FALSE
           /\ sched' = load[c].acc /\ Note(c)
           /\ UNCHANGED <<disk, running, loadedCfg, enums, trouble, reloads>>
<1>1. load[c].pc = "list" /\ load[c].sec = 6 /\ ~load[c].errs
  BY OrderFacts DEF SchedReload, Succeeds, Shape
<1>2. /\ DOMAIN load' = Callers
      /\ load'[c] = [load[c] EXCEPT !.pc = "store"]
      /\ \A d \in Callers : d # c => load'[d] = [load[d] EXCEPT !.quiet = FALSE]
  BY DEF SchedReload
<1>3. /\ \A d \in Callers :
            /\ DOMAIN load'[d] = Fields
            /\ load'[d].pc = (IF d = c THEN "store" ELSE load[d].pc)
            /\ load'[d].sec = load[d].sec
            /\ load'[d].todo = load[d].todo /\ load'[d].acc = load[d].acc
            /\ load'[d].errs = load[d].errs /\ load'[d].listed = load[d].listed
      /\ load'[c].quiet = load[c].quiet
      /\ \A d \in Callers : d # c => load'[d].quiet = FALSE
  BY <1>2 DEF Shape, Fields
<1> QED BY <1>1, <1>2, <1>3 DEF SchedReload

\* Reload stores the configuration under the App's lock and returns.
LEMMA StoreEffect ==
    ASSUME Shape, NEW c \in Callers, Store(c)
    PROVE  /\ Frame(c) /\ load[c].pc = "store"
           /\ load'[c].pc = "idle" /\ load'[c].sec = 1 /\ load'[c].todo = {}
           /\ load'[c].acc = EmptyConfig /\ load'[c].errs = FALSE
           /\ load'[c].quiet = TRUE /\ load'[c].listed = TRUE
           /\ loadedCfg' = load[c].acc
           /\ UNCHANGED <<disk, running, sched, enums, trouble, reloads, whole>>
<1>1. load'[c] = Idle /\ DOMAIN load' = Callers
      /\ \A d \in Callers : d # c => load'[d] = load[d]
  BY DEF Shape, Store
<1> QED BY <1>1, IdleFacts DEF Store, Frame
-----------------------------------------------------------------------------
(* Types, flags and listings. *)

\* A step of one Load, given what it makes of that Load.
LEMMA OneShape ==
    ASSUME Shape, NEW c \in Callers, Frame(c), disk' = disk,
           DOMAIN load'[c].acc = Sections, load'[c].pc \in PCs, load'[c].sec \in 1..6,
           load'[c].pc = "read" => load'[c].sec \in 1..5
    PROVE  Shape'
<1>1. \A d \in Callers : /\ DOMAIN load'[d] = Fields
                         /\ DOMAIN load'[d].acc = Sections
                         /\ load'[d].pc \in PCs
                         /\ load'[d].sec \in 1..6
                         /\ load'[d].pc = "read" => load'[d].sec \in 1..5
  BY DEF Frame, Shape
<1> QED BY <1>1 DEF Frame, Shape

\* Every step keeps the shape of the files and of the Loads.
LEMMA ShapeKept ==
    ASSUME Shape, Next
    PROVE  Shape'
<1>1. CASE Edit
  BY <1>1, EditEffect DEF Shape
<1> SUFFICES ASSUME NEW c \in Callers, Begin(c) \/ Load(c) PROVE Shape'
  BY <1>1 DEF Next
<1>2. DOMAIN load[c].acc = Sections
  BY DEF Shape
<1>3. CASE Begin(c)
  <2>1. Frame(c) /\ disk' = disk
    BY <1>3, BeginEffect
  <2>2. DOMAIN load'[c].acc = Sections /\ load'[c].pc = "list" /\ load'[c].sec = 1
    BY <1>2, <1>3, BeginEffect, IdleFacts
  <2> QED BY <2>1, <2>2, OneShape DEF PCs
<1>4. CASE List(c)
  BY <1>2, <1>4, ListEffect, OneShape DEF PCs
<1>5. CASE ListFail(c) \/ ListVanished(c)
  <2>1. Frame(c) /\ disk' = disk
    BY <1>5, ListFailEffect, ListVanishedEffect
  <2>2. /\ DOMAIN load'[c].acc = Sections /\ load'[c].pc = "list"
        /\ load'[c].sec = load[c].sec + 1 /\ load[c].sec \in 1..5
    BY Zenon, <1>2, <1>5, ListFailEffect, ListVanishedEffect
  <2>3. load'[c].sec \in 1..6
    BY <2>2
  <2> QED BY <2>1, <2>2, <2>3, OneShape DEF PCs
<1>6. CASE ReadFile(c)
  <2>1. Frame(c) /\ disk' = disk /\ DOMAIN load'[c].acc = Sections
    BY Zenon, <1>6, ReadEffect
  <2>2. load'[c].pc = "read" /\ load'[c].sec = load[c].sec /\ load[c].sec \in 1..5
    BY Zenon, <1>6, ReadEffect
  <2> QED BY <2>1, <2>2, OneShape DEF PCs
<1>7. CASE NextSection(c)
  BY <1>2, <1>7, NextSectionEffect, OneShape DEF PCs
<1>8. CASE LoadFails(c)
  <2>1. Frame(c) /\ disk' = disk
    BY <1>8, LoadFailsEffect
  <2>2. DOMAIN load'[c].acc = Sections /\ load'[c].pc \in {"failed", "idle"} /\ load'[c].sec = 1
    BY <1>2, <1>8, LoadFailsEffect, IdleFacts
  <2> QED BY <2>1, <2>2, OneShape DEF PCs
<1>9. CASE StartPipeline(c)
  <2>1. Frame(c) /\ disk' = disk
    BY <1>9, StartEffect
  <2>2. DOMAIN load'[c].acc = Sections /\ load'[c].pc = "started" /\ load'[c].sec = 6
    BY <1>2, <1>9, StartEffect
  <2> QED BY <2>1, <2>2, OneShape DEF PCs
<1>10. CASE SchedReload(c)
  <2>1. /\ DOMAIN load' = Callers /\ disk' = disk
        /\ \A d \in Callers : /\ DOMAIN load'[d] = Fields
                              /\ load'[d].pc = "store" \/ load'[d].pc = load[d].pc
                              /\ load'[d].sec = load[d].sec
                              /\ load'[d].acc = load[d].acc
    BY <1>10, SchedReloadEffect
  <2>2. \A d \in Callers : /\ load'[d].pc \in PCs
                           /\ load'[d].pc = "read" => load'[d].sec \in 1..5
    BY <2>1 DEF Shape, PCs
  <2> QED BY <2>1, <2>2 DEF Shape
<1>11. CASE Store(c)
  <2>1. Frame(c) /\ disk' = disk
    BY <1>11, StoreEffect
  <2>2. DOMAIN load'[c].acc = Sections /\ load'[c].pc = "idle" /\ load'[c].sec = 1
    BY <1>2, <1>11, StoreEffect, IdleFacts
  <2> QED BY <2>1, <2>2, OneShape DEF PCs
<1> QED BY <1>3, <1>4, <1>5, <1>6, <1>7, <1>8, <1>9, <1>10, <1>11 DEF Load

\* The flags stay Boolean, and the counters within their bounds.
LEMMA FlagsKept ==
    ASSUME Shape, Flags, Next
    PROVE  Flags'
<1>0. MaxTrouble \in Nat /\ MaxReloads \in Nat
  BY ReloadAssumption
<1>1. running' \in BOOLEAN
  <2>1. running' = running \/ running' = TRUE
    BY EditEffect DEF Next, Load, Begin, List, ListVanished, ListFail, ReadFile, NextSection, LoadFails,
       StartPipeline, SchedReload, Store, appVars
  <2> QED BY <2>1 DEF Flags
<1>2. trouble' \in 0..MaxTrouble
  <2>1. trouble' = trouble \/ (trouble < MaxTrouble /\ trouble' = trouble + 1)
    BY EditEffect DEF Next, Load, Begin, List, ListVanished, ListFail, ReadFile, NextSection, LoadFails,
       StartPipeline, SchedReload, Store
  <2> QED BY <1>0, <2>1 DEF Flags
<1>3. reloads' \in 0..MaxReloads
  <2>1. reloads' = reloads \/ (reloads < MaxReloads /\ reloads' = reloads + 1)
    BY EditEffect DEF Next, Load, Begin, List, ListVanished, ListFail, ReadFile, NextSection, LoadFails,
       StartPipeline, SchedReload, Store
  <2> QED BY <1>0, <2>1 DEF Flags
<1>4. \A d \in Callers : /\ load'[d].errs \in BOOLEAN /\ load'[d].quiet \in BOOLEAN
                         /\ load'[d].listed \in BOOLEAN
  <2>1. CASE Edit
    BY <2>1, EditEffect DEF Flags
  <2> SUFFICES ASSUME NEW c \in Callers, Begin(c) \/ Load(c), NEW d \in Callers
               PROVE  /\ load'[d].errs \in BOOLEAN /\ load'[d].quiet \in BOOLEAN
                      /\ load'[d].listed \in BOOLEAN
    BY <2>1 DEF Next
  <2>2. CASE SchedReload(c)
    BY <2>2, SchedReloadEffect DEF Flags
  <2>3. CASE d # c /\ load'[d] = load[d]
    BY <2>3 DEF Flags
  <2>4. ASSUME Frame(c),
               /\ load'[c].errs \in BOOLEAN /\ load'[c].quiet \in BOOLEAN
               /\ load'[c].listed \in BOOLEAN
        PROVE  /\ load'[d].errs \in BOOLEAN /\ load'[d].quiet \in BOOLEAN
               /\ load'[d].listed \in BOOLEAN
    BY <2>3, <2>4 DEF Frame
  <2>5. /\ load[c].errs \in BOOLEAN /\ load[c].quiet \in BOOLEAN /\ load[c].listed \in BOOLEAN
    BY DEF Flags
  <2>6. CASE Begin(c) \/ LoadFails(c) \/ Store(c)
    BY <2>4, <2>6, BeginEffect, LoadFailsEffect, StoreEffect
  <2>7. CASE ListFail(c) \/ ListVanished(c)
    BY <2>4, <2>5, <2>7, ListFailEffect, ListVanishedEffect
  <2>8. CASE List(c) \/ ReadFile(c) \/ NextSection(c) \/ StartPipeline(c)
    BY <2>4, <2>5, <2>8, ListEffect, ReadEffect, NextSectionEffect, StartEffect
  <2> QED BY <2>2, <2>6, <2>7, <2>8 DEF Load
<1> QED BY <1>1, <1>2, <1>3, <1>4 DEF Flags

\* A Load reads only files of its section.
LEMMA ListedKept ==
    ASSUME Shape, Listed, Next
    PROVE  Listed'
<1>1. CASE Edit
  BY <1>1, EditEffect DEF Listed
<1> SUFFICES ASSUME NEW c \in Callers, Begin(c) \/ Load(c) PROVE Listed'
  BY <1>1 DEF Next
<1>2. CASE SchedReload(c)
  <2>1. \A d \in Callers : /\ load'[d].pc = "store" \/ load'[d].pc = load[d].pc
                           /\ load'[d].sec = load[d].sec
                           /\ load'[d].todo = load[d].todo
    BY <1>2, SchedReloadEffect
  <2> QED BY <2>1 DEF Listed
<1>3. ASSUME Frame(c),
             load'[c].pc = "read" => load'[c].todo \subseteq 1..Slots[Order[load'[c].sec]]
      PROVE  Listed'
  BY <1>3 DEF Frame, Listed
<1>4. CASE List(c)
  BY <1>3, <1>4, ListEffect
<1>5. CASE ReadFile(c)
  BY <1>3, <1>5, ReadEffect DEF Listed
<1>6. CASE Begin(c) \/ ListFail(c) \/ ListVanished(c) \/ NextSection(c)
  BY <1>3, <1>6, BeginEffect, ListFailEffect, ListVanishedEffect, NextSectionEffect
<1>7. CASE LoadFails(c)
  BY <1>3, <1>7, LoadFailsEffect
<1>8. CASE StartPipeline(c) \/ Store(c)
  BY <1>3, <1>8, StartEffect, StoreEffect
<1> QED BY <1>2, <1>4, <1>5, <1>6, <1>7, <1>8 DEF Load
-----------------------------------------------------------------------------
(* The settings of the devices. *)

\* resolveDevice leaves no setting zero, and a merge of such tables has none.
LEMMA ResolveNonZero ==
    ASSUME NEW e
    PROVE  \A f \in DOMAIN Defaults : resolveDevice(e).opts[f] # 0
<1>1. \A f \in DOMAIN Defaults : Defaults[f] # 0
  BY DEF Defaults
<1> DEFINE o == [f \in DOMAIN Defaults |->
                   IF f \in DOMAIN e.opts /\ e.opts[f] # 0 THEN e.opts[f] ELSE Defaults[f]]
<1>2. \A f \in DOMAIN Defaults : o[f] # 0
  BY <1>1
<1>3. resolveDevice(e).opts = o
  BY DEF resolveDevice
<1> QED BY <1>2, <1>3

\* resolveDevice leaves no zero setting when the defaults have none.
LEMMA MergeNonZero ==
    ASSUME NEW raw, NEW objects, NEW old, NoZero(old)
    PROVE  NoZero(Override(old, Convert("devices", raw, objects)))
<1> DEFINE new == [h \in DOMAIN raw |-> resolveDevice(raw[h])]
           sum == Override(old, new)
<1>1. Convert("devices", raw, objects) = new
  BY DEF Convert
<1>2. /\ DOMAIN sum = DOMAIN raw \cup DOMAIN old
      /\ \A h \in DOMAIN sum : sum[h] = IF h \in DOMAIN raw THEN resolveDevice(raw[h]) ELSE old[h]
  BY DEF Override
<1>3. ASSUME NEW h \in DOMAIN sum, NEW f \in DOMAIN Defaults PROVE sum[h].opts[f] # 0
  <2>1. CASE h \in DOMAIN raw
    BY <1>2, <2>1, ResolveNonZero
  <2>2. CASE h \notin DOMAIN raw
    BY <1>2, <2>2 DEF NoZero
  <2> QED BY <2>1, <2>2
<1> QED BY <1>1, <1>3 DEF NoZero

\* Every step keeps it that no device that is loaded has a zero setting.
LEMMA ResolvedKept ==
    ASSUME Shape, Resolved, Next
    PROVE  Resolved'
<1>0. "devices" \in Sections
  BY OrderFacts
<1>1. NoZero(EmptyConfig["devices"])
  BY <1>0, IdleFacts DEF NoZero
<1>2. CASE Edit
  BY <1>2, EditEffect DEF Resolved
<1> SUFFICES ASSUME NEW c \in Callers, Begin(c) \/ Load(c) PROVE Resolved'
  BY <1>2 DEF Next
<1>3. ASSUME Frame(c), NoZero(load'[c].acc["devices"]), sched' = sched \/ sched' = load[c].acc
      PROVE  Resolved'
  BY <1>3 DEF Frame, Resolved
<1>4. NoZero(load[c].acc["devices"])
  BY DEF Resolved
<1>5. CASE Begin(c) \/ LoadFails(c) \/ Store(c)
  BY <1>1, <1>3, <1>5, BeginEffect, LoadFailsEffect, StoreEffect
<1>6. CASE List(c) \/ ListFail(c) \/ ListVanished(c) \/ NextSection(c) \/ StartPipeline(c)
  BY <1>3, <1>4, <1>6, ListEffect, ListFailEffect, ListVanishedEffect, NextSectionEffect,
     StartEffect
<1>7. CASE SchedReload(c)
  BY <1>4, <1>7, SchedReloadEffect DEF Resolved
<1>8. CASE ReadFile(c)
  <2>1. CASE Order[load[c].sec] = "devices"
    <3>1. load'[c].acc["devices"] = Read(c)
      BY <1>8, <2>1, ReadEffect
    <3>2. NoZero(Read(c))
      BY <1>4, <2>1, MergeNonZero DEF Read
    <3> QED BY <1>3, <1>8, <3>1, <3>2, ReadEffect
  <2>2. CASE Order[load[c].sec] # "devices"
    <3>1. load'[c].acc["devices"] = load[c].acc["devices"]
      BY <1>0, <1>8, <2>2, ReadEffect
    <3> QED BY <1>3, <1>4, <1>8, <3>1, ReadEffect
  <2> QED BY <2>1, <2>2
<1> QED BY <1>5, <1>6, <1>7, <1>8 DEF Load
-----------------------------------------------------------------------------
(* Whose configuration runs. *)

\* Start comes before every Reload.
LEMMA StartFirstKept ==
    ASSUME Shape, StartFirst, Next
    PROVE  StartFirst'
<1>0. Main \in Callers /\ \A r \in Reloaders : r \in Callers /\ r # Main
  BY ReloadAssumption DEF Callers
<1>1. CASE Edit
  <2>1. running' = running /\ \A d \in Callers : load'[d].pc = load[d].pc
    BY <1>1, EditEffect
  <2>2. running' => load'[Main].pc = "started"
    BY <1>0, <2>1 DEF StartFirst
  <2>3. \A r \in Reloaders : load'[r].pc # "idle" => running'
    BY <1>0, <2>1 DEF StartFirst
  <2> QED BY <2>2, <2>3 DEF StartFirst
<1> SUFFICES ASSUME NEW c \in Callers, Begin(c) \/ Load(c) PROVE StartFirst'
  BY <1>1 DEF Next
<1>2. ASSUME Frame(c), running' = running, c = Main => load[c].pc # "started",
             c # Main => running \/ load'[c].pc = "idle"
      PROVE  StartFirst'
  <2>1. running' => load'[Main].pc = "started"
    BY <1>0, <1>2 DEF StartFirst, Frame
  <2>2. \A r \in Reloaders : load'[r].pc # "idle" => running'
    BY <1>0, <1>2 DEF StartFirst, Frame
  <2> QED BY <2>1, <2>2 DEF StartFirst
<1>3. c # Main => c \in Reloaders
  BY DEF Callers
<1>4. CASE Begin(c)
  <2>1. running = (c # Main) /\ load[c].pc = "idle" /\ Frame(c) /\ running' = running
    BY <1>4, BeginEffect DEF Begin
  <2> QED BY <1>2, <2>1
<1>5. ASSUME load[c].pc \in {"list", "read", "store"}, Frame(c), running' = running
      PROVE  StartFirst'
  <2>1. load[c].pc # "idle" /\ load[c].pc # "started"
    BY <1>5
  <2>2. c # Main => running
    BY <1>3, <2>1 DEF StartFirst
  <2> QED BY <1>2, <1>5, <2>1, <2>2
<1>6. CASE List(c) \/ ListFail(c) \/ ListVanished(c)
  BY <1>5, <1>6, ListEffect, ListFailEffect, ListVanishedEffect
<1>7. CASE ReadFile(c) \/ NextSection(c)
  BY <1>5, <1>7, ReadEffect, NextSectionEffect
<1>8. CASE LoadFails(c) \/ Store(c)
  BY <1>5, <1>8, LoadFailsEffect, StoreEffect
<1>9. CASE StartPipeline(c)
  <2>1. c = Main /\ Frame(c) /\ load'[c].pc = "started" /\ running' = TRUE
    BY <1>9, StartEffect
  <2> QED BY <1>0, <2>1 DEF StartFirst, Frame
<1>10. CASE SchedReload(c)
  <2>1. c # Main /\ running' = running /\ load[c].pc = "list"
        /\ \A d \in Callers : load'[d].pc = IF d = c THEN "store" ELSE load[d].pc
    BY <1>10, SchedReloadEffect
  <2>2. running
    BY <1>3, <2>1 DEF StartFirst
  <2>3. running' => load'[Main].pc = "started"
    BY <1>0, <2>1 DEF StartFirst
  <2> QED BY <2>1, <2>2, <2>3 DEF StartFirst
<1> QED BY <1>4, <1>6, <1>7, <1>8, <1>9, <1>10 DEF Load

\* What runs, and what is about to be stored, are results of whole Loads.
LEMMA WholeKept ==
    ASSUME Shape, Whole, StartFirst, Next
    PROVE  Whole'
<1>0. Main \in Callers
  BY DEF Callers
<1>1. CASE Edit
  <2>1. /\ running' = running /\ loadedCfg' = loadedCfg /\ sched' = sched /\ whole' = whole
        /\ enums' = enums
        /\ \A d \in Callers : /\ load'[d].pc = load[d].pc /\ load'[d].acc = load[d].acc
                               /\ load'[d].errs = load[d].errs /\ load'[d].listed = load[d].listed
    BY <1>1, EditEffect
  <2>2. \A d \in Callers : load'[d].errs \/ load'[d].listed
    BY <2>1 DEF Whole
  <2>3. \A d \in Callers : load'[d].pc = "store" => load'[d].acc \in whole'
    BY <2>1 DEF Whole
  <2>4. RunsWholeLoads'
    BY <1>0, <2>1 DEF Whole, RunsWholeLoads
  <2> QED BY <2>2, <2>3, <2>4 DEF Whole
<1> SUFFICES ASSUME NEW c \in Callers, Begin(c) \/ Load(c) PROVE Whole'
  BY <1>1 DEF Next
<1>2. ASSUME Frame(c), load'[c].errs \/ load'[c].listed, load'[c].pc # "store",
             UNCHANGED <<running, sched, whole, enums>>, running => c # Main,
             loadedCfg' = loadedCfg \/ loadedCfg' \in whole
      PROVE  Whole'
  <2>1. \A d \in Callers : load'[d].errs \/ load'[d].listed
    BY <1>2 DEF Frame, Whole
  <2>2. \A d \in Callers : load'[d].pc = "store" => load'[d].acc \in whole'
    BY <1>2 DEF Frame, Whole
  <2>3. RunsWholeLoads'
    BY <1>0, <1>2 DEF Frame, Whole, RunsWholeLoads
  <2> QED BY <2>1, <2>2, <2>3 DEF Whole
<1>3. load[c].errs \/ load[c].listed
  BY DEF Whole
<1>m. load[c].pc \in {"list", "read", "store"} => (running => c # Main)
  BY DEF StartFirst
<1>4. CASE Begin(c)
  <2>0. running => c # Main
    BY <1>4 DEF Begin
  <2>1. Frame(c) /\ load'[c].pc # "store" /\ UNCHANGED <<running, sched, whole, enums, loadedCfg>>
    BY <1>4, BeginEffect
  <2>2. load'[c].listed
    BY <1>4, BeginEffect
  <2> QED BY <1>2, <2>0, <2>1, <2>2
<1>5. CASE List(c) \/ ListVanished(c) \/ ReadFile(c) \/ NextSection(c)
  <2>1. /\ Frame(c) /\ load'[c].pc # "store" /\ UNCHANGED <<running, sched, whole, enums, loadedCfg>>
        /\ load'[c].errs = load[c].errs /\ load'[c].listed = load[c].listed
        /\ load[c].pc \in {"list", "read"}
    BY <1>5, ListEffect, ListVanishedEffect, ReadEffect, NextSectionEffect
  <2> QED BY <1>2, <1>3, <1>m, <2>1
<1>6. CASE ListFail(c)
  <2>1. Frame(c) /\ load'[c].pc # "store" /\ UNCHANGED <<running, sched, whole, enums, loadedCfg>>
    BY <1>6, ListFailEffect
  <2>0. load[c].pc = "list"
    BY <1>6, ListFailEffect
  <2>2. load'[c].errs
    BY <1>6, ListFailEffect
  <2> QED BY <1>2, <1>m, <2>0, <2>1, <2>2
<1>7. CASE LoadFails(c)
  <2>1. Frame(c) /\ load'[c].pc # "store" /\ UNCHANGED <<running, sched, whole, enums, loadedCfg>>
    BY <1>7, LoadFailsEffect
  <2>0. load[c].pc = "list"
    BY <1>7, LoadFailsEffect
  <2>2. load'[c].listed
    BY <1>7, LoadFailsEffect
  <2> QED BY <1>2, <1>m, <2>0, <2>1, <2>2
<1>8. CASE Store(c)
  <2>1. /\ Frame(c) /\ load'[c].pc # "store" /\ UNCHANGED <<running, sched, whole, enums>>
        /\ load[c].pc = "store" /\ loadedCfg' = load[c].acc
    BY <1>8, StoreEffect
  <2>2. load'[c].listed
    BY <1>8, StoreEffect
  <2>3. loadedCfg' \in whole
    BY <2>1 DEF Whole
  <2> QED BY <1>2, <1>m, <2>1, <2>2, <2>3
<1>9. ASSUME ~load[c].errs, Note(c)
      PROVE  whole' = whole \cup {load[c].acc}
  BY <1>3, <1>9 DEF Note
<1>10. CASE StartPipeline(c)
  <2>1. /\ Frame(c) /\ load'[c].pc = "started"
        /\ loadedCfg' = load[c].acc /\ sched' = load[c].acc
        /\ c = Main /\ enums' = load[c].acc["enums"] /\ load'[c].acc = load[c].acc
        /\ load'[c].errs = load[c].errs /\ load'[c].listed = load[c].listed
    BY <1>10, StartEffect
  <2>2. whole' = whole \cup {load[c].acc}
    BY <1>9, <1>10, StartEffect
  <2>3. \A d \in Callers : load'[d].errs \/ load'[d].listed
    BY <2>1 DEF Frame, Whole
  <2>4. \A d \in Callers : load'[d].pc = "store" => load'[d].acc \in whole'
    BY <2>1, <2>2 DEF Frame, Whole
  <2>5. RunsWholeLoads'
    BY <2>1, <2>2 DEF RunsWholeLoads
  <2> QED BY <2>3, <2>4, <2>5 DEF Whole
<1>11. CASE SchedReload(c)
  <2>1. /\ \A d \in Callers :
              /\ load'[d].pc = (IF d = c THEN "store" ELSE load[d].pc)
              /\ load'[d].acc = load[d].acc
              /\ load'[d].errs = load[d].errs /\ load'[d].listed = load[d].listed
        /\ loadedCfg' = loadedCfg /\ running' = running /\ sched' = load[c].acc
        /\ enums' = enums
    BY <1>11, SchedReloadEffect
  <2>2. whole' = whole \cup {load[c].acc}
    BY <1>9, <1>11, SchedReloadEffect
  <2>3. \A d \in Callers : load'[d].errs \/ load'[d].listed
    BY <2>1 DEF Whole
  <2>4. \A d \in Callers : load'[d].pc = "store" => load'[d].acc \in whole'
    BY <2>1, <2>2 DEF Whole
  <2>5. RunsWholeLoads'
    BY <1>0, <2>1, <2>2 DEF Whole, RunsWholeLoads
  <2> QED BY <2>3, <2>4, <2>5 DEF Whole
<1> QED BY <1>4, <1>5, <1>6, <1>7, <1>8, <1>10, <1>11 DEF Load

\* A Reload that hands its result over is the last to have done so, until
\* another one marks it as not quiet.
LEMMA NotOvertakenKept ==
    ASSUME Shape, StartFirst, NotOvertaken, Next
    PROVE  NotOvertaken'
<1>0. \A r \in Reloaders : r \in Callers /\ r # Main
  BY ReloadAssumption DEF Callers
<1>1. CASE Edit
  BY <1>0, <1>1, EditEffect DEF NotOvertaken
<1> SUFFICES ASSUME NEW c \in Callers, Begin(c) \/ Load(c) PROVE NotOvertaken'
  BY <1>1 DEF Next
<1>2. ASSUME Frame(c), load'[c].pc # "store", sched' = sched
      PROVE  NotOvertaken'
  BY <1>0, <1>2 DEF Frame, NotOvertaken
<1>3. CASE Begin(c) \/ List(c) \/ ListFail(c) \/ ListVanished(c) \/ ReadFile(c) \/ NextSection(c)
  BY <1>2, <1>3, BeginEffect, ListEffect, ListFailEffect, ListVanishedEffect, ReadEffect,
     NextSectionEffect
<1>4. CASE LoadFails(c) \/ Store(c)
  BY <1>2, <1>4, LoadFailsEffect, StoreEffect
<1>5. CASE StartPipeline(c)
  <2>1. c = Main /\ Frame(c) /\ load[c].pc = "list"
    BY <1>5, StartEffect
  <2>2. ~running
    BY <2>1 DEF StartFirst
  <2>3. \A r \in Reloaders : load[r].pc = "idle"
    BY <2>2 DEF StartFirst
  <2>4. \A r \in Reloaders : load'[r].pc = "idle"
    BY <1>0, <2>1, <2>3 DEF Frame
  <2> QED BY <2>4 DEF NotOvertaken
<1>6. CASE SchedReload(c)
  <2>1. /\ sched' = load[c].acc /\ load'[c].acc = load[c].acc
        /\ \A d \in Callers : d # c => load'[d].quiet = FALSE
        /\ load'[c].errs = load[c].errs /\ ~load[c].errs
    BY <1>6, SchedReloadEffect
  <2> QED BY <1>0, <2>1 DEF NotOvertaken
<1> QED BY <1>3, <1>4, <1>5, <1>6 DEF Load
-----------------------------------------------------------------------------
(* What a Load makes of the files. *)

\* No files say nothing.
LEMMA MergedNone ==
    ASSUME NEW dir, NEW s, NEW objects
    PROVE  Merged(dir, s, {}, objects) = <<>>
<1> DEFINE D == UNION {DOMAIN Convert(s, dir[f], objects) : f \in {}}
<1>1. D = {}
  OBVIOUS
<1>2. DOMAIN Merged(dir, s, {}, objects) = {}
  BY <1>1 DEF Merged
<1> DEFINE e == Merged(dir, s, {}, objects)
<1>3. e \in [1..0 -> {}]
  BY <1>1, 1..0 = {} DEF Merged
<1>4. e \in Seq({}) /\ Len(e) = 0
  BY <1>3, <1>2
<1> QED BY <1>4, EmptySeq

\* File f of N comes after the files R.
Later(f, R, N) == N \in Nat /\ f \in 1..N /\ R \subseteq 1..N /\ \A g \in R : g < f

\* One more file, later than the others, replaces the entries it has.
LEMMA MergedMore ==
    ASSUME NEW dir, NEW s, NEW objects, NEW N, NEW R, NEW f, Later(f, R, N)
    PROVE  Merged(dir, s, R \cup {f}, objects) =
             Override(Merged(dir, s, R, objects), Convert(s, dir[f], objects))
<1> DEFINE P(g) == Convert(s, dir[g], objects)
           Q == R \cup {f}
           Has(k, S) == {g \in S : k \in DOMAIN P(g)}
           old == Merged(dir, s, R, objects)
           D == UNION {DOMAIN P(g) : g \in R}
           E == UNION {DOMAIN P(g) : g \in Q}
<1>0. N \in Nat /\ f \in 1..N /\ R \subseteq 1..N /\ \A g \in R : g < f
  BY DEF Later
<1>1. E = D \cup DOMAIN P(f)
  OBVIOUS
<1>2. DOMAIN old = D /\ \A k \in D : old[k] = P(Max(Has(k, R)))[k]
  BY DEF Merged
<1>3. Merged(dir, s, Q, objects) = [k \in E |-> P(Max(Has(k, Q)))[k]]
  BY DEF Merged
<1>4. ASSUME NEW k \in DOMAIN P(f) PROVE Max(Has(k, Q)) = f
  <2> HIDE DEF P
  <2>1. Has(k, Q) \subseteq Q /\ f \in Has(k, Q)
    BY <1>4
  <2> HIDE DEF Has
  <2>2. Has(k, Q) \subseteq 1..N /\ \A y \in Has(k, Q) : f >= y
    <3>1. Has(k, Q) \subseteq 1..N
      BY <1>0, <2>1
    <3>2. ASSUME NEW y \in Has(k, Q) PROVE f >= y
      <4>1. y \in R \/ y = f
        BY <2>1, <3>2
      <4>2. y \in Int /\ f \in Int
        BY <1>0, <3>1, <3>2
      <4> QED BY <1>0, <4>1, <4>2
    <3> QED BY <3>1, <3>2
  <2> QED BY <1>0, <2>1, <2>2, MaxIs
<1>5. ASSUME NEW k, k \notin DOMAIN P(f) PROVE Has(k, Q) = Has(k, R)
  BY <1>5
<1>6. Override(old, P(f)) = [k \in D \cup DOMAIN P(f) |-> IF k \in DOMAIN P(f) THEN P(f)[k] ELSE old[k]]
  BY <1>2 DEF Override
<1> HIDE DEF Has, P, D, E, Q, old
<1>7. \A k \in E : P(Max(Has(k, Q)))[k] = IF k \in DOMAIN P(f) THEN P(f)[k] ELSE old[k]
  <2> SUFFICES ASSUME NEW k \in E
               PROVE  P(Max(Has(k, Q)))[k] = IF k \in DOMAIN P(f) THEN P(f)[k] ELSE old[k]
    OBVIOUS
  <2>1. CASE k \in DOMAIN P(f)
    BY <1>4, <2>1
  <2>2. CASE k \notin DOMAIN P(f)
    BY <1>1, <1>2, <1>5, <2>2
  <2> QED BY <2>1, <2>2
<1>8. [k \in E |-> P(Max(Has(k, Q)))[k]] =
         [k \in D \cup DOMAIN P(f) |-> IF k \in DOMAIN P(f) THEN P(f)[k] ELSE old[k]]
  BY <1>1, <1>7
<1>9. Merged(dir, s, Q, objects) = Override(old, P(f))
  BY <1>3, <1>6, <1>8
<1> QED BY <1>9 DEF Q, old, P

\* Only the enumerations depend on the objects.
LEMMA ObjectsOnlyForEnums ==
    ASSUME NEW s, s # "enums", NEW o1, NEW o2
    PROVE  /\ \A raw : Convert(s, raw, o1) = Convert(s, raw, o2)
           /\ \A dir, R : Merged(dir, s, R, o1) = Merged(dir, s, R, o2)
           /\ \A dir : Says(dir, s, o1) = Says(dir, s, o2)
<1>1. \A raw : Convert(s, raw, o1) = Convert(s, raw, o2)
  BY DEF Convert
<1>2. ASSUME NEW dir, NEW R PROVE Merged(dir, s, R, o1) = Merged(dir, s, R, o2)
  BY <1>1 DEF Merged
<1> QED BY <1>1, <1>2 DEF Says
\* The accumulated tables stay functions on the sections.
LEMMA TablesKept ==
    ASSUME Shape, Tables, Next
    PROVE  Tables'
<1> DEFINE IsTable(t) == t = [s \in Sections |-> t[s]]
<1>1. \A c \in Callers : IsTable(load[c].acc)
  BY DEF Tables
<1>2. IsTable(EmptyConfig)
  BY DEF EmptyConfig
<1> HIDE DEF IsTable
<1> SUFFICES ASSUME NEW d \in Callers PROVE IsTable(load'[d].acc)
  BY DEF Tables, IsTable
<1>3. CASE Edit
  BY <1>1, <1>3, EditEffect
<1> SUFFICES ASSUME NEW c \in Callers, Begin(c) \/ Load(c) PROVE IsTable(load'[d].acc)
  BY <1>3 DEF Next
<1>4. ASSUME Frame(c), IsTable(load'[c].acc) PROVE IsTable(load'[d].acc)
  BY <1>1, <1>4 DEF Frame
<1>5. CASE Begin(c) \/ LoadFails(c) \/ Store(c)
  BY <1>2, <1>4, <1>5, BeginEffect, LoadFailsEffect, StoreEffect
<1>6. CASE List(c) \/ ListFail(c) \/ ListVanished(c) \/ NextSection(c) \/ StartPipeline(c)
  BY <1>1, <1>4, <1>6, ListEffect, ListFailEffect, ListVanishedEffect, NextSectionEffect,
     StartEffect
<1>7. CASE SchedReload(c)
  BY <1>1, <1>7, SchedReloadEffect
<1>8. CASE ReadFile(c)
  <2>1. Frame(c) /\ IsTable(load'[c].acc)
    BY <1>8, ReadEffect DEF IsTable
  <2> QED BY <1>4, <2>1
<1> QED BY <1>5, <1>6, <1>7, <1>8 DEF Load

\* The first listing of a section.
LEMMA ListSoFar ==
    ASSUME Shape, NEW c \in Callers, List(c), SoFar(disk, load[c])
    PROVE  SoFar(disk, load'[c])
<1> DEFINE k == load[c].sec
           s == Order[k]
           r == load'[c]
<1>1. /\ load[c].pc = "list" /\ k \in 1..5 /\ r.pc = "read" /\ r.sec = k /\ r.acc = load[c].acc
      /\ r.todo = {f \in 1..Slots[s] : disk[s][f] # NoFile}
  BY Zenon, ListEffect
<1>2. /\ \A j \in 1..5 : j < k => r.acc[Order[j]] = Says(disk[Order[j]], Order[j], ObjectsOf(disk))
      /\ \A j \in 1..5 : j > k => r.acc[Order[j]] = <<>>
      /\ r.acc[s] = <<>>
  BY <1>1 DEF SoFar
<1>3. \A f \in 1..Slots[s] : f \in r.todo \/ disk[s][f] = NoFile
  BY <1>1
<1>4. Decoded(disk[s], s) \ r.todo = {}
  BY <1>1 DEF Decoded
<1>5. r.acc[s] = Merged(disk[s], s, Decoded(disk[s], s) \ r.todo, ObjectsOf(disk))
  <2>1. Merged(disk[s], s, {}, ObjectsOf(disk)) = <<>>
    BY MergedNone
  <2> HIDE DEF s, r
  <2> QED BY <1>2, <1>4, <2>1
<1> HIDE DEF s, r
<1>6. /\ r.sec = k /\ r.pc = "read" /\ Order[r.sec] = s /\ k \in 1..5
  BY <1>1 DEF s
<1> HIDE DEF k
<1> QED BY <1>2, <1>3, <1>5, <1>6 DEF SoFar, s, r

\* One more file of the section.
LEMMA ReadSoFar ==
    ASSUME Shape, Listed, NEW c \in Callers, ReadFile(c), SoFar(disk, load[c])
    PROVE  SoFar(disk, load'[c])
<1> DEFINE k == load[c].sec
           s == Order[k]
           old == load[c]
           r == load'[c]
           m == Min(old.todo)
           O == ObjectsOf(disk)
           R == Decoded(disk[s], s) \ old.todo
<1>1. /\ old.pc = "read" /\ k \in 1..5 /\ old.todo # {} /\ r.pc = "read" /\ r.sec = k
      /\ r.todo = old.todo \ {m} /\ r.acc[s] = Read(c)
      /\ \A t \in Sections : t # s => r.acc[t] = old.acc[t]
  BY Zenon, ReadEffect
<1>2. s \in Sections /\ \A j \in 1..5 : j # k => Order[j] \in Sections /\ Order[j] # s
  BY <1>1, OrderFacts
<1>3. Slots[s] \in Nat /\ old.todo \subseteq 1..Slots[s]
  BY <1>1, <1>2, ReloadAssumption DEF Listed
<1>4. m \in old.todo /\ \A g \in old.todo : m <= g
  BY <1>1, <1>3, MinFacts
<1>5. /\ \A j \in 1..5 : j < k => old.acc[Order[j]] = Says(disk[Order[j]], Order[j], O)
      /\ \A j \in 1..5 : j > k => old.acc[Order[j]] = <<>>
      /\ \A f \in 1..Slots[s] : \A g \in old.todo : f \in old.todo \/ f < g \/ disk[s][f] = NoFile
      /\ old.acc[s] = Merged(disk[s], s, R, O)
  BY <1>1 DEF SoFar
<1>6. /\ \A j \in 1..5 : j < k => r.acc[Order[j]] = Says(disk[Order[j]], Order[j], O)
      /\ \A j \in 1..5 : j > k => r.acc[Order[j]] = <<>>
  BY <1>1, <1>2, <1>5
<1>7. ASSUME NEW f \in 1..Slots[s], NEW g \in r.todo
      PROVE  f \in r.todo \/ f < g \/ disk[s][f] = NoFile
  <2>1. g \in old.todo /\ g # m /\ g \in 1..Slots[s] /\ m \in 1..Slots[s]
    BY <1>1, <1>3, <1>4, <1>7
  <2>2. CASE f = m
    BY <1>4, <2>1, <2>2
  <2>3. CASE f # m
    BY <1>1, <1>5, <2>1, <2>3
  <2> QED BY <2>2, <2>3
<1>8. \A raw : Convert(s, raw, old.acc["objects"]) = Convert(s, raw, O)
  <2>1. CASE s = "enums"
    <3>1. k = 5 /\ Order[4] = "objects"
      BY <1>1, <2>1, OrderFacts
    <3>2. old.acc["objects"] = Says(disk["objects"], "objects", O)
      BY <1>5, <3>1
    <3>3. Says(disk["objects"], "objects", O) = O
      BY ObjectsOnlyForEnums DEF ObjectsOf
    <3> QED BY <3>2, <3>3
  <2>2. CASE s # "enums"
    BY <2>2, ObjectsOnlyForEnums
  <2> QED BY <2>1, <2>2
<1>9. r.acc[s] = Merged(disk[s], s, Decoded(disk[s], s) \ r.todo, O)
  <2>1. CASE disk[s][m] \in {Unreadable, NoFile}
    <3>1. Decoded(disk[s], s) \ r.todo = R
      BY <1>1, <2>1 DEF Decoded
    <3>2. Read(c) = old.acc[s]
      BY <2>1 DEF Read
    <3> QED BY <1>1, <1>5, <3>1, <3>2
  <2>2. CASE disk[s][m] \notin {Unreadable, NoFile}
    <3>1. m \in 1..Slots[s]
      BY <1>3, <1>4
    <3>2. Decoded(disk[s], s) \ r.todo = R \cup {m}
      BY <1>1, <2>2, <3>1 DEF Decoded
    <3>3. R \subseteq 1..Slots[s] /\ \A g \in R : g < m
      BY <1>4, <1>5 DEF Decoded
    <3>4. Merged(disk[s], s, R \cup {m}, O) =
             Override(Merged(disk[s], s, R, O), Convert(s, disk[s][m], O))
      <4> HIDE DEF m, R, O, s
      <4>1. Later(m, R, Slots[s])
        BY <1>3, <3>1, <3>3 DEF Later
      <4> QED BY <4>1, MergedMore
    <3>5. Read(c) = Override(old.acc[s], Convert(s, disk[s][m], old.acc["objects"]))
      BY <2>2 DEF Read
    <3>6. Read(c) = Override(Merged(disk[s], s, R, O), Convert(s, disk[s][m], O))
      BY <1>5, <1>8, <3>5
    <3> QED BY <1>1, <3>2, <3>4, <3>6
  <2> QED BY <2>1, <2>2
<1> HIDE DEF s, r, O
<1>10. r.sec = k /\ r.pc = "read" /\ Order[r.sec] = s /\ k \in 1..5
  BY <1>1 DEF s
<1> HIDE DEF k
<1> QED BY <1>6, <1>7, <1>9, <1>10 DEF SoFar, r, O

\* The section is complete.
LEMMA NextSoFar ==
    ASSUME Shape, NEW c \in Callers, NextSection(c), SoFar(disk, load[c])
    PROVE  SoFar(disk, load'[c])
<1> DEFINE k == load[c].sec
           s == Order[k]
           r == load'[c]
           O == ObjectsOf(disk)
<1>1. /\ load[c].pc = "read" /\ k \in 1..5 /\ load[c].todo = {}
      /\ r.pc = "list" /\ r.sec = k + 1 /\ r.acc = load[c].acc
  BY Zenon, NextSectionEffect
<1>2. /\ \A j \in 1..5 : j < k => r.acc[Order[j]] = Says(disk[Order[j]], Order[j], O)
      /\ \A j \in 1..5 : j > k => r.acc[Order[j]] = <<>>
      /\ r.acc[s] = Merged(disk[s], s, Decoded(disk[s], s) \ {}, O)
  BY <1>1 DEF SoFar
<1>3. r.acc[s] = Says(disk[s], s, O)
  <2>1. Decoded(disk[s], s) \ {} = Decoded(disk[s], s)
    OBVIOUS
  <2> QED BY <1>2, <2>1 DEF Says
<1> HIDE DEF r, O
<1>4. \A j \in 1..5 : j < k + 1 => r.acc[Order[j]] = Says(disk[Order[j]], Order[j], O)
  <2> SUFFICES ASSUME NEW j \in 1..5, j < k + 1
               PROVE  r.acc[Order[j]] = Says(disk[Order[j]], Order[j], O)
    OBVIOUS
  <2>1. j < k \/ j = k
    BY <1>1
  <2> QED BY <1>2, <1>3, <2>1
<1>5. \A j \in 1..5 : j > k + 1 \/ j = k + 1 => r.acc[Order[j]] = <<>>
  BY <1>1, <1>2
<1> QED BY <1>1, <1>4, <1>5 DEF SoFar, r, O

\* What an undisturbed Load has read so far stays what the files say.
LEMMA FaithfulKept ==
    ASSUME Shape, Listed, Faithful, Next
    PROVE  Faithful'
<1>1. CASE Edit
  BY <1>1, EditEffect DEF Faithful
<1> SUFFICES ASSUME NEW c \in Callers, Begin(c) \/ Load(c) PROVE Faithful'
  BY <1>1 DEF Next
<1>2. ASSUME Frame(c), disk' = disk,
             load'[c].pc \in Loading /\ load'[c].quiet /\ ~load'[c].errs => SoFar(disk, load'[c])
      PROVE  Faithful'
  BY <1>2 DEF Frame, Faithful
<1>3. CASE Begin(c)
  <2> DEFINE r == load'[c]
  <2>1. r.pc = "list" /\ r.sec = 1 /\ r.acc = EmptyConfig /\ Frame(c) /\ disk' = disk
    BY Zenon, <1>3, BeginEffect
  <2>2. \A j \in 1..5 : r.acc[Order[j]] = <<>>
    BY <2>1, IdleFacts, OrderFacts
  <2>3. \A j \in 1..5 : ~(j < 1)
    OBVIOUS
  <2>4. SoFar(disk, r)
    BY <2>1, <2>2, <2>3 DEF SoFar
  <2> QED BY <1>2, <2>1, <2>4
<1>4. ASSUME load[c].pc \in Loading, load'[c].quiet = load[c].quiet, load'[c].errs = load[c].errs,
             Frame(c), disk' = disk, SoFar(disk, load[c]) => SoFar(disk, load'[c])
      PROVE  Faithful'
  BY <1>2, <1>4 DEF Faithful
<1>5. CASE List(c)
  BY <1>4, <1>5, ListEffect, ListSoFar DEF Loading
<1>6. CASE ListFail(c) \/ ListVanished(c)
  <2>1. Frame(c) /\ disk' = disk /\ (load'[c].errs = TRUE \/ load'[c].quiet = FALSE)
    BY <1>6, ListFailEffect, ListVanishedEffect
  <2> QED BY <1>2, <2>1
<1>7. CASE ReadFile(c)
  BY <1>4, <1>7, ReadEffect, ReadSoFar DEF Loading
<1>8. CASE NextSection(c)
  BY <1>4, <1>8, NextSectionEffect, NextSoFar DEF Loading
<1>9. CASE LoadFails(c) \/ StartPipeline(c) \/ Store(c)
  <2>1. Frame(c) /\ disk' = disk /\ load'[c].pc \in {"idle", "failed", "started"}
    BY <1>9, LoadFailsEffect, StartEffect, StoreEffect
  <2> QED BY <1>2, <2>1 DEF Loading
<1>10. CASE SchedReload(c)
  <2> DEFINE r == load'[c]
  <2>1. /\ load[c].pc = "list" /\ load[c].sec = 6 /\ disk' = disk
        /\ r.pc = "store" /\ r.sec = load[c].sec /\ r.acc = load[c].acc
    BY Zenon, <1>10, SchedReloadEffect
  <2>2. /\ \A d \in Callers : d # c => load'[d].quiet = FALSE
        /\ r.quiet = load[c].quiet /\ r.errs = load[c].errs
    BY Zenon, <1>10, SchedReloadEffect
  <2>3. SoFar(disk, load[c]) => SoFar(disk, r)
    BY <2>1 DEF SoFar
  <2>4. r.quiet /\ ~r.errs => SoFar(disk, r)
    BY <2>1, <2>2, <2>3 DEF Faithful, Loading
  <2> QED BY <2>1, <2>2, <2>4 DEF Faithful
<1> QED BY <1>3, <1>5, <1>6, <1>7, <1>8, <1>9, <1>10 DEF Load
-----------------------------------------------------------------------------
(* The inductive invariant. *)

\* A process that has loaded nothing satisfies the invariant.
LEMMA InitIInv == Init => IInv
<1> SUFFICES ASSUME Init PROVE IInv
  OBVIOUS
<1>0. /\ Main \in Callers /\ \A r \in Reloaders : r \in Callers
      /\ "devices" \in Sections
  BY OrderFacts DEF Callers
<1>1. DOMAIN load = Callers /\ \A c \in Callers : load[c] = Idle
  BY DEF Init
<1>2. Shape
  <2>1. DOMAIN disk = Sections
        /\ \A s \in Sections : disk[s] \in [1..Slots[s] -> Contents[s] \cup {Unreadable, NoFile}]
    BY ReloadAssumption DEF Init
  <2>2. \A c \in Callers : /\ DOMAIN load[c] = Fields /\ DOMAIN load[c].acc = Sections
                           /\ load[c].pc = "idle" /\ load[c].sec = 1
    BY Zenon, <1>1, IdleFacts
  <2> QED BY <1>1, <2>1, <2>2 DEF Shape, PCs
<1>3. Tables
  <2>1. EmptyConfig = [s \in Sections |-> EmptyConfig[s]]
    BY DEF EmptyConfig
  <2> QED BY Zenon, <1>1, <2>1, IdleFacts DEF Tables
<1>4. Flags
  <2>1. \A c \in Callers : /\ load[c].errs \in BOOLEAN /\ load[c].quiet \in BOOLEAN
                           /\ load[c].listed \in BOOLEAN
    BY Zenon, <1>1, IdleFacts
  <2>2. trouble \in 0..MaxTrouble /\ reloads \in 0..MaxReloads
    BY ReloadAssumption DEF Init
  <2>3. running \in BOOLEAN
    BY DEF Init
  <2> QED BY <2>1, <2>2, <2>3 DEF Flags
<1>5. \A c \in Callers : load[c].pc = "idle" /\ load[c].acc = EmptyConfig
  BY Zenon, <1>1, IdleFacts
<1>6. Listed
  BY <1>5 DEF Listed
<1>7. Resolved
  <2>1. NoZero(EmptyConfig["devices"])
    BY <1>0, IdleFacts DEF NoZero
  <2>2. sched = EmptyConfig
    BY DEF Init
  <2> QED BY <1>5, <2>1, <2>2 DEF Resolved
<1>8. Whole
  <2>1. \A c \in Callers : load[c].listed
    BY Zenon, <1>1, IdleFacts
  <2>2. RunsWholeLoads
    BY DEF Init, RunsWholeLoads
  <2>3. \A c \in Callers : load[c].pc # "store"
    BY <1>5
  <2> QED BY <2>1, <2>2, <2>3 DEF Whole
<1>9. StartFirst
  <2>1. ~running
    BY DEF Init
  <2> QED BY <1>0, <1>5, <2>1 DEF StartFirst
<1>10. Faithful /\ NotOvertaken
  BY <1>0, <1>5 DEF Faithful, NotOvertaken, Loading
<1> QED BY <1>2, <1>3, <1>4, <1>6, <1>7, <1>8, <1>9, <1>10 DEF IInv

\* The invariant holds throughout.
LEMMA Invariance == Spec => []IInv
<1>1. ASSUME IInv, Next PROVE IInv'
  <2>1. /\ Shape' /\ Tables' /\ Flags' /\ Listed' /\ Resolved'
    BY <1>1, ShapeKept, TablesKept, FlagsKept, ListedKept, ResolvedKept DEF IInv
  <2>2. Whole' /\ StartFirst' /\ Faithful' /\ NotOvertaken'
    BY <1>1, WholeKept, StartFirstKept, FaithfulKept, NotOvertakenKept DEF IInv
  <2> QED BY <2>1, <2>2 DEF IInv
<1>2. ASSUME IInv, UNCHANGED vars PROVE IInv'
  <2>1. /\ Shape' /\ Tables' /\ Flags' /\ Listed' /\ Resolved'
    BY <1>2 DEF vars, IInv, Shape, Tables, Flags, Listed, Resolved, NoZero
  <2>2. Whole' /\ StartFirst' /\ Faithful' /\ NotOvertaken'
    BY <1>2 DEF vars, IInv, Whole, RunsWholeLoads, StartFirst, Faithful, NotOvertaken
  <2> QED BY <2>1, <2>2 DEF IInv
<1>3. IInv /\ [Next]_vars => IInv'
  BY <1>1, <1>2
<1> QED BY <1>3, InitIInv, PTL DEF Spec

\* OnDisk says what Says says of the directory.
LEMMA OnDiskSays ==
    ASSUME NEW s \in Sections, NEW objects
    PROVE  OnDisk(s, objects) = Says(disk[s], s, objects)
<1> DEFINE R == Readable(s)
           P(f) == Convert(s, disk[s][f], objects)
           parsed == [f \in R |-> P(f)]
<1>1. Decoded(disk[s], s) = R
  BY DEF Decoded, Readable
<1>2. OnDisk(s, objects) = [k \in UNION {DOMAIN parsed[f] : f \in R} |->
                              parsed[Max({f \in R : k \in DOMAIN parsed[f]})][k]]
  BY DEF OnDisk
<1>3. Says(disk[s], s, objects) = [k \in UNION {DOMAIN P(f) : f \in R} |->
                                     P(Max({f \in R : k \in DOMAIN P(f)}))[k]]
  BY <1>1 DEF Says, Merged
<1>4. \A f \in R : parsed[f] = P(f)
  OBVIOUS
<1>5. Slots[s] \in Nat /\ R \subseteq 1..Slots[s]
  BY ReloadAssumption DEF Readable
<1> HIDE DEF R, P, parsed
<1>6. UNION {DOMAIN parsed[f] : f \in R} = UNION {DOMAIN P(f) : f \in R}
  BY <1>4
<1>7. \A k : {f \in R : k \in DOMAIN parsed[f]} = {f \in R : k \in DOMAIN P(f)}
  BY <1>4
<1>8. ASSUME NEW k \in UNION {DOMAIN P(f) : f \in R}
      PROVE  parsed[Max({f \in R : k \in DOMAIN parsed[f]})][k] =
                P(Max({f \in R : k \in DOMAIN P(f)}))[k]
  <2> DEFINE T == {f \in R : k \in DOMAIN P(f)}
  <2>1. T \subseteq R /\ T # {}
    BY <1>8
  <2> HIDE DEF T
  <2>2. T \subseteq 1..Slots[s]
    BY <1>5, <2>1
  <2>3. Max(T) \in T
    BY <1>5, <2>1, <2>2, MaxFacts
  <2>4. Max(T) \in R
    BY <2>1, <2>3
  <2> QED BY <1>4, <1>7, <2>4 DEF T
<1> QED BY <1>2, <1>3, <1>6, <1>8
-----------------------------------------------------------------------------
(* The jobs that ResolveJobs makes of a configuration. *)

\* Where a round of the four loops is.
Places == Int \X Int \X Int \X Int

\* The loops' order: by host, then by device group, object group and object.
LEMMA EarlierIs ==
    ASSUME NEW a \in Places, NEW b \in Places
    PROVE  Earlier(a, b) <=> \/ a[1] < b[1]
                             \/ a[1] = b[1] /\ a[2] < b[2]
                             \/ a[1] = b[1] /\ a[2] = b[2] /\ a[3] < b[3]
                             \/ a[1] = b[1] /\ a[2] = b[2] /\ a[3] = b[3] /\ a[4] < b[4]
<1>1. DOMAIN a = 1..4
  BY DEF Places
<1>2. \A n \in 1..4 : n = 1 \/ n = 2 \/ n = 3 \/ n = 4
  OBVIOUS
<1>3. /\ \A m \in 1..1 - 1 : FALSE
      /\ \A m \in 1..2 - 1 : m = 1
      /\ \A m \in 1..3 - 1 : m = 1 \/ m = 2
      /\ \A m \in 1..4 - 1 : m = 1 \/ m = 2 \/ m = 3
  OBVIOUS
<1>4. ASSUME Earlier(a, b)
      PROVE  \/ a[1] < b[1]
             \/ a[1] = b[1] /\ a[2] < b[2]
             \/ a[1] = b[1] /\ a[2] = b[2] /\ a[3] < b[3]
             \/ a[1] = b[1] /\ a[2] = b[2] /\ a[3] = b[3] /\ a[4] < b[4]
  <2>1. PICK n \in 1..4 : a[n] < b[n] /\ \A m \in 1..n - 1 : a[m] = b[m]
    BY <1>1, <1>4 DEF Earlier
  <2>2. CASE n = 1
    BY <2>1, <2>2
  <2>3. CASE n = 2
    BY <2>1, <2>3
  <2>4. CASE n = 3
    BY <2>1, <2>4
  <2>5. CASE n = 4
    BY <2>1, <2>5
  <2> QED BY <1>2, <2>2, <2>3, <2>4, <2>5
<1>5. ASSUME a[1] < b[1] PROVE Earlier(a, b)
  BY <1>1, <1>3, <1>5 DEF Earlier
<1>6. ASSUME a[1] = b[1], a[2] < b[2] PROVE Earlier(a, b)
  <2>1. \A m \in 1..2 - 1 : a[m] = b[m]
    BY <1>3, <1>6
  <2> QED BY <1>1, <1>6, <2>1 DEF Earlier
<1>7. ASSUME a[1] = b[1], a[2] = b[2], a[3] < b[3] PROVE Earlier(a, b)
  <2>1. \A m \in 1..3 - 1 : a[m] = b[m]
    BY <1>3, <1>7
  <2> QED BY <1>1, <1>7, <2>1 DEF Earlier
<1>8. ASSUME a[1] = b[1], a[2] = b[2], a[3] = b[3], a[4] < b[4] PROVE Earlier(a, b)
  <2>1. \A m \in 1..4 - 1 : a[m] = b[m]
    BY <1>3, <1>8
  <2> QED BY <1>1, <1>8, <2>1 DEF Earlier
<1> QED BY <1>4, <1>5, <1>6, <1>7, <1>8

\* It is a strict total order.
LEMMA EarlierOrder ==
    ASSUME NEW a \in Places, NEW b \in Places, NEW c \in Places
    PROVE  /\ ~Earlier(a, a)
           /\ a = b \/ Earlier(a, b) \/ Earlier(b, a)
           /\ ~(Earlier(a, b) /\ Earlier(b, a))
           /\ Earlier(a, b) /\ Earlier(b, c) => Earlier(a, c)
<1>1. /\ a[1] \in Int /\ a[2] \in Int /\ a[3] \in Int /\ a[4] \in Int
      /\ b[1] \in Int /\ b[2] \in Int /\ b[3] \in Int /\ b[4] \in Int
      /\ c[1] \in Int /\ c[2] \in Int /\ c[3] \in Int /\ c[4] \in Int
  BY DEF Places
<1>2. a[1] = b[1] /\ a[2] = b[2] /\ a[3] = b[3] /\ a[4] = b[4] => a = b
  BY DEF Places
<1>3. ~Earlier(a, a)
  BY <1>1, EarlierIs
<1>4. a = b \/ Earlier(a, b) \/ Earlier(b, a)
  BY <1>1, <1>2, EarlierIs
<1>5. ~(Earlier(a, b) /\ Earlier(b, a))
  BY <1>1, EarlierIs
<1>6. Earlier(a, b) /\ Earlier(b, c) => Earlier(a, c)
  BY <1>1, EarlierIs
<1> QED BY <1>3, <1>4, <1>5, <1>6

\* Rounds, each at a place of its own.
Placed(S) ==
    /\ \A r \in S : r.at \in Places
    /\ \A r, q \in S : r.at = q.at => r = q

\* The rounds of S up to each of them.
Through(S) == [r \in S |-> {q \in S : ~Earlier(r.at, q.at)}]

\* Rounds are in order of their places.
LEMMA ThroughChain == ASSUME NEW S, Placed(S) PROVE Chain(S, Through(S))
<1>1. \A r \in S : Through(S)[r] = {q \in S : ~Earlier(r.at, q.at)}
  BY DEF Through
<1>2. \A r \in S : Through(S)[r] \subseteq S /\ r \in Through(S)[r]
  <2>1. \A r \in S : ~Earlier(r.at, r.at)
    BY EarlierOrder DEF Placed
  <2> QED BY <1>1, <2>1
<1>3. ASSUME NEW r \in S, NEW q \in S, ~Earlier(q.at, r.at)
      PROVE  Through(S)[r] \subseteq Through(S)[q]
  <2> SUFFICES ASSUME NEW x \in S, ~Earlier(r.at, x.at), Earlier(q.at, x.at) PROVE FALSE
    BY <1>1
  <2>1. r.at \in Places /\ q.at \in Places /\ x.at \in Places
    BY DEF Placed
  <2>2. x.at = r.at \/ Earlier(x.at, r.at)
    BY <2>1, EarlierOrder
  <2>3. Earlier(q.at, r.at)
    BY <2>1, <2>2, EarlierOrder
  <2> QED BY <1>3, <2>3
<1>4. ASSUME NEW r \in S, NEW q \in S
      PROVE  Through(S)[r] \subseteq Through(S)[q] \/ Through(S)[q] \subseteq Through(S)[r]
  <2>1. r.at \in Places /\ q.at \in Places
    BY DEF Placed
  <2>2. ~Earlier(q.at, r.at) \/ ~Earlier(r.at, q.at)
    BY <2>1, EarlierOrder
  <2> QED BY <1>3, <2>2
<1>5. ASSUME NEW r \in S, NEW q \in S, Through(S)[r] = Through(S)[q] PROVE r = q
  <2>1. r.at \in Places /\ q.at \in Places
    BY DEF Placed
  <2>2. ~Earlier(r.at, q.at) /\ ~Earlier(q.at, r.at)
    BY <1>1, <1>2, <1>5
  <2>3. r.at = q.at
    BY <2>1, <2>2, EarlierOrder
  <2> QED BY <2>3 DEF Placed
<1>6. DOMAIN Through(S) = S
  BY DEF Through
<1> QED BY <1>2, <1>4, <1>5, <1>6 DEF Chain

\* Of finitely many rounds, one is first.
LEMMA FirstRound ==
    ASSUME NEW S, IsFiniteSet(S), S # {}, Placed(S)
    PROVE  \E r \in S : \A q \in S : ~Earlier(q.at, r.at)
<1> DEFINE f == Ranked(S, Through(S))
           N == Cardinality(S)
<1>1. N \in Nat /\ N # 0
  BY FS_CardinalityType, FS_EmptySet
<1>2. /\ f \in [1..N -> S]
      /\ \A x \in S : \E n \in 1..N : f[n] = x
      /\ \A m, n \in 1..N : m < n => f[m] \in Through(S)[f[n]]
  BY ThroughChain, RankedLists
<1> HIDE DEF f, N
<1>3. 1 \in 1..N /\ f[1] \in S
  BY <1>1, <1>2
<1>4. ASSUME NEW q \in S PROVE ~Earlier(q.at, f[1].at)
  <2>1. PICK n \in 1..N : f[n] = q
    BY <1>2
  <2>2. n = 1 \/ 1 < n
    BY <1>1
  <2>3. f[1] \in Through(S)[q]
    <3>1. q \in Through(S)[q]
      BY ThroughChain DEF Chain
    <3> QED BY <1>2, <1>3, <2>1, <2>2, <3>1
  <2> QED BY <2>3 DEF Through
<1> QED BY <1>3, <1>4

\* A configuration as YAML can give it: finitely many devices, and lists of names.
Typed(cfg) ==
    /\ IsFiniteSet(DOMAIN cfg["devices"]) /\ DOMAIN cfg["devices"] \subseteq Int
    /\ \A h \in DOMAIN cfg["devices"] : IsList(cfg["devices"][h].groups)
    /\ \A g \in DOMAIN cfg["device_groups"] : IsList(cfg["device_groups"][g])
    /\ \A g \in DOMAIN cfg["object_groups"] : IsList(cfg["object_groups"][g])

\* The places of a list are finitely many numbers, and hold all its members.
LEMMA ListPlaces ==
    ASSUME NEW q, IsList(q)
    PROVE  /\ IsFiniteSet(DOMAIN q) /\ DOMAIN q \subseteq Int
           /\ ToSet(q) = {q[i] : i \in DOMAIN q}
<1>1. DOMAIN q = 1..Len(q) /\ Len(q) \in Nat
  BY DEF IsList
<1> QED BY <1>1, FS_Interval DEF ToSet

\* The devices, groups and objects of a typed configuration are at places that
\* are numbers.
LEMMA LoopTypes ==
    ASSUME NEW cfg, Typed(cfg), NEW h \in DOMAIN cfg["devices"]
    PROVE  /\ h \in Int /\ IsList(cfg["devices"][h].groups)
           /\ \A i \in Known(cfg["device_groups"], cfg["devices"][h].groups) :
                /\ i \in Int /\ IsList(ObjectGroups(cfg, h, i))
                /\ \A j \in Known(cfg["object_groups"], ObjectGroups(cfg, h, i)) :
                      j \in Int /\ IsList(Objects(cfg, h, i, j))
<1>1. h \in Int /\ IsList(cfg["devices"][h].groups)
  BY DEF Typed
<1>2. ASSUME NEW i \in Known(cfg["device_groups"], cfg["devices"][h].groups)
      PROVE  i \in Int /\ IsList(ObjectGroups(cfg, h, i))
  BY <1>1, ListPlaces DEF Known, ObjectGroups, Typed
<1>3. ASSUME NEW i \in Known(cfg["device_groups"], cfg["devices"][h].groups),
             NEW j \in Known(cfg["object_groups"], ObjectGroups(cfg, h, i))
      PROVE  j \in Int /\ IsList(Objects(cfg, h, i, j))
  BY <1>2, ListPlaces DEF Known, Objects, Typed
<1> QED BY <1>1, <1>2, <1>3

\* h, i, j and k are a round's place in the loops.
InLoops(cfg, h, i, j, k) ==
    /\ h \in DOMAIN cfg["devices"]
    /\ i \in Known(cfg["device_groups"], cfg["devices"][h].groups)
    /\ j \in Known(cfg["object_groups"], ObjectGroups(cfg, h, i))
    /\ k \in DOMAIN Objects(cfg, h, i, j)

\* The members of Rounds.
LEMMA RoundsAre ==
    ASSUME NEW cfg
    PROVE  /\ \A h, i, j, k : InLoops(cfg, h, i, j, k) => Round(cfg, h, i, j, k) \in Rounds(cfg)
           /\ \A r \in Rounds(cfg) : \E h, i, j, k :
                 InLoops(cfg, h, i, j, k) /\ r = Round(cfg, h, i, j, k)
<1> DEFINE Inner(h, i, j) == {Round(cfg, h, i, j, k) : k \in DOMAIN Objects(cfg, h, i, j)}
           Middle(h, i) ==
             UNION {Inner(h, i, j) : j \in Known(cfg["object_groups"], ObjectGroups(cfg, h, i))}
           Outer(h) ==
             UNION {Middle(h, i) : i \in Known(cfg["device_groups"], cfg["devices"][h].groups)}
<1>1. Rounds(cfg) = UNION {Outer(h) : h \in DOMAIN cfg["devices"]}
  BY DEF Rounds
<1>2. ASSUME NEW h, NEW i, NEW j, NEW k, InLoops(cfg, h, i, j, k)
      PROVE  Round(cfg, h, i, j, k) \in Rounds(cfg)
  <2>1. Round(cfg, h, i, j, k) \in Inner(h, i, j)
    BY <1>2 DEF InLoops
  <2> HIDE DEF Inner
  <2>2. Round(cfg, h, i, j, k) \in Middle(h, i)
    BY <1>2, <2>1 DEF InLoops
  <2> HIDE DEF Middle
  <2>3. Round(cfg, h, i, j, k) \in Outer(h)
    BY <1>2, <2>2 DEF InLoops
  <2> HIDE DEF Outer
  <2> QED BY <1>1, <1>2, <2>3 DEF InLoops
<1>3. ASSUME NEW r \in Rounds(cfg)
      PROVE  \E h, i, j, k : InLoops(cfg, h, i, j, k) /\ r = Round(cfg, h, i, j, k)
  <2> HIDE DEF Outer
  <2>1. PICK h \in DOMAIN cfg["devices"] : r \in Outer(h)
    BY <1>1
  <2> HIDE DEF Middle
  <2>2. PICK i \in Known(cfg["device_groups"], cfg["devices"][h].groups) : r \in Middle(h, i)
    BY <2>1 DEF Outer
  <2> HIDE DEF Inner
  <2>3. PICK j \in Known(cfg["object_groups"], ObjectGroups(cfg, h, i)) : r \in Inner(h, i, j)
    BY <2>2 DEF Middle
  <2>4. PICK k \in DOMAIN Objects(cfg, h, i, j) : r = Round(cfg, h, i, j, k)
    BY <2>3 DEF Inner
  <2> QED BY <2>4 DEF InLoops
<1> QED BY <1>2, <1>3

\* A set of finite sets, one for each member of a finite set.
LEMMA FiniteUnion ==
    ASSUME NEW S, IsFiniteSet(S), NEW F, DOMAIN F = S, \A x \in S : IsFiniteSet(F[x])
    PROVE  IsFiniteSet(UNION {F[x] : x \in S})
<1> DEFINE T == {F[x] : x \in S}
<1>1. [x \in S |-> F[x]] \in Surjection(S, T)
  BY DEF Surjection
<1>2. IsFiniteSet(T)
  BY <1>1, FS_Surjection
<1>3. \A X \in T : IsFiniteSet(X)
  OBVIOUS
<1> HIDE DEF T
<1>4. IsFiniteSet(UNION T)
  BY <1>2, <1>3, FS_UNION
<1> QED BY <1>4 DEF T

\* The loops end.
LEMMA RoundsFinite == ASSUME NEW cfg, Typed(cfg) PROVE IsFiniteSet(Rounds(cfg))
<1> DEFINE Is(h) == Known(cfg["device_groups"], cfg["devices"][h].groups)
           Js(h, i) == Known(cfg["object_groups"], ObjectGroups(cfg, h, i))
           Ks(h, i, j) == DOMAIN Objects(cfg, h, i, j)
           Inner(h, i, j) == {Round(cfg, h, i, j, k) : k \in Ks(h, i, j)}
           Middle(h, i) == UNION {Inner(h, i, j) : j \in Js(h, i)}
           Outer(h) == UNION {Middle(h, i) : i \in Is(h)}
<1>1. Rounds(cfg) = UNION {Outer(h) : h \in DOMAIN cfg["devices"]}
  BY DEF Rounds
<1>2. ASSUME NEW h \in DOMAIN cfg["devices"]
      PROVE  /\ IsFiniteSet(Is(h))
             /\ \A i \in Is(h) : IsFiniteSet(Js(h, i))
             /\ \A i \in Is(h) : \A j \in Js(h, i) : IsFiniteSet(Ks(h, i, j))
  <2>1. /\ IsList(cfg["devices"][h].groups)
        /\ \A i \in Is(h) : IsList(ObjectGroups(cfg, h, i))
        /\ \A i \in Is(h) : \A j \in Js(h, i) : IsList(Objects(cfg, h, i, j))
    BY LoopTypes
  <2>2. ASSUME NEW m, NEW q, IsList(q) PROVE IsFiniteSet(Known(m, q))
    <3>1. IsFiniteSet(DOMAIN q)
      BY <2>2, ListPlaces
    <3>2. Known(m, q) \in SUBSET DOMAIN q
      BY DEF Known
    <3> QED BY <3>1, <3>2, FS_Subset
  <2>3. IsFiniteSet(Is(h)) /\ \A i \in Is(h) : IsFiniteSet(Js(h, i))
    BY <2>1, <2>2
  <2>4. \A i \in Is(h) : \A j \in Js(h, i) : IsFiniteSet(Ks(h, i, j))
    BY <2>1, ListPlaces
  <2> QED BY <2>3, <2>4
<1> HIDE DEF Is, Js, Ks
<1>3. ASSUME NEW h \in DOMAIN cfg["devices"] PROVE IsFiniteSet(Outer(h))
  <2>1. ASSUME NEW i \in Is(h) PROVE IsFiniteSet(Middle(h, i))
    <3>1. ASSUME NEW j \in Js(h, i) PROVE IsFiniteSet(Inner(h, i, j))
      <4>1. [k \in Ks(h, i, j) |-> Round(cfg, h, i, j, k)] \in Surjection(Ks(h, i, j), Inner(h, i, j))
        BY DEF Surjection
      <4>2. IsFiniteSet(Ks(h, i, j))
        BY <1>2
      <4> QED BY <4>1, <4>2, FS_Surjection
    <3> HIDE DEF Inner
    <3> DEFINE F == [j \in Js(h, i) |-> Inner(h, i, j)]
    <3>2. DOMAIN F = Js(h, i) /\ \A j \in Js(h, i) : F[j] = Inner(h, i, j)
      OBVIOUS
    <3> HIDE DEF F
    <3>3. IsFiniteSet(Js(h, i)) /\ \A j \in Js(h, i) : IsFiniteSet(F[j])
      BY <1>2, <3>1, <3>2
    <3>4. IsFiniteSet(UNION {F[j] : j \in Js(h, i)})
      BY <3>2, <3>3, FiniteUnion
    <3>5. {F[j] : j \in Js(h, i)} = {Inner(h, i, j) : j \in Js(h, i)}
      BY <3>2
    <3> QED BY <3>4, <3>5
  <2> HIDE DEF Middle
  <2> DEFINE F == [i \in Is(h) |-> Middle(h, i)]
  <2>2. DOMAIN F = Is(h) /\ \A i \in Is(h) : F[i] = Middle(h, i)
    OBVIOUS
  <2> HIDE DEF F
  <2>3. IsFiniteSet(Is(h)) /\ \A i \in Is(h) : IsFiniteSet(F[i])
    BY <1>2, <2>1, <2>2
  <2>4. IsFiniteSet(UNION {F[i] : i \in Is(h)})
    BY <2>2, <2>3, FiniteUnion
  <2>5. {F[i] : i \in Is(h)} = {Middle(h, i) : i \in Is(h)}
    BY <2>2
  <2> QED BY <2>4, <2>5
<1> HIDE DEF Outer
<1> DEFINE D == DOMAIN cfg["devices"]
           F == [h \in D |-> Outer(h)]
<1>4. DOMAIN F = D /\ \A h \in D : F[h] = Outer(h)
  OBVIOUS
<1>5. IsFiniteSet(D)
  BY DEF Typed
<1> HIDE DEF F, D
<1>6. \A h \in D : IsFiniteSet(F[h])
  BY <1>3, <1>4 DEF D
<1>7. IsFiniteSet(UNION {F[h] : h \in D})
  BY <1>4, <1>5, <1>6, FiniteUnion
<1>8. {F[h] : h \in D} = {Outer(h) : h \in D}
  BY <1>4
<1> QED BY <1>1, <1>7, <1>8 DEF D

\* Each round has a place of its own.
LEMMA RoundsPlaced == ASSUME NEW cfg, Typed(cfg) PROVE Placed(Rounds(cfg))
<1>1. ASSUME NEW r \in Rounds(cfg)
      PROVE  \E h, i, j, k : /\ r = Round(cfg, h, i, j, k) /\ r.at = <<h, i, j, k>>
                             /\ h \in Int /\ i \in Int /\ j \in Int /\ k \in Int
  <2>1. PICK h, i, j, k : InLoops(cfg, h, i, j, k) /\ r = Round(cfg, h, i, j, k)
    BY RoundsAre
  <2>2. h \in DOMAIN cfg["devices"]
    BY <2>1 DEF InLoops
  <2>3. h \in Int /\ i \in Int /\ j \in Int /\ IsList(Objects(cfg, h, i, j))
    BY <2>1, <2>2, LoopTypes DEF InLoops
  <2>4. k \in Int
    BY <2>1, <2>3, ListPlaces DEF InLoops
  <2>5. r.at = <<h, i, j, k>>
    BY <2>1 DEF Round
  <2> QED BY <2>1, <2>3, <2>4, <2>5
<1>2. \A r \in Rounds(cfg) : r.at \in Places
  BY <1>1 DEF Places
<1>3. ASSUME NEW r \in Rounds(cfg), NEW q \in Rounds(cfg), r.at = q.at PROVE r = q
  <2>1. PICK h, i, j, k : r = Round(cfg, h, i, j, k) /\ r.at = <<h, i, j, k>>
    BY <1>1
  <2>2. PICK g, l, m, n : q = Round(cfg, g, l, m, n) /\ q.at = <<g, l, m, n>>
    BY <1>1
  <2>3. h = g /\ i = l /\ j = m /\ k = n
    BY <1>3, <2>1, <2>2
  <2> QED BY <2>1, <2>2, <2>3
<1> QED BY <1>2, <1>3 DEF Placed

\* The hosts and objects of the rounds are those that a chain of groups joins.
LEMMA RoundsReach ==
    ASSUME NEW cfg, Typed(cfg), NEW h \in DOMAIN cfg["devices"], NEW x \in DOMAIN cfg["objects"]
    PROVE  <<h, x>> \in Asked(cfg) <=> \E r \in Rounds(cfg) : r.host = h /\ r.obj = x
<1> DEFINE Is == Known(cfg["device_groups"], cfg["devices"][h].groups)
           Js(i) == Known(cfg["object_groups"], ObjectGroups(cfg, h, i))
<1>1. <<h, x>> \in Asked(cfg) <=>
         \E g \in ToSet(cfg["devices"][h].groups) \cap DOMAIN cfg["device_groups"] :
           \E o \in ToSet(cfg["device_groups"][g]) \cap DOMAIN cfg["object_groups"] :
              x \in ToSet(cfg["object_groups"][o])
  BY DEF Asked
<1>2. /\ ToSet(cfg["devices"][h].groups) = {cfg["devices"][h].groups[i] : i \in DOMAIN cfg["devices"][h].groups}
      /\ \A i \in Is : /\ ToSet(ObjectGroups(cfg, h, i)) = {ObjectGroups(cfg, h, i)[j] : j \in DOMAIN ObjectGroups(cfg, h, i)}
                       /\ \A j \in Js(i) : ToSet(Objects(cfg, h, i, j)) = {Objects(cfg, h, i, j)[k] : k \in DOMAIN Objects(cfg, h, i, j)}
  BY LoopTypes, ListPlaces
<1>3. ASSUME NEW r \in Rounds(cfg), r.host = h, r.obj = x PROVE <<h, x>> \in Asked(cfg)
  <2>1. PICK a, i, j, k : InLoops(cfg, a, i, j, k) /\ r = Round(cfg, a, i, j, k)
    BY RoundsAre
  <2>2. a = h /\ Objects(cfg, h, i, j)[k] = x
    BY <1>3, <2>1 DEF Round
  <2>3. i \in Is /\ j \in Js(i) /\ k \in DOMAIN Objects(cfg, h, i, j)
    BY <2>1, <2>2 DEF InLoops
  <2> DEFINE g == cfg["devices"][h].groups[i]
             o == ObjectGroups(cfg, h, i)[j]
  <2>4. g \in ToSet(cfg["devices"][h].groups) \cap DOMAIN cfg["device_groups"]
    BY <1>2, <2>3 DEF Known
  <2>5. o \in ToSet(cfg["device_groups"][g]) \cap DOMAIN cfg["object_groups"]
    <3>1. ObjectGroups(cfg, h, i) = cfg["device_groups"][g]
      BY DEF ObjectGroups
    <3> HIDE DEF g
    <3>2. o \in DOMAIN cfg["object_groups"] /\ j \in DOMAIN ObjectGroups(cfg, h, i)
      BY <2>3 DEF Known
    <3>3. o \in ToSet(ObjectGroups(cfg, h, i))
      BY <1>2, <2>3, <3>2
    <3> QED BY <3>1, <3>2, <3>3
  <2>6. x \in ToSet(cfg["object_groups"][o])
    <3>1. Objects(cfg, h, i, j) = cfg["object_groups"][o]
      BY DEF Objects
    <3>2. x \in ToSet(Objects(cfg, h, i, j))
      BY <1>2, <2>2, <2>3
    <3> QED BY <3>1, <3>2
  <2> HIDE DEF g, o
  <2> QED BY <1>1, <2>4, <2>5, <2>6
<1>4. ASSUME <<h, x>> \in Asked(cfg) PROVE \E r \in Rounds(cfg) : r.host = h /\ r.obj = x
  <2>1. PICK g \in ToSet(cfg["devices"][h].groups) \cap DOMAIN cfg["device_groups"] :
           \E o \in ToSet(cfg["device_groups"][g]) \cap DOMAIN cfg["object_groups"] :
              x \in ToSet(cfg["object_groups"][o])
    BY <1>1, <1>4
  <2>2. PICK o \in ToSet(cfg["device_groups"][g]) \cap DOMAIN cfg["object_groups"] :
           x \in ToSet(cfg["object_groups"][o])
    BY <2>1
  <2>3. PICK i \in DOMAIN cfg["devices"][h].groups : cfg["devices"][h].groups[i] = g
    BY <1>2
  <2>4. i \in Is /\ ObjectGroups(cfg, h, i) = cfg["device_groups"][g]
    BY <2>3 DEF Known, ObjectGroups
  <2>5. PICK j \in DOMAIN ObjectGroups(cfg, h, i) : ObjectGroups(cfg, h, i)[j] = o
    BY <1>2, <2>2, <2>4
  <2>6. j \in Js(i) /\ Objects(cfg, h, i, j) = cfg["object_groups"][o]
    BY <2>5 DEF Known, Objects
  <2>7. PICK k \in DOMAIN Objects(cfg, h, i, j) : Objects(cfg, h, i, j)[k] = x
    BY <1>2, <2>2, <2>4, <2>6
  <2>8. InLoops(cfg, h, i, j, k)
    BY <2>4, <2>6, <2>7 DEF InLoops
  <2>9. Round(cfg, h, i, j, k).host = h /\ Round(cfg, h, i, j, k).obj = x
    BY <2>7 DEF Round
  <2> QED BY <2>8, <2>9, RoundsAre
<1> QED BY <1>3, <1>4

\* One new round for each object that a host is asked for.
LEMMA NewRoundsAre ==
    ASSUME NEW cfg, Typed(cfg)
    PROVE  LET F == NewRounds(cfg)
           IN  /\ IsFiniteSet(F) /\ Placed(F)
               /\ \A r \in F : r.host \in DOMAIN cfg["devices"] /\ <<r.host, r.obj>> \in Asked(cfg)
               /\ \A job \in Asked(cfg) : \E r \in F : <<r.host, r.obj>> = job
               /\ \A r, q \in F : <<r.host, r.obj>> = <<q.host, q.obj>> => r = q
<1> DEFINE R == Rounds(cfg)
           F == NewRounds(cfg)
           First(r) == \A q \in R : q.host = r.host /\ q.obj = r.obj => ~Earlier(q.at, r.at)
<1>1. IsFiniteSet(R) /\ Placed(R)
  BY RoundsFinite, RoundsPlaced
<1>2. F \subseteq R /\ \A r \in R : r \in F <=> r.obj \in DOMAIN cfg["objects"] /\ First(r)
  BY DEF NewRounds
<1>3. \A r \in R : r.host \in DOMAIN cfg["devices"]
  <2> SUFFICES ASSUME NEW r \in R PROVE r.host \in DOMAIN cfg["devices"]
    OBVIOUS
  <2>1. PICK h, i, j, k : InLoops(cfg, h, i, j, k) /\ r = Round(cfg, h, i, j, k)
    BY RoundsAre
  <2> QED BY <2>1 DEF InLoops, Round
<1>4. Asked(cfg) \subseteq (DOMAIN cfg["devices"]) \X (DOMAIN cfg["objects"])
  BY DEF Asked
<1>5. \A h \in DOMAIN cfg["devices"] : \A x \in DOMAIN cfg["objects"] :
         <<h, x>> \in Asked(cfg) <=> \E r \in R : r.host = h /\ r.obj = x
  BY RoundsReach
<1> HIDE DEF R, F, First
<1>6. IsFiniteSet(F) /\ Placed(F)
  <2>1. IsFiniteSet(F)
    BY <1>1, <1>2, FS_Subset
  <2> QED BY <1>1, <1>2, <2>1 DEF Placed
<1>7. \A r \in F : r.host \in DOMAIN cfg["devices"] /\ <<r.host, r.obj>> \in Asked(cfg)
  BY <1>2, <1>3, <1>5
<1>8. ASSUME NEW job \in Asked(cfg) PROVE \E r \in F : <<r.host, r.obj>> = job
  <2>1. PICK h \in DOMAIN cfg["devices"], x \in DOMAIN cfg["objects"] : job = <<h, x>>
    BY <1>4
  <2> DEFINE S == {r \in R : r.host = h /\ r.obj = x}
  <2>2. S # {} /\ S \subseteq R /\ \A q \in R : q.host = h /\ q.obj = x => q \in S
    BY <1>5, <2>1
  <2>3. \A r \in S : r.host = h /\ r.obj = x
    OBVIOUS
  <2> HIDE DEF S
  <2>4. IsFiniteSet(S) /\ Placed(S)
    <3>1. IsFiniteSet(S)
      BY <1>1, <2>2, FS_Subset
    <3> QED BY <1>1, <2>2, <3>1 DEF Placed
  <2>5. PICK r \in S : \A q \in S : ~Earlier(q.at, r.at)
    BY <2>2, <2>4, FirstRound
  <2>6. r \in R /\ r.host = h /\ r.obj = x
    BY <2>2, <2>3
  <2>7. First(r)
    BY <2>2, <2>5, <2>6 DEF First
  <2> QED BY <1>2, <2>1, <2>6, <2>7
<1>9. ASSUME NEW r \in F, NEW q \in F, <<r.host, r.obj>> = <<q.host, q.obj>> PROVE r = q
  <2>1. r \in R /\ q \in R /\ First(r) /\ First(q) /\ r.host = q.host /\ r.obj = q.obj
    BY <1>2, <1>9
  <2>2. ~Earlier(q.at, r.at) /\ ~Earlier(r.at, q.at)
    BY <2>1 DEF First
  <2>3. r.at \in Places /\ q.at \in Places
    BY <1>1, <2>1 DEF Placed
  <2>4. r.at = q.at
    BY <2>2, <2>3, EarlierOrder
  <2> QED BY <1>1, <2>1, <2>4 DEF Placed
<1> QED BY <1>6, <1>7, <1>8, <1>9 DEF F

\* The part of QuietReload that is about ResolveJobs: the jobs are those that the
\* configuration asks for, each once, with its settings.
AsAsked(jobs, cfg) ==
    /\ {<<jobs[n].host, jobs[n].obj>> : n \in DOMAIN jobs} = Asked(cfg)
    /\ Len(jobs) = Cardinality(Asked(cfg))
    /\ \A n \in DOMAIN jobs : /\ jobs[n].dev = cfg["devices"][jobs[n].host]
                              /\ jobs[n].def = cfg["objects"][jobs[n].obj]

\* ResolveJobs makes exactly the jobs that a configuration asks for, whatever
\* names it does not know and however often it names one.
THEOREM ResolveCorrect ==
    ASSUME NEW cfg, Typed(cfg)
    PROVE  AsAsked(ResolveJobs(cfg), cfg)
<1> DEFINE F == NewRounds(cfg)
           N == Cardinality(F)
           f == Ranked(F, Through(F))
           A == Asked(cfg)
           jobs == [n \in 1..N |-> [host |-> f[n].host, dev |-> cfg["devices"][f[n].host],
                                    obj |-> f[n].obj, def |-> cfg["objects"][f[n].obj]]]
<1>1. /\ IsFiniteSet(F) /\ Placed(F)
      /\ \A r \in F : <<r.host, r.obj>> \in A
      /\ \A job \in A : \E r \in F : <<r.host, r.obj>> = job
      /\ \A r, q \in F : <<r.host, r.obj>> = <<q.host, q.obj>> => r = q
  BY NewRoundsAre
<1>2. ResolveJobs(cfg) = [n \in DOMAIN f |->
                            [host |-> f[n].host, dev |-> cfg["devices"][f[n].host],
                             obj |-> f[n].obj, def |-> cfg["objects"][f[n].obj]]]
  BY DEF ResolveJobs, Through
<1> HIDE DEF F, A
<1>3. /\ f \in [1..N -> F]
      /\ \A x \in F : \E n \in 1..N : f[n] = x
      /\ N \in Nat
  BY <1>1, ThroughChain, RankedLists, FS_CardinalityType
<1> HIDE DEF N, f
<1>4. ResolveJobs(cfg) = jobs
  BY <1>2, <1>3
<1>5. DOMAIN jobs = 1..N /\ \A n \in 1..N :
         /\ jobs[n].host = f[n].host /\ jobs[n].obj = f[n].obj
         /\ jobs[n].dev = cfg["devices"][jobs[n].host]
         /\ jobs[n].def = cfg["objects"][jobs[n].obj]
  OBVIOUS
<1>6. Len(jobs) = N
  <2>1. \E T : jobs \in [1..N -> T]
    <3>1. jobs \in [1..N -> {jobs[n] : n \in 1..N}]
      OBVIOUS
    <3> HIDE DEF jobs
    <3> QED BY <3>1
  <2> HIDE DEF jobs
  <2>2. \E T : jobs \in Seq(T)
    <3>1. PICK T : jobs \in [1..N -> T]
      BY <2>1
    <3>2. jobs \in Seq(T)
      BY <1>3, <3>1
    <3> QED BY <3>2
  <2> QED BY <1>3, <1>5, <2>2, LenProperties
<1> HIDE DEF jobs
<1>7. {<<jobs[n].host, jobs[n].obj>> : n \in 1..N} = A
  <2>1. ASSUME NEW n \in 1..N PROVE <<jobs[n].host, jobs[n].obj>> \in A
    BY <1>1, <1>3, <1>5
  <2>2. ASSUME NEW job \in A PROVE \E n \in 1..N : <<jobs[n].host, jobs[n].obj>> = job
    <3>1. PICK r \in F : <<r.host, r.obj>> = job
      BY <1>1
    <3>2. PICK n \in 1..N : f[n] = r
      BY <1>3
    <3> QED BY <1>5, <3>1, <3>2
  <2> QED BY <2>1, <2>2
<1>8. N = Cardinality(A)
  <2> DEFINE g == [r \in F |-> <<r.host, r.obj>>]
  <2>1. g \in [F -> A] /\ \A r \in F : g[r] = <<r.host, r.obj>>
    BY <1>1
  <2> HIDE DEF g
  <2>2. \A r, q \in F : g[r] = g[q] => r = q
    BY <1>1, <2>1
  <2>3. \A job \in A : \E r \in F : g[r] = job
    BY <1>1, <2>1
  <2>4. g \in Surjection(F, A) /\ g \in Injection(F, A)
    BY <2>1, <2>2, <2>3 DEF Surjection, Injection, IsInjective
  <2>5. Cardinality(A) = Cardinality(F)
    BY <1>1, <2>4, FS_Surjection
  <2> QED BY <2>5 DEF N
<1> QED BY <1>4, <1>5, <1>6, <1>7, <1>8 DEF AsAsked, A

\* What the files say is typed.
LEMMA DiskTyped == ASSUME Shape PROVE Typed(ConfigOnDisk)
<1> DEFINE O == OnDisk("objects", <<>>)
<1>1. \A s \in Sections : ConfigOnDisk[s] = OnDisk(s, O)
  BY DEF ConfigOnDisk
<1> HIDE DEF O
<1>2. "devices" \in Sections /\ "device_groups" \in Sections /\ "object_groups" \in Sections
  BY OrderFacts
<1>3. ASSUME NEW s \in Sections
      PROVE  /\ IsFiniteSet(Readable(s))
             /\ \A f \in Readable(s) : disk[s][f] \in Contents[s]
             /\ DOMAIN OnDisk(s, O) = UNION {DOMAIN Convert(s, disk[s][f], O) : f \in Readable(s)}
             /\ \A k \in DOMAIN OnDisk(s, O) : \E f \in Readable(s) :
                   /\ k \in DOMAIN Convert(s, disk[s][f], O)
                   /\ OnDisk(s, O)[k] = Convert(s, disk[s][f], O)[k]
  <2>1. Slots[s] \in Nat /\ Readable(s) \subseteq 1..Slots[s]
    BY ReloadAssumption DEF Readable
  <2>2. IsFiniteSet(Readable(s))
    <3>1. IsFiniteSet(1..Slots[s])
      BY <2>1, FS_Interval
    <3>2. Readable(s) \in SUBSET (1..Slots[s])
      BY <2>1
    <3> HIDE DEF Readable
    <3> QED BY <3>1, <3>2, FS_Subset
  <2>3. \A f \in Readable(s) : disk[s][f] \in Contents[s]
    BY DEF Shape, Readable
  <2> DEFINE P == [f \in Readable(s) |-> Convert(s, disk[s][f], O)]
             T(k) == {f \in Readable(s) : k \in DOMAIN P[f]}
  <2>4. /\ DOMAIN OnDisk(s, O) = UNION {DOMAIN P[f] : f \in Readable(s)}
        /\ \A k \in DOMAIN OnDisk(s, O) : OnDisk(s, O)[k] = P[Max(T(k))][k]
    BY DEF OnDisk
  <2>5. \A f \in Readable(s) : P[f] = Convert(s, disk[s][f], O)
    OBVIOUS
  <2> HIDE DEF P
  <2>6. ASSUME NEW k \in DOMAIN OnDisk(s, O)
        PROVE  \E f \in Readable(s) : /\ k \in DOMAIN P[f]
                                      /\ OnDisk(s, O)[k] = P[f][k]
    <3>1. T(k) # {} /\ T(k) \subseteq 1..Slots[s]
      BY <2>1, <2>4, <2>6
    <3>2. Max(T(k)) \in T(k)
      BY <2>1, <3>1, MaxFacts
    <3> QED BY <2>4, <3>2
  <2>7. DOMAIN OnDisk(s, O) = UNION {DOMAIN Convert(s, disk[s][f], O) : f \in Readable(s)}
    BY <2>4, <2>5
  <2> QED BY <2>2, <2>3, <2>5, <2>6, <2>7
<1>4. \A raw : /\ DOMAIN Convert("devices", raw, O) = DOMAIN raw
               /\ \A h \in DOMAIN raw : Convert("devices", raw, O)[h].groups = raw[h].groups
  BY DEF Convert, resolveDevice
<1>5. \A raw : /\ Convert("device_groups", raw, O) = raw
               /\ Convert("object_groups", raw, O) = raw
  BY DEF Convert
<1>6. IsFiniteSet(DOMAIN OnDisk("devices", O)) /\ DOMAIN OnDisk("devices", O) \subseteq Int
  <2> DEFINE R == Readable("devices")
             F == [f \in R |-> DOMAIN disk["devices"][f]]
  <2>1. DOMAIN OnDisk("devices", O) = UNION {F[f] : f \in R}
    BY <1>2, <1>3, <1>4
  <2>2. \A f \in R : disk["devices"][f] \in Contents["devices"]
    BY <1>2, <1>3
  <2>3. DOMAIN F = R /\ \A f \in R : IsFiniteSet(F[f]) /\ F[f] \subseteq Int
    BY <2>2, ContentsAssumption
  <2>4. IsFiniteSet(R)
    BY <1>2, <1>3
  <2> HIDE DEF R, F
  <2>5. IsFiniteSet(UNION {F[f] : f \in R})
    BY <2>3, <2>4, FiniteUnion
  <2> QED BY <2>1, <2>3, <2>5
<1>7. ASSUME NEW h \in DOMAIN OnDisk("devices", O)
      PROVE  IsList(OnDisk("devices", O)[h].groups)
  <2>1. PICK f \in Readable("devices") :
           /\ h \in DOMAIN Convert("devices", disk["devices"][f], O)
           /\ OnDisk("devices", O)[h] = Convert("devices", disk["devices"][f], O)[h]
    BY <1>2, <1>3, <1>7
  <2>2. disk["devices"][f] \in Contents["devices"] /\ h \in DOMAIN disk["devices"][f]
    BY <1>2, <1>3, <1>4, <2>1
  <2> QED BY <1>4, <2>1, <2>2, ContentsAssumption
<1>8. ASSUME NEW s \in {"device_groups", "object_groups"}, NEW g \in DOMAIN OnDisk(s, O)
      PROVE  IsList(OnDisk(s, O)[g])
  <2>1. PICK f \in Readable(s) : /\ g \in DOMAIN Convert(s, disk[s][f], O)
                                 /\ OnDisk(s, O)[g] = Convert(s, disk[s][f], O)[g]
    BY <1>2, <1>3, <1>8
  <2>2. disk[s][f] \in Contents[s] /\ Convert(s, disk[s][f], O) = disk[s][f]
    BY <1>2, <1>3, <1>5
  <2> QED BY <2>1, <2>2, ContentsAssumption
<1> QED BY <1>1, <1>2, <1>6, <1>7, <1>8 DEF Typed
-----------------------------------------------------------------------------
\* The loader's and the App's state stays of its type, and no device that the
\* scheduler runs has a zero setting, whatever the files hold and whenever they
\* change.
THEOREM TypeCorrect == Spec => []TypeOK
<1>1. IInv => TypeOK
  <2> SUFFICES ASSUME IInv PROVE TypeOK
    OBVIOUS
  <2>1. \A c \in Callers :
           /\ load[c].pc \in {"idle", "list", "read", "store", "started", "failed"}
           /\ load[c].sec \in 1..Len(Order) + 1
           /\ DOMAIN load[c].acc = Sections
           /\ load[c].pc = "read" => load[c].todo \subseteq 1..Slots[Order[load[c].sec]]
    BY OrderFacts DEF IInv, Shape, Listed, PCs
  <2>2. running \in BOOLEAN
    BY DEF IInv, Flags
  <2>3. trouble \in 0..MaxTrouble /\ reloads \in 0..MaxReloads
    BY DEF IInv, Flags
  <2>4. ASSUME NEW s \in Sections PROVE Len(disk[s]) = Slots[s]
    <3>1. Slots[s] \in Nat /\ DOMAIN disk[s] = 1..Slots[s]
          /\ disk[s] \in Seq(Contents[s] \cup {Unreadable, NoFile})
      BY ReloadAssumption DEF IInv, Shape
    <3> QED BY <3>1, LenProperties
  <2>5. \A h \in DOMAIN sched["devices"] : \A f \in DOMAIN Defaults :
           sched["devices"][h].opts[f] # 0
    BY DEF IInv, Resolved, NoZero
  <2> QED BY <2>1, <2>2, <2>3, <2>4, <2>5 DEF TypeOK
<1> QED BY <1>1, Invariance, PTL

\* The scheduler and the App each hold all of what one Load returned, and the
\* producer the enumerations of Start's Load, for any number of concurrent Reloads,
\* any edits and any directories that cannot be listed.
THEOREM WholeLoadsCorrect == Spec => []RunsWholeLoads
<1>1. IInv => RunsWholeLoads
  BY DEF IInv, Whole
<1> QED BY <1>1, Invariance, PTL

\* The first part of QuietReload: a Reload that nobody disturbs hands the
\* scheduler what the files say, for any files and any number of them.
THEOREM QuietLoadCorrect == Spec => []QuietLoad
<1>1. IInv => QuietLoad
  <2> SUFFICES ASSUME IInv, NEW c \in Reloaders, load[c].pc = "store", load[c].quiet
               PROVE  load[c].acc = ConfigOnDisk /\ sched = load[c].acc
    BY DEF QuietLoad
  <2>0. c \in Callers
    BY DEF Callers
  <2>1. ~load[c].errs /\ sched = load[c].acc
    BY DEF IInv, NotOvertaken
  <2>2. SoFar(disk, load[c])
    BY <2>0, <2>1 DEF IInv, Faithful, Loading
  <2> DEFINE a == load[c].acc
  <2>3. /\ load[c].sec = 6
        /\ \A j \in 1..5 : j < load[c].sec =>
              a[Order[j]] = Says(disk[Order[j]], Order[j], ObjectsOf(disk))
    BY <2>2 DEF SoFar
  <2>4. \A j \in 1..5 : j < 6
    OBVIOUS
  <2>5. \A j \in 1..5 : a[Order[j]] = Says(disk[Order[j]], Order[j], ObjectsOf(disk))
    BY <2>3, <2>4
  <2>6. \A s \in Sections : a[s] = Says(disk[s], s, ObjectsOf(disk))
    BY <2>5, OrderFacts
  <2>7. ObjectsOf(disk) = OnDisk("objects", <<>>)
    BY OrderFacts, OnDiskSays DEF ObjectsOf
  <2>8. \A s \in Sections : a[s] = OnDisk(s, OnDisk("objects", <<>>))
    BY <2>6, <2>7, OnDiskSays
  <2>9. a = [s \in Sections |-> a[s]]
    BY <2>0 DEF IInv, Tables
  <2> HIDE DEF a
  <2>10. a = ConfigOnDisk
    BY <2>8, <2>9 DEF ConfigOnDisk
  <2> QED BY <2>1, <2>10 DEF a
<1> QED BY <1>1, Invariance, PTL

\* A Reload that nobody disturbs leaves the scheduler with exactly the jobs that
\* the files ask for when it returns: every object once for each device that
\* reaches it, with the last file's settings, for any files and any names in them.
THEOREM QuietReloadCorrect == Spec => []QuietReload
<1>1. Shape /\ QuietLoad => QuietReload
  <2> SUFFICES ASSUME Shape, QuietLoad, NEW c \in Reloaders, load[c].pc = "store", load[c].quiet
               PROVE  load[c].acc = ConfigOnDisk /\ AsAsked(ResolveJobs(sched), load[c].acc)
    BY DEF QuietReload, AsAsked
  <2>1. load[c].acc = ConfigOnDisk /\ sched = ConfigOnDisk
    BY DEF QuietLoad
  <2> QED BY <2>1, DiskTyped, ResolveCorrect
<1>2. IInv => Shape
  BY DEF IInv
<1> QED BY <1>1, <1>2, Invariance, QuietLoadCorrect, PTL
=============================================================================
