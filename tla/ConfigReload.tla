---------------------------- MODULE ConfigReload ----------------------------
(***************************************************************************)
(* Loading and reloading the configuration: config.Load and its section    *)
(* loaders (config/loader.go), ResolveJobs (scheduler/resolve.go) and what  *)
(* App.Start and App.Reload do with the result (app.go).                   *)
(*                                                                         *)
(* A Load is taken apart into the listing of a directory and the reading   *)
(* of one file, because the operator edits files meanwhile and nothing     *)
(* keeps two calls of Reload apart.  A file is the map that YAML makes of  *)
(* it, Unreadable when it cannot be decoded (malformed, empty, or half      *)
(* written), or NoFile.  A directory that does not exist gives the same     *)
(* empty section as one without files; one in which something vanishes     *)
(* while it is walked gives an empty section too.                          *)
(***************************************************************************)
EXTENDS Integers, Sequences, FiniteSets, SequencesExt, Ranking

CONSTANTS
    Main,         \* the goroutine that calls App.Start
    Reloaders,    \* the goroutines that call App.Reload
    Slots,        \* Slots[s]: file names of directory s, 1..Slots[s] in path order
    Contents,     \* Contents[s]: what a file of directory s may hold
    InitDisk,     \* the files when the program starts
    MaxTrouble,   \* bound: edits of files and listings that meet an error
    MaxReloads,   \* bound: calls of Reload
    Unreadable, NoFile

\* The directories in the order in which Load reads them.
Order == <<"devices", "device_groups", "object_groups", "objects", "enums">>
Sections == ToSet(Order)

ASSUME ReloadAssumption ==
    /\ Main \notin Reloaders
    /\ Slots \in [Sections -> Nat]
    /\ DOMAIN InitDisk = Sections
    /\ \A s \in Sections : InitDisk[s] \in [1..Slots[s] -> Contents[s] \cup {Unreadable, NoFile}]
    /\ MaxTrouble \in Nat /\ MaxReloads \in Nat

\* What YAML makes of a file: a map, which is finite; groups are sequences of names.
IsList(q) == q \in Seq(ToSet(q))
ASSUME ContentsAssumption ==
    /\ \A raw \in Contents["devices"] :
         /\ IsFiniteSet(DOMAIN raw) /\ DOMAIN raw \subseteq Int
         /\ \A h \in DOMAIN raw : IsList(raw[h].groups)
    /\ \A s \in {"device_groups", "object_groups"} : \A raw \in Contents[s] :
         \A g \in DOMAIN raw : IsList(raw[g])

VARIABLES
    disk,      \* disk[s][f]: file f of directory s
    load,      \* the Load each goroutine is in
    running,   \* App.Start has returned without an error
    loadedCfg, \* App.loadedCfg
    sched,     \* the configuration that the scheduler's entries were built from
    enums,     \* the registry that the producer was built with
    trouble, reloads,
    whole      \* history: results of successful Loads without an unlistable directory

vars == <<disk, load, running, loadedCfg, sched, enums, trouble, reloads, whole>>
appVars == <<running, loadedCfg, sched, enums>>

Callers == Reloaders \cup {Main}
EmptyConfig == [s \in Sections |-> <<>>]
Idle == [pc |-> "idle", sec |-> 1, todo |-> {}, acc |-> EmptyConfig, errs |-> FALSE,
         quiet |-> TRUE, listed |-> TRUE]
-----------------------------------------------------------------------------
\* A loader's loop over the entries of a file: they replace those with their key.
Override(old, new) ==
    [k \in DOMAIN old \cup DOMAIN new |-> IF k \in DOMAIN new THEN new[k] ELSE old[k]]

\* The fallbacks of the settings, for those that are missing or zero.
Defaults == [port |-> 161, poll_interval |-> 60, timeout |-> 3000, retries |-> 2,
             version |-> 2, max_concurrent_polls |-> 4]

\* Mutant of resolveDevice: only a setting that is missing gets its fallback.
resolveDeviceMissing(e) == [groups |-> e.groups, opts |-> Override(Defaults, e.opts)]

\* The DeviceConfig of a device's entry.
resolveDevice(e) ==
    [groups |-> e.groups,
     opts |-> [f \in DOMAIN Defaults |->
                 IF f \in DOMAIN e.opts /\ e.opts[f] # 0 THEN e.opts[f] ELSE Defaults[f]]]

\* normaliseOID drops a leading dot.
normaliseOID(raw) == raw.oid

\* convertObjectDef: the attributes, with their OIDs in canonical form.
convertObjectDef(body) ==
    [index |-> body.index,
     attrs |-> [a \in DOMAIN body.attrs |->
                  [body.attrs[a] EXCEPT !.oid = normaliseOID(@)]]]

\* The OIDs whose attribute, in any object that was loaded, is a bitmap.
BitmapOIDs(objects) ==
    UNION {{objects[k].attrs[a].oid :
              a \in {n \in DOMAIN objects[k].attrs : objects[k].attrs[n].syntax = "EnumBitmap"}} :
           k \in DOMAIN objects}

\* loadEnums: a label registers an OID enumeration, a map with integer keys an
\* integer enumeration with its bitmap flag; a map with another key, or another
\* value, is passed over.
registerEnums(raw, objects) ==
    LET Usable == {o \in DOMAIN raw : raw[o].kind \in {"label", "ints"}}
    IN  [e \in {<<raw[o].kind, normaliseOID(o)>> : o \in Usable} |->
           LET o == CHOOSE o \in Usable : <<raw[o].kind, normaliseOID(o)>> = e
           IN  [values |-> raw[o].values,
                bitmap |-> e[1] = "ints" /\ e[2] \in BitmapOIDs(objects)]]

\* What the loader of section s makes of a decoded file, given the objects that
\* Load has by then.
Convert(s, raw, objects) ==
    CASE s = "devices" -> [h \in DOMAIN raw |-> resolveDevice(raw[h])]
      [] s = "objects" -> [k \in DOMAIN raw |-> convertObjectDef(raw[k])]
      [] s = "enums"   -> registerEnums(raw, objects)
      [] OTHER         -> raw
-----------------------------------------------------------------------------
\* The places in the sequence names whose entry is a key of map m.
Known(m, names) == {n \in DOMAIN names : names[n] \in DOMAIN m}

\* The object groups of device h's i-th device group, and the objects of the
\* j-th of those.
ObjectGroups(cfg, h, i) == cfg["device_groups"][cfg["devices"][h].groups[i]]
Objects(cfg, h, i, j) == cfg["object_groups"][ObjectGroups(cfg, h, i)[j]]

\* A round of the innermost loop of ResolveJobs: the object that it comes to for a
\* host, and where it is in the four loops.
Round(cfg, h, i, j, k) ==
    [host |-> h, obj |-> Objects(cfg, h, i, j)[k], at |-> <<h, i, j, k>>]

\* All of them; groups that are not known are passed over.
Rounds(cfg) ==
    UNION {UNION {UNION {{Round(cfg, h, i, j, k) : k \in DOMAIN Objects(cfg, h, i, j)} :
                         j \in Known(cfg["object_groups"], ObjectGroups(cfg, h, i))} :
                  i \in Known(cfg["device_groups"], cfg["devices"][h].groups)} :
           h \in DOMAIN cfg["devices"]}

\* The loops come to place a before place b.
Earlier(a, b) == \E n \in DOMAIN a : a[n] < b[n] /\ \A m \in 1..n - 1 : a[m] = b[m]

\* The rounds that come to a defined object that the host has not seen before.
NewRounds(cfg) ==
    {r \in Rounds(cfg) :
       /\ r.obj \in DOMAIN cfg["objects"]
       /\ \A q \in Rounds(cfg) : q.host = r.host /\ q.obj = r.obj => ~Earlier(q.at, r.at)}

\* ResolveJobs: a job for each of them, in the order of the loops.
ResolveJobs(cfg) ==
    LET rounds == NewRounds(cfg)
        order  == Ranked(rounds, [r \in rounds |-> {q \in rounds : ~Earlier(r.at, q.at)}])
    IN  [n \in DOMAIN order |->
           [host |-> order[n].host, dev |-> cfg["devices"][order[n].host],
            obj |-> order[n].obj, def |-> cfg["objects"][order[n].obj]]]
-----------------------------------------------------------------------------
Init ==
    /\ disk = InitDisk
    /\ load = [c \in Callers |-> Idle]
    /\ running = FALSE
    /\ loadedCfg = EmptyConfig
    /\ sched = EmptyConfig
    /\ enums = <<>>
    /\ trouble = 0 /\ reloads = 0
    /\ whole = {}

\* A file becomes something else on disk: a Load in progress is not quiet.
Touch(s, f, content) ==
    /\ trouble < MaxTrouble
    /\ trouble' = trouble + 1
    /\ disk' = [disk EXCEPT ![s][f] = content]
    /\ load' = [c \in Callers |-> [load[c] EXCEPT !.quiet = FALSE]]
    /\ UNCHANGED <<appVars, reloads, whole>>

\* An editor truncates the file before it writes it, or leaves it malformed.
BeginEdit(s, f) == disk[s][f] # Unreadable /\ Touch(s, f, Unreadable)

\* A file is written, or renamed into place.
FinishEdit(s, f, content) == disk[s][f] # content /\ Touch(s, f, content)

RemoveFile(s, f) == disk[s][f] # NoFile /\ Touch(s, f, NoFile)

\* App.Start, or App.Reload on a running App, calls config.Load.
Begin(c) ==
    /\ load[c].pc = "idle"
    /\ running = (c # Main)
    /\ c # Main => reloads < MaxReloads
    /\ reloads' = IF c = Main THEN reloads ELSE reloads + 1
    /\ load' = [load EXCEPT ![c] = [Idle EXCEPT !.pc = "list"]]
    /\ UNCHANGED <<disk, appVars, trouble, whole>>

\* yamlFiles lists the directory; its files are read afterwards, in path order.
List(c) ==
    LET s == Order[load[c].sec]
    IN  /\ load[c].pc = "list"
        /\ load[c].sec <= Len(Order)
        /\ load' = [load EXCEPT
             ![c].pc = "read",
             ![c].todo = {f \in 1..Slots[s] : disk[s][f] # NoFile}]
        /\ UNCHANGED <<disk, appVars, trouble, reloads, whole>>

\* Something below the directory vanishes while it is walked.  The error is one
\* of a missing file, so the loader takes the directory for missing and leaves
\* the section empty, whatever other files there are; Load sees no error.  (A
\* file that goes is a RemoveFile.)
ListVanished(c) ==
    /\ load[c].pc = "list"
    /\ load[c].sec <= Len(Order)
    /\ trouble < MaxTrouble
    /\ trouble' = trouble + 1
    /\ load' = [load EXCEPT ![c].quiet = FALSE, ![c].sec = @ + 1]
    /\ UNCHANGED <<disk, appVars, reloads, whole>>

\* Mutant of ListFail: treats any error like a directory that does not exist.
ListFailEmpty(c) ==
    /\ load[c].pc = "list"
    /\ load[c].sec <= Len(Order)
    /\ trouble < MaxTrouble
    /\ trouble' = trouble + 1
    /\ load' = [load EXCEPT ![c].listed = FALSE, ![c].sec = @ + 1]
    /\ UNCHANGED <<disk, appVars, reloads, whole>>

\* The listing fails for another reason: Load notes the error and goes on.
ListFail(c) ==
    /\ load[c].pc = "list"
    /\ load[c].sec <= Len(Order)
    /\ trouble < MaxTrouble
    /\ trouble' = trouble + 1
    /\ load' = [load EXCEPT ![c].errs = TRUE, ![c].listed = FALSE, ![c].sec = @ + 1]
    /\ UNCHANGED <<disk, appVars, reloads, whole>>

\* Mutant of ReadFile: the entries of an earlier file win.
ReadFileFirst(c) ==
    LET s    == Order[load[c].sec]
        next == Min(load[c].todo)
        raw  == disk[s][next]
    IN  /\ load[c].pc = "read"
        /\ load[c].todo # {}
        /\ load' = [load EXCEPT
             ![c].todo = @ \ {next},
             ![c].acc[s] = IF raw \in {Unreadable, NoFile} THEN @
                           ELSE Override(Convert(s, raw, load[c].acc["objects"]), @)]
        /\ UNCHANGED <<disk, appVars, trouble, reloads, whole>>

\* One file is decoded and its entries replace those of earlier files; a file
\* that cannot be read, or is gone since it was listed, is passed over.
ReadFile(c) ==
    LET s    == Order[load[c].sec]
        next == Min(load[c].todo)
        raw  == disk[s][next]
    IN  /\ load[c].pc = "read"
        /\ load[c].todo # {}
        /\ load' = [load EXCEPT
             ![c].todo = @ \ {next},
             ![c].acc[s] = IF raw \in {Unreadable, NoFile} THEN @
                           ELSE Override(@, Convert(s, raw, load[c].acc["objects"]))]
        /\ UNCHANGED <<disk, appVars, trouble, reloads, whole>>

\* The section is complete.
NextSection(c) ==
    /\ load[c].pc = "read"
    /\ load[c].todo = {}
    /\ load' = [load EXCEPT ![c].pc = "list", ![c].sec = @ + 1]
    /\ UNCHANGED <<disk, appVars, trouble, reloads, whole>>

\* Load returns its errors: Start gives up, Reload changes nothing.
LoadFails(c) ==
    /\ load[c].pc = "list"
    /\ load[c].sec > Len(Order)
    /\ load[c].errs
    /\ load' = [load EXCEPT ![c] = [Idle EXCEPT !.pc = IF c = Main THEN "failed" ELSE "idle"]]
    /\ UNCHANGED <<disk, appVars, trouble, reloads, whole>>

Succeeds(c) == load[c].pc = "list" /\ load[c].sec > Len(Order) /\ ~load[c].errs

\* History of the complete Loads.
Note(c) == whole' = IF load[c].listed THEN whole \cup {load[c].acc} ELSE whole

\* App.Start goes on to build the producer and the scheduler from the result.
StartPipeline(c) ==
    /\ c = Main
    /\ Succeeds(c)
    /\ running' = TRUE
    /\ loadedCfg' = load[c].acc
    /\ enums' = load[c].acc["enums"]
    /\ sched' = load[c].acc
    /\ Note(c)
    /\ load' = [load EXCEPT ![c].pc = "started"]
    /\ UNCHANGED <<disk, trouble, reloads>>

\* App.Reload hands the result to the scheduler; the producer keeps its
\* registry.  Another Reload that has not come as far is not alone any more.
SchedReload(c) ==
    /\ c # Main
    /\ Succeeds(c)
    /\ sched' = load[c].acc
    /\ Note(c)
    /\ load' = [o \in Callers |-> IF o = c THEN [load[c] EXCEPT !.pc = "store"]
                                  ELSE [load[o] EXCEPT !.quiet = FALSE]]
    /\ UNCHANGED <<disk, running, loadedCfg, enums, trouble, reloads>>

\* ... and keeps it as the App's own.
Store(c) ==
    /\ load[c].pc = "store"
    /\ loadedCfg' = load[c].acc
    /\ load' = [load EXCEPT ![c] = Idle]
    /\ UNCHANGED <<disk, running, sched, enums, trouble, reloads, whole>>

Load(c) ==
    \/ List(c) \/ ListVanished(c) \/ ListFail(c) \/ ReadFile(c) \/ NextSection(c)
    \/ LoadFails(c) \/ StartPipeline(c) \/ SchedReload(c) \/ Store(c)

Edit ==
    \E s \in Sections : \E f \in 1..Slots[s] :
       \/ BeginEdit(s, f)
       \/ \E content \in Contents[s] : FinishEdit(s, f, content)
       \/ RemoveFile(s, f)

Next == Edit \/ \E c \in Callers : Begin(c) \/ Load(c)

Spec == Init /\ [][Next]_vars
-----------------------------------------------------------------------------
\* Every variable has the type of the Go value it stands for; no device that was
\* loaded has a zero setting.
TypeOK ==
    /\ \A c \in Callers :
         /\ load[c].pc \in {"idle", "list", "read", "store", "started", "failed"}
         /\ load[c].sec \in 1..Len(Order) + 1
         /\ DOMAIN load[c].acc = Sections
         /\ load[c].pc = "read" => load[c].todo \subseteq 1..Slots[Order[load[c].sec]]
    /\ running \in BOOLEAN
    /\ \A s \in Sections : Len(disk[s]) = Slots[s]
    /\ \A h \in DOMAIN sched["devices"] : \A f \in DOMAIN Defaults : sched["devices"][h].opts[f] # 0
    /\ trouble \in 0..MaxTrouble /\ reloads \in 0..MaxReloads

\* What the files of section s say: of the files that can be read, the last one
\* that has a key decides.
Readable(s) == {f \in 1..Slots[s] : disk[s][f] \notin {Unreadable, NoFile}}
OnDisk(s, objects) ==
    LET parsed == [f \in Readable(s) |-> Convert(s, disk[s][f], objects)]
    IN  [k \in UNION {DOMAIN parsed[f] : f \in Readable(s)} |->
           parsed[Max({f \in Readable(s) : k \in DOMAIN parsed[f]})][k]]
ConfigOnDisk == [s \in Sections |-> OnDisk(s, OnDisk("objects", <<>>))]

\* The jobs that configuration cfg asks for: an object for a host when some
\* chain of groups leads from one to the other.
Asked(cfg) ==
    {job \in (DOMAIN cfg["devices"]) \X (DOMAIN cfg["objects"]) :
       \E g \in ToSet(cfg["devices"][job[1]].groups) \cap DOMAIN cfg["device_groups"] :
         \E o \in ToSet(cfg["device_groups"][g]) \cap DOMAIN cfg["object_groups"] :
            job[2] \in ToSet(cfg["object_groups"][o])}

\* A Reload that has the files for itself, and no other Reload overtaking it,
\* makes the scheduler run what the files say when it returns: every object once
\* for each device that reaches it through any chain of groups, with the settings
\* of the last file, unknown names left out.
QuietReload ==
    \A c \in Reloaders : load[c].pc = "store" /\ load[c].quiet =>
       LET cfg  == load[c].acc
           jobs == ResolveJobs(sched)
       IN  /\ cfg = ConfigOnDisk
           /\ {<<jobs[n].host, jobs[n].obj>> : n \in DOMAIN jobs} = Asked(cfg)
           /\ Len(jobs) = Cardinality(Asked(cfg))
           /\ \A n \in DOMAIN jobs : /\ jobs[n].dev = cfg["devices"][jobs[n].host]
                                     /\ jobs[n].def = cfg["objects"][jobs[n].obj]

\* What runs is made of whole Loads, whatever fails and however two Reloads
\* interleave: the scheduler's configuration is all of what one Load returned, and
\* so is the App's own, perhaps of another Load; the producer's enumerations are
\* those of Start's Load.  None of these Loads met a directory that could not be
\* listed, unless for something missing in it.
RunsWholeLoads ==
    running => /\ {sched, loadedCfg} \subseteq whole
               /\ load[Main].acc \in whole /\ enums = load[Main].acc["enums"]
=============================================================================
