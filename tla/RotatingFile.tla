---------------------------- MODULE RotatingFile ----------------------------
(***************************************************************************)
(* The size-rotated output file (transport/file/rotate.go) under the       *)
(* transport that writes a record and then a newline, under a mutex        *)
(* (writeMetric and writeTrap in split.go).  A rotation is taken apart     *)
(* into its file system calls, so that the process can crash between any   *)
(* two of them and be started again, and a rename, a removal, the final    *)
(* open or the write can fail.                                             *)
(*                                                                         *)
(* File i of the disk is the backup ".i" and file 0 the active one.  A     *)
(* file is what was appended to it, as the numbers of the Write calls, and *)
(* its length; the bytes themselves do not matter.                         *)
(***************************************************************************)
EXTENDS Integers, Sequences, FiniteSets

CONSTANTS
    MaxBytes,     \* RotateConfig.MaxBytes; 0 disables rotation
    BackupLimits, \* values of RotateConfig.MaxBackups; 0 keeps all
    Lengths,      \* lengths of records
    Leftover,     \* bound: backups an earlier configuration left behind
    MaxWrites,    \* bound: Write calls that reach the disk
    MaxFiles,     \* bound: highest backup number, beyond what those below can make
    MaxCrashes,   \* bound: crashes of the process
    MaxMisses,    \* bound: renames that fail
    MaxFaults,    \* bound: other calls that fail: removals, opens, writes
    Absent        \* no such file

ASSUME RotateAssumption ==
    /\ MaxBytes \in Nat
    /\ BackupLimits \subseteq Nat
    /\ Lengths \subseteq Nat \ {0}
    /\ MaxWrites \in Nat /\ MaxCrashes \in Nat
    /\ Leftover \in 0..MaxWrites
    /\ MaxFiles \in Nat /\ \A b \in BackupLimits : MaxFiles > b
    /\ MaxFiles > MaxWrites + 1 + MaxCrashes + MaxFaults
    /\ MaxMisses \in Nat /\ MaxFaults \in Nat

Kinds == {"data", "nl"}
Chunk == [n : Nat, kind : Kinds]
Content == [chunks : Seq(Chunk), bytes : Nat]
Files == 0..MaxFiles

ASSUME AbsentAssumption == Absent \notin Content

VARIABLES
    maxBackups, \* RotateConfig.MaxBackups of this run; never changes
    disk,    \* the content of each file, or Absent
    file,    \* rf.file is an open file
    size,    \* rf.size
    pc,      \* "ready", "check", then the calls of rotate, "write"; "down"
    part,    \* what the current Write writes: a record or its newline
    len,     \* its length
    i,       \* the loop variable of rotate's shift, then of prune
    written, \* Write calls that have reached the disk
    crashes,
    misses,  \* renames that have failed
    faults   \* removals, opens and writes that have failed

vars == <<maxBackups, disk, file, size, pc, part, len, i, written, crashes, misses, faults>>
callVars == <<part, len>>

Exists(f) == disk[f] # Absent
Empty == [chunks |-> <<>>, bytes |-> 0]

\* os.Rename and os.Remove; the target of a rename is overwritten.
Rename(f, g) == [disk EXCEPT ![g] = disk[f], ![f] = Absent]
Remove(f) == [disk EXCEPT ![f] = Absent]

\* A rename whose error the code ignores or only logs: it is done, unless the
\* source is missing, or it fails.
TryRename(f, g) ==
    \/ disk' = (IF Exists(f) THEN Rename(f, g) ELSE disk) /\ UNCHANGED misses
    \/ Exists(f) /\ misses < MaxMisses /\ misses' = misses + 1 /\ UNCHANGED disk

\* Another call of the file system fails.
Fault == faults < MaxFaults /\ faults' = faults + 1

\* openFile creates the active file when there is none.
Opened == IF Exists(0) THEN disk ELSE [disk EXCEPT ![0] = Empty]

\* findMaxBackup: the last of the backups numbered without a gap from 1.
MaxBackup == CHOOSE m \in Files : /\ \A k \in 1..m : Exists(k)
                                  /\ m + 1 \in Files => ~Exists(m + 1)
-----------------------------------------------------------------------------
\* NewRotatingFile in a directory that holds the backups, if any, of an earlier
\* run, perhaps more than maxBackups: their content counts as written.
Init ==
    /\ maxBackups \in BackupLimits
    /\ written \in 0..Leftover
    /\ disk = [f \in Files |->
                 IF f = 0 THEN Empty
                 ELSE IF f <= written
                   THEN [chunks |-> <<[n |-> written + 1 - f, kind |-> "nl"]>>, bytes |-> 1]
                   ELSE Absent]
    /\ file = TRUE
    /\ size = 0
    /\ pc = "ready"
    /\ part = "data" /\ len = 1
    /\ i = 0
    /\ crashes = 0 /\ misses = 0 /\ faults = 0

\* Send calls Write for the next record.
Send(l) ==
    /\ pc = "ready"
    /\ written < MaxWrites
    /\ part' = "data"
    /\ len' = l
    /\ pc' = "check"
    /\ UNCHANGED <<disk, file, size, i, written, crashes, misses, faults>>

\* Mutant of Check: rotates only once the file is already too long.
CheckLate ==
    /\ pc = "check"
    /\ IF MaxBytes > 0 /\ size > MaxBytes
         THEN pc' = "remove" /\ file' = FALSE
         ELSE pc' = "write" /\ UNCHANGED file
    /\ UNCHANGED <<disk, size, callVars, i, written, crashes, misses, faults>>

\* Write decides whether to rotate; rotate closes the active file.
Check ==
    /\ pc = "check"
    /\ IF MaxBytes > 0 /\ size + len > MaxBytes
         THEN pc' = "remove" /\ file' = FALSE
         ELSE pc' = "write" /\ UNCHANGED file
    /\ UNCHANGED <<disk, size, callVars, i, written, crashes, misses, faults>>

\* Mutant of RemoveOldest: the shift misses the highest of unlimited backups.
RemoveOldestShort ==
    /\ pc = "remove"
    /\ disk' = IF maxBackups > 0 THEN Remove(maxBackups) ELSE disk
    /\ i' = IF maxBackups > 0 THEN maxBackups
            ELSE IF MaxBackup > 0 THEN MaxBackup - 1 ELSE 0
    /\ pc' = "shift"
    /\ UNCHANGED <<file, size, callVars, written, crashes, misses, faults>>

\* Mutant of RemoveOldest: takes the youngest backup for the oldest.
RemoveYoungest ==
    /\ pc = "remove"
    /\ disk' = IF maxBackups > 0 THEN Remove(1) ELSE disk
    /\ i' = IF maxBackups > 0 THEN maxBackups ELSE MaxBackup
    /\ pc' = "shift"
    /\ UNCHANGED <<file, size, callVars, written, crashes, misses, faults>>

\* The oldest backup goes, when backups are limited; the shift starts at the
\* highest number.
RemoveOldest ==
    /\ pc = "remove"
    /\ disk' = IF maxBackups > 0 THEN Remove(maxBackups) ELSE disk
    /\ i' = IF maxBackups > 0 THEN maxBackups ELSE MaxBackup
    /\ pc' = "shift"
    /\ UNCHANGED <<file, size, callVars, written, crashes, misses, faults>>

\* The removal fails, which is ignored: the oldest backup is shifted as well.
RemoveFail ==
    /\ pc = "remove"
    /\ maxBackups > 0 /\ Exists(maxBackups)
    /\ Fault
    /\ i' = maxBackups
    /\ pc' = "shift"
    /\ UNCHANGED <<disk, file, size, callVars, written, crashes, misses>>

\* Mutant of Shift: the loop runs down to 0.
ShiftToZero ==
    /\ pc = "shift"
    /\ i >= 0
    /\ TryRename(i, i + 1)
    /\ i' = i - 1
    /\ UNCHANGED <<file, size, pc, callVars, written, crashes, faults>>

\* One iteration of the shift, .i to .(i+1); errors are ignored.
Shift ==
    /\ pc = "shift"
    /\ i >= 1
    /\ TryRename(i, i + 1)
    /\ i' = i - 1
    /\ UNCHANGED <<file, size, pc, callVars, written, crashes, faults>>

\* Mutant of RenameActive: copies the active file and leaves it there.
CopyActive ==
    /\ pc = "shift"
    /\ i = 0
    /\ disk' = IF Exists(0) THEN [disk EXCEPT ![1] = disk[0]] ELSE disk
    /\ IF maxBackups > 0
         THEN pc' = "prune" /\ i' = maxBackups + 1
         ELSE pc' = "open" /\ UNCHANGED i
    /\ UNCHANGED <<file, size, callVars, written, crashes, misses, faults>>

\* The active file becomes .1; an error is logged.
RenameActive ==
    /\ pc = "shift"
    /\ i = 0
    /\ TryRename(0, 1)
    /\ IF maxBackups > 0
         THEN pc' = "prune" /\ i' = maxBackups + 1
         ELSE pc' = "open" /\ UNCHANGED i
    /\ UNCHANGED <<file, size, callVars, written, crashes, faults>>

\* Mutant of Prune: removes one file only.
PruneOne ==
    /\ pc = "prune"
    /\ disk' = IF Exists(i) THEN Remove(i) ELSE disk
    /\ pc' = "open"
    /\ UNCHANGED <<file, size, callVars, i, written, crashes, misses, faults>>

\* prune removes the backups from maxBackups + 1 upwards, to the first gap.
Prune ==
    /\ pc = "prune"
    /\ IF Exists(i)
         THEN disk' = Remove(i) /\ i' = i + 1 /\ UNCHANGED pc
         ELSE pc' = "open" /\ UNCHANGED <<disk, i>>
    /\ UNCHANGED <<file, size, callVars, written, crashes, misses, faults>>

\* A removal fails, which prune takes for the end of the backups.
PruneFail ==
    /\ pc = "prune"
    /\ Exists(i)
    /\ Fault
    /\ pc' = "open"
    /\ UNCHANGED <<disk, file, size, callVars, i, written, crashes, misses>>

\* rotate opens a fresh file.
Open ==
    /\ pc = "open"
    /\ disk' = Opened
    /\ size' = disk'[0].bytes
    /\ file' = TRUE
    /\ pc' = "write"
    /\ UNCHANGED <<callVars, i, written, crashes, misses, faults>>

\* The open fails: rf.file stays nil and the size is 0; Write goes on.
OpenFail ==
    /\ pc = "open"
    /\ Fault
    /\ size' = 0
    /\ pc' = "write"
    /\ UNCHANGED <<disk, file, callVars, i, written, crashes, misses>>

\* The file is opened, or created, but its Stat fails: it is closed again.
StatFail ==
    /\ pc = "open"
    /\ Fault
    /\ disk' = Opened
    /\ size' = 0
    /\ pc' = "write"
    /\ UNCHANGED <<file, callVars, i, written, crashes, misses>>

\* rf.file.Write appends k bytes, which rf.size counts.
Appended(k) ==
    /\ pc = "write"
    /\ file
    /\ disk' = [disk EXCEPT ![0] =
                  [chunks |-> Append(@.chunks, [n |-> written + 1, kind |-> part]),
                   bytes |-> @.bytes + k]]
    /\ size' = size + k
    /\ written' = written + 1
    /\ UNCHANGED <<file, i, crashes, misses>>

\* It succeeds; after a record comes its newline.
Append1 ==
    /\ Appended(len)
    /\ IF part = "data"
         THEN part' = "nl" /\ len' = 1 /\ pc' = "check"
         ELSE UNCHANGED callVars /\ pc' = "ready"
    /\ UNCHANGED faults

\* It is cut short, a full disk say: the error ends Send before the newline.
AppendShort ==
    /\ \E k \in 1..len - 1 : Appended(k)
    /\ Fault
    /\ pc' = "ready"
    /\ UNCHANGED callVars

\* It writes nothing, with the same end.
WriteFail ==
    /\ pc = "write"
    /\ file
    /\ Fault
    /\ pc' = "ready"
    /\ UNCHANGED <<disk, file, size, callVars, i, written, crashes, misses>>

\* Write on a nil file returns an error, which ends Send.
WriteNil ==
    /\ pc = "write"
    /\ ~file
    /\ pc' = "ready"
    /\ UNCHANGED <<disk, file, size, callVars, i, written, crashes, misses, faults>>
-----------------------------------------------------------------------------
\* SplitWriterTransport.Close closes the file, on an orderly shutdown.
Close ==
    /\ pc = "ready"
    /\ file' = FALSE
    /\ pc' = "down"
    /\ UNCHANGED <<disk, size, callVars, i, written, crashes, misses, faults>>

\* The process dies, at any point.
Crash ==
    /\ pc # "down"
    /\ crashes < MaxCrashes
    /\ crashes' = crashes + 1
    /\ file' = FALSE
    /\ pc' = "down"
    /\ UNCHANGED <<disk, size, callVars, i, written, misses, faults>>

\* Mutant of Restart: forgets to ask the file for its size.
RestartZero ==
    /\ pc = "down"
    /\ disk' = Opened
    /\ size' = 0
    /\ file' = TRUE
    /\ pc' = "ready"
    /\ UNCHANGED <<callVars, i, written, crashes, misses, faults>>

\* It is started again: NewRotatingFile opens the active file for append.
Restart ==
    /\ pc = "down"
    /\ disk' = Opened
    /\ size' = disk'[0].bytes
    /\ file' = TRUE
    /\ pc' = "ready"
    /\ UNCHANGED <<callVars, i, written, crashes, misses, faults>>

Next ==
    /\ \/ \E l \in Lengths : Send(l)
       \/ Check \/ RemoveOldest \/ RemoveFail \/ Shift \/ RenameActive
       \/ Prune \/ PruneFail \/ Open \/ OpenFail \/ StatFail
       \/ Append1 \/ AppendShort \/ WriteFail \/ WriteNil
       \/ Close \/ Crash \/ Restart
    /\ UNCHANGED maxBackups

Spec == Init /\ [][Next]_vars
-----------------------------------------------------------------------------
Numbers(f) == IF Exists(f) THEN {disk[f].chunks[k].n : k \in DOMAIN disk[f].chunks} ELSE {}
OnDisk == UNION {Numbers(f) : f \in Files}

\* Every variable has the type of the Go value it stands for, and no backup
\* reaches the bound MaxFiles.
TypeOK ==
    /\ maxBackups \in BackupLimits
    /\ disk \in [Files -> Content \cup {Absent}]
    /\ ~Exists(MaxFiles)
    /\ file \in BOOLEAN
    /\ size \in Nat
    /\ pc \in {"ready", "check", "remove", "shift", "prune", "open", "write", "down"}
    /\ part \in Kinds /\ len \in Nat \ {0}
    /\ i \in Files
    /\ written \in 0..MaxWrites + 1
    /\ crashes \in 0..MaxCrashes /\ misses \in 0..MaxMisses /\ faults \in 0..MaxFaults

\* Read from the highest backup down to the active file, the files hold what
\* was written in the order it was written, and nothing twice: the shift never
\* lets a younger file pass an older one, whatever fails and wherever a crash
\* interrupts it.
FilesInOrder ==
    /\ \A f, g \in Files : f > g => \A a \in Numbers(f), b \in Numbers(g) : a < b
    /\ \A f \in Files : Exists(f) =>
          \A k, m \in DOMAIN disk[f].chunks : k < m => disk[f].chunks[k].n < disk[f].chunks[m].n

\* Rotation gives up old output only: the maxBackups + 1 files it is to keep
\* hold the end of what was written, without a hole, even after crashes inside a
\* rotation and with backups of a larger configuration lying beyond them.  (A
\* failed rename makes the next one overwrite a backup.)
KeepsNewest ==
    LET Kept == UNION {Numbers(f) : f \in 0..maxBackups}
    IN  misses = 0 => \A a \in Kept : a..written \subseteq Kept

\* With maxBackups = 0 every byte that was ever written is kept.
KeepsAll == maxBackups = 0 /\ misses = 0 => OnDisk = 1..written

\* The cached size is the length of the active file whenever it is used.
SizeIsCurrent == file => Exists(0) /\ size = disk[0].bytes

\* No file grows beyond MaxBytes, unless one single write is longer than that or
\* the active file could not be renamed.
SizeBound ==
    MaxBytes > 0 /\ misses = 0 => \A f \in Files :
       Exists(f) => disk[f].bytes <= MaxBytes \/ Len(disk[f].chunks) = 1

\* A rotation leaves no backup beyond maxBackups, those of an earlier and larger
\* configuration included.  A crash inside prune is excepted: it leaves a gap,
\* which later prunes take for the end, and so does a failed rename; a removal
\* that fails ends its prune at once.
BackupBound ==
    maxBackups > 0 /\ crashes = 0 /\ misses = 0 /\ faults = 0 /\ pc = "open" =>
       \A f \in Files : f > maxBackups => ~Exists(f)
-----------------------------------------------------------------------------
(* What the comments say, where the code does something else. *)

\* rotate.go "Continue writing to the current file rather than losing data":
\* whatever fails in a rotation, Write has a file to write to.
NothingRefused == pc = "write" => file
=============================================================================
