------------------------- MODULE RotatingFileProofs -------------------------
(***************************************************************************)
(* Proofs about RotatingFile: what a rotation that can stop between any    *)
(* two of its file system calls does to the files, for any limits, lengths *)
(* and leftovers, and any number of writes, crashes and failures.          *)
(*                                                                         *)
(* Only FilesInOrder survives every rename by itself: a file moves by one, *)
(* to a place below all older ones.  That nothing is overwritten needs     *)
(* Clear, which in turn rests on what findMaxBackup computes; that a file  *)
(* stays short needs to know what rotate has left behind (Moved, Fits);    *)
(* that prune removes everything needs NoGap, because it stops at the      *)
(* first number that is missing.                                           *)
(***************************************************************************)
EXTENDS RotatingFile, SequenceTheorems, WellFoundedInduction, TLAPS

Rotating == {"remove", "shift", "prune", "open"}

\* rotate closes the file first and opens one last.
ClosedInside == pc \in Rotating => ~file

\* A Write call that has not reached the disk yet is accounted for.
Pending ==
    pc \in Rotating \cup {"check", "write"} =>
       IF part = "data" THEN written < MaxWrites ELSE written <= MaxWrites

\* Files that a rotation adds are paid for by the Write that follows it, or by
\* the crash or the failure that prevents it.
Fee == IF pc \in {"shift", "prune", "open"} \/ (pc = "write" /\ file) THEN 1 ELSE 0
Room ==
    \A f \in Files : Exists(f) =>
       /\ f <= written + crashes + faults + Fee
       /\ pc = "shift" /\ f <= i => f <= written + crashes + faults

\* The numbers on disk are those of Write calls that reached it.
Known == \A f \in Files : \A a \in Numbers(f) : a \in 1..written

\* The shift never meets an existing target, unless a rename failed: with
\* limited backups the oldest is gone, or failed to go and moves out of what is
\* kept; without a limit it starts at a gap.
Clear ==
    pc = "shift" /\ misses = 0 =>
       /\ maxBackups > 0 => i <= maxBackups
       /\ IF i = maxBackups /\ maxBackups > 0
            THEN faults = 0 => ~Exists(i)
            ELSE ~Exists(i + 1)

\* prune works beyond the backups that are kept.
PruneBeyond == pc = "prune" => maxBackups > 0 /\ i > maxBackups

\* Once the active file is renamed there is none, and what is to be appended
\* fits, or comes first in its file.
Moved == pc \in {"prune", "open"} /\ misses = 0 => ~Exists(0)
Fits ==
    pc = "write" /\ file /\ MaxBytes > 0 /\ misses = 0 =>
       size + len <= MaxBytes \/ disk[0] = Empty

\* The backups beyond maxBackups have no gap, but for those that prune removed.
NoGap ==
    maxBackups > 0 /\ crashes = 0 /\ misses = 0 /\ faults = 0 =>
       LET first == IF pc = "prune" THEN i ELSE maxBackups + 1
       IN  \A f \in Files : Exists(f) /\ f > maxBackups =>
              f >= first /\ \A g \in first..f : Exists(g)

\* TypeOK, but for the bound on the files, which follows from Room.
Typed ==
    /\ maxBackups \in BackupLimits
    /\ disk \in [Files -> Content \cup {Absent}]
    /\ file \in BOOLEAN
    /\ size \in Nat
    /\ pc \in {"ready", "check", "remove", "shift", "prune", "open", "write", "down"}
    /\ part \in Kinds /\ len \in Nat \ {0}
    /\ i \in Files
    /\ written \in 0..MaxWrites + 1
    /\ crashes \in 0..MaxCrashes /\ misses \in 0..MaxMisses /\ faults \in 0..MaxFaults

IInv ==
    /\ TypeOK /\ ClosedInside /\ Pending /\ Room /\ SizeIsCurrent
    /\ FilesInOrder /\ Known
    /\ Clear /\ PruneBeyond /\ KeepsAll /\ KeepsNewest
    /\ Moved /\ Fits /\ SizeBound
    /\ NoGap /\ BackupBound
-----------------------------------------------------------------------------
(* The operators. *)

\* A set of numbers that is not empty has a least one.
LEMMA Least ==
    ASSUME NEW T, T \subseteq Nat, T # {}
    PROVE  \E x \in T : \A y \in T : x <= y
<1> DEFINE R == OpToRel(<, Nat)
<1>1. IsWellFoundedOn(R, Nat)
  BY NatLessThanWellFounded
<1>2. \A ss \in Nat \X Nat : ss[1] < ss[2] => ss \in R
  BY Zenon DEF OpToRel
<1> HIDE DEF R
<1>3. PICK x \in T : \A y \in T : ~(<<y, x>> \in R)
  BY <1>1, WFMin
<1>4. ASSUME NEW y \in T PROVE x <= y
  <2>1. <<y, x>> \in Nat \X Nat /\ <<y, x>>[1] = y /\ <<y, x>>[2] = x
    OBVIOUS
  <2>2. ~(y < x)
    BY <2>1, <1>2, <1>3
  <2> QED BY <2>2
<1> QED BY <1>4

\* findMaxBackup stops at the first gap, and there is one within the bound.
LEMMA MaxBackupStops ==
    ASSUME TypeOK
    PROVE  /\ MaxBackup \in Files /\ MaxBackup + 1 \in Files
           /\ \A k \in 1..MaxBackup : Exists(k)
           /\ ~Exists(MaxBackup + 1)
<1> DEFINE Gaps == {k \in 1..MaxFiles : ~Exists(k)}
<1>0. MaxFiles \in Nat \ {0} /\ ~Exists(MaxFiles)
  BY RotateAssumption DEF TypeOK
<1>1. Gaps \subseteq Nat /\ MaxFiles \in Gaps
  BY <1>0
<1>2. PICK x \in Gaps : \A y \in Gaps : x <= y
  BY <1>1, Least
<1>3. x \in 1..MaxFiles /\ ~Exists(x)
  BY <1>2
<1>4. \A k \in 1..(x - 1) : Exists(k)
  BY <1>0, <1>2, <1>3
<1>5. \E m \in Files : /\ \A k \in 1..m : Exists(k)
                       /\ m + 1 \in Files => ~Exists(m + 1)
  <2>1. x - 1 \in Files /\ (x - 1) + 1 = x
    BY <1>0, <1>3 DEF Files
  <2> QED BY <2>1, <1>3, <1>4
<1>6. /\ MaxBackup \in Files
      /\ \A k \in 1..MaxBackup : Exists(k)
      /\ MaxBackup + 1 \in Files => ~Exists(MaxBackup + 1)
  BY <1>5 DEF MaxBackup
<1>7. MaxBackup # MaxFiles
  BY <1>0, <1>6
<1>8. MaxBackup + 1 \in Files
  BY <1>0, <1>6, <1>7 DEF Files
<1> QED BY <1>6, <1>8

\* What the calls on the file system leave of the files and their numbers.
LEMMA RenameEffect ==
    ASSUME disk \in [Files -> Content \cup {Absent}],
           NEW f \in Files, f + 1 \in Files, Exists(f), disk' = Rename(f, f + 1)
    PROVE  /\ disk' \in [Files -> Content \cup {Absent}]
           /\ \A g \in Files : disk'[g] = IF g = f + 1 THEN disk[f]
                                          ELSE IF g = f THEN Absent ELSE disk[g]
           /\ \A g \in Files : Exists(g)' <=> g = f + 1 \/ (g # f /\ Exists(g))
           /\ \A g \in Files : Numbers(g)' = IF g = f + 1 THEN Numbers(f)
                                             ELSE IF g = f THEN {} ELSE Numbers(g)
<1>0. f + 1 # f
  BY DEF Files
<1>1. /\ disk' \in [Files -> Content \cup {Absent}]
      /\ \A g \in Files : disk'[g] = IF g = f + 1 THEN disk[f]
                                     ELSE IF g = f THEN Absent ELSE disk[g]
  BY <1>0 DEF Rename
<1>2. \A g \in Files : Exists(g)' <=> g = f + 1 \/ (g # f /\ Exists(g))
  BY <1>0, <1>1 DEF Exists
<1>3. \A g \in Files : Numbers(g)' = IF g = f + 1 THEN Numbers(f)
                                     ELSE IF g = f THEN {} ELSE Numbers(g)
  <2> SUFFICES ASSUME NEW g \in Files
               PROVE  Numbers(g)' = IF g = f + 1 THEN Numbers(f)
                                    ELSE IF g = f THEN {} ELSE Numbers(g)
    OBVIOUS
  <2>1. CASE g = f + 1
    BY <1>1, <1>2, <2>1 DEF Numbers
  <2>2. CASE g = f
    BY <1>0, <1>2, <2>2 DEF Numbers
  <2>3. CASE g # f /\ g # f + 1
    BY <1>1, <1>2, <2>3 DEF Numbers
  <2> QED BY <1>0, <2>1, <2>2, <2>3
<1> QED BY <1>1, <1>2, <1>3

\* A Remove that succeeds leaves its name free and the other files as they were.
LEMMA RemoveEffect ==
    ASSUME disk \in [Files -> Content \cup {Absent}], NEW f \in Files, disk' = Remove(f)
    PROVE  /\ disk' \in [Files -> Content \cup {Absent}]
           /\ \A g \in Files : disk'[g] = IF g = f THEN Absent ELSE disk[g]
           /\ \A g \in Files : Exists(g)' <=> g # f /\ Exists(g)
           /\ \A g \in Files : Numbers(g)' = IF g = f THEN {} ELSE Numbers(g)
<1>1. /\ disk' \in [Files -> Content \cup {Absent}]
      /\ \A g \in Files : disk'[g] = IF g = f THEN Absent ELSE disk[g]
  BY DEF Remove
<1>2. \A g \in Files : Exists(g)' <=> g # f /\ Exists(g)
  BY <1>1 DEF Exists
<1>3. \A g \in Files : Numbers(g)' = IF g = f THEN {} ELSE Numbers(g)
  BY <1>1, <1>2 DEF Numbers
<1> QED BY <1>1, <1>2, <1>3

\* Opening the active file keeps what it has, or makes it empty.
LEMMA OpenEffect ==
    ASSUME disk \in [Files -> Content \cup {Absent}], disk' = Opened
    PROVE  /\ disk' \in [Files -> Content \cup {Absent}]
           /\ \A g \in Files : disk'[g] = IF g = 0 /\ ~Exists(0) THEN Empty ELSE disk[g]
           /\ \A g \in Files : Exists(g)' <=> g = 0 \/ Exists(g)
           /\ \A g \in Files : Numbers(g)' = Numbers(g)
<1>0. 0 \in Files
  BY RotateAssumption DEF Files
<1>1. Empty \in Content /\ Empty # Absent /\ DOMAIN Empty.chunks = {}
  <2>1. Empty \in Content
    BY DEF Empty, Content
  <2>2. DOMAIN Empty.chunks = {}
    BY DEF Empty
  <2> QED BY <2>1, <2>2, AbsentAssumption
<1>2. /\ disk' \in [Files -> Content \cup {Absent}]
      /\ \A g \in Files : disk'[g] = IF g = 0 /\ ~Exists(0) THEN Empty ELSE disk[g]
  BY <1>0, <1>1 DEF Opened
<1>3. \A g \in Files : Exists(g)' <=> g = 0 \/ Exists(g)
  BY <1>0, <1>1, <1>2 DEF Exists
<1>4. \A g \in Files : Numbers(g)' = Numbers(g)
  BY <1>0, <1>1, <1>2, <1>3 DEF Numbers
<1> QED BY <1>2, <1>3, <1>4

\* A Write that reaches the disk adds the next number, and some bytes, at the end
\* of the active file.
LEMMA AppendEffect ==
    ASSUME TypeOK, SizeIsCurrent, Append1 \/ AppendShort
    PROVE  /\ disk' \in [Files -> Content \cup {Absent}]
           /\ disk[0] \in Content
           /\ disk'[0].chunks = Append(disk[0].chunks, [n |-> written + 1, kind |-> part])
           /\ \E k \in 1..len : disk'[0].bytes = disk[0].bytes + k /\ size' = size + k
           /\ \A g \in Files : g # 0 => disk'[g] = disk[g]
           /\ \A g \in Files : Exists(g)' <=> Exists(g)
           /\ Numbers(0)' = Numbers(0) \cup {written + 1}
           /\ \A g \in Files : g # 0 => Numbers(g)' = Numbers(g)
<1>a. PICK k \in 1..len : Appended(k)
  BY DEF Append1, AppendShort, TypeOK
<1> DEFINE c == [n |-> written + 1, kind |-> part]
           new == [chunks |-> Append(disk[0].chunks, c), bytes |-> disk[0].bytes + k]
<1>0. 0 \in Files /\ Exists(0)
  BY <1>a, RotateAssumption DEF Files, Appended, SizeIsCurrent
<1>1. disk[0] \in Content /\ disk[0].chunks \in Seq(Chunk) /\ disk[0].bytes \in Nat
  BY <1>0 DEF TypeOK, Exists, Content
<1>2. c \in Chunk /\ c.n = written + 1
  BY DEF TypeOK, Chunk
<1>3. new \in Content /\ new # Absent
  <2>1. Append(disk[0].chunks, c) \in Seq(Chunk) /\ disk[0].bytes + k \in Nat
    BY <1>1, <1>2
  <2>2. new \in Content
    BY <2>1 DEF Content
  <2> QED BY <2>2, AbsentAssumption
<1>4. disk' = [disk EXCEPT ![0] = new]
  BY <1>0, <1>a DEF Appended, TypeOK
<1> HIDE DEF c, new
<1>5. /\ disk' \in [Files -> Content \cup {Absent}] /\ disk'[0] = new
      /\ \A g \in Files : g # 0 => disk'[g] = disk[g]
  BY <1>0, <1>3, <1>4 DEF TypeOK
<1>6. \A g \in Files : Exists(g)' <=> Exists(g)
  BY <1>0, <1>3, <1>5 DEF Exists
<1>7. \A g \in Files : g # 0 => Numbers(g)' = Numbers(g)
  BY <1>5, <1>6 DEF Numbers
<1>8. Numbers(0)' = Numbers(0) \cup {written + 1}
  <2> DEFINE s == disk[0].chunks
             t == Append(s, c)
  <2>1. /\ DOMAIN s = 1..Len(s) /\ Len(s) \in Nat
        /\ DOMAIN t = 1..(Len(s) + 1) /\ t[Len(s) + 1] = c
        /\ \A m \in 1..Len(s) : t[m] = s[m]
    BY <1>1, <1>2
  <2>2. new.chunks = t
    BY DEF new
  <2>3. Numbers(0)' = {t[m].n : m \in DOMAIN t} /\ Numbers(0) = {s[m].n : m \in DOMAIN s}
    BY <1>0, <1>5, <1>6, <2>2 DEF Numbers
  <2> HIDE DEF s, t
  <2> QED BY <1>2, <2>1, <2>3
<1>9. disk'[0].chunks = Append(disk[0].chunks, c) /\ disk'[0].bytes = disk[0].bytes + k
  BY <1>5 DEF new
<1>10. size' = size + k
  BY <1>a DEF Appended
<1> QED BY <1>1, <1>5, <1>6, <1>7, <1>8, <1>9, <1>10 DEF c
-----------------------------------------------------------------------------
(* The type, and the room that the bound on the files leaves. *)

\* No file reaches the bound MaxFiles, as each is paid for.
LEMMA Capped ==
    ASSUME Typed', Pending', Room'
    PROVE  TypeOK'
<1>1. /\ MaxFiles \in Nat /\ MaxWrites \in Nat /\ MaxCrashes \in Nat /\ MaxFaults \in Nat
      /\ MaxFiles > MaxWrites + 1 + MaxCrashes + MaxFaults
  BY RotateAssumption
<1>2. /\ written' \in Nat /\ crashes' \in Nat /\ faults' \in Nat
      /\ crashes' <= MaxCrashes /\ faults' <= MaxFaults /\ written' <= MaxWrites + 1
  BY <1>1 DEF Typed
<1>3. Fee' = 1 => written' <= MaxWrites
  <2> SUFFICES ASSUME Fee' = 1 PROVE written' <= MaxWrites
    OBVIOUS
  <2>1. pc' \in {"shift", "prune", "open", "write"}
    BY DEF Fee
  <2>2. pc' \in Rotating \cup {"check", "write"}
    BY <2>1 DEF Rotating
  <2>3. written' < MaxWrites \/ written' <= MaxWrites
    BY <2>2 DEF Pending
  <2> QED BY <1>1, <1>2, <2>3
<1>4. Fee' = 0 \/ Fee' = 1
  BY DEF Fee
<1>5. written' + crashes' + faults' + Fee' < MaxFiles
  BY <1>1, <1>2, <1>3, <1>4
<1>6. ~Exists(MaxFiles)'
  <2> SUFFICES ASSUME Exists(MaxFiles)' PROVE FALSE
    OBVIOUS
  <2>1. MaxFiles <= written' + crashes' + faults' + Fee'
    BY <1>1 DEF Room, Files
  <2> QED BY <1>1, <1>2, <1>4, <1>5, <2>1
<1> QED BY <1>6 DEF TypeOK, Typed

\* A failure may pay for a file as well.
LEMMA MoreRoom ==
    ASSUME NEW g \in Nat, NEW n \in Nat, NEW a \in Nat, NEW b \in Nat, a <= b
    PROVE  /\ n + a \in Nat /\ n + b \in Nat
           /\ g <= n + a => g <= n + b
           /\ g <= n + a + 1 => g <= n + b + 1
OBVIOUS

\* The types and the parts of the invariant that they rest on.
Basics == Typed /\ ClosedInside /\ Pending /\ Room /\ PruneBeyond

\* The steps that touch no file.
LEMMA BasicsSame ==
    ASSUME TypeOK, Basics, UNCHANGED maxBackups,
           (\E l \in Lengths : Send(l)) \/ Check \/ OpenFail \/ WriteFail \/ WriteNil \/ Close \/ Crash
    PROVE  Basics'
<1>1. disk' = disk /\ maxBackups' = maxBackups /\ misses' = misses /\ i' = i /\ written' = written
  BY DEF Send, Check, OpenFail, WriteFail, WriteNil, Close, Crash, callVars
<1>2. file' \in BOOLEAN /\ (pc' \in Rotating => ~file')
  <2>1. CASE Check
    BY <2>1 DEF Check, Basics, Typed, Rotating
  <2>2. CASE pc' \notin Rotating /\ (file' = file \/ file' = FALSE)
    BY <2>2 DEF Basics, Typed
  <2> QED BY <2>1, <2>2 DEF Send, OpenFail, WriteFail, WriteNil, Close, Crash, Rotating
<1>3. /\ size' \in Nat
      /\ pc' \in {"ready", "check", "remove", "write", "down"}
      /\ part' \in Kinds /\ len' \in Nat \ {0}
      /\ crashes' \in 0..MaxCrashes /\ faults' \in 0..MaxFaults
  BY RotateAssumption DEF Send, Check, OpenFail, WriteFail, WriteNil, Close, Crash, Fault, Basics,
     Typed, Kinds, callVars
<1>4. Typed'
  BY <1>1, <1>2, <1>3 DEF Basics, Typed
<1>5. Pending'
  BY <1>1, RotateAssumption DEF Send, Check, OpenFail, WriteFail, WriteNil, Close, Crash, Basics, Typed,
     Pending, Rotating, callVars
<1>6. written' + crashes' + faults' + Fee' >= written + crashes + faults + Fee
  BY <1>1 DEF Send, Check, OpenFail, WriteFail, WriteNil, Close, Crash, Fault, Basics, Typed, Fee,
     ClosedInside, Rotating
<1>7. Room'
  <2>1. \A g \in Files : Exists(g)' <=> Exists(g)
    BY <1>1 DEF Exists
  <2>2. Fee \in Nat /\ Fee' \in Nat
    BY DEF Fee
  <2>3. /\ written \in Nat /\ crashes \in Nat /\ faults \in Nat
        /\ written' \in Nat /\ crashes' \in Nat /\ faults' \in Nat
    BY <1>1, <1>3 DEF Basics, Typed
  <2>4. \A g \in Files : Exists(g) => g <= written + crashes + faults + Fee
    BY DEF Basics, Room
  <2>5. \A g \in Files : Exists(g)' => g <= written' + crashes' + faults' + Fee'
    <3> SUFFICES ASSUME NEW g \in Files, Exists(g)'
                 PROVE  g <= written' + crashes' + faults' + Fee'
      OBVIOUS
    <3>1. g \in Nat /\ g <= written + crashes + faults + Fee
      BY <2>1, <2>4 DEF Files
    <3>2. /\ written + crashes + faults + Fee \in Int
          /\ written' + crashes' + faults' + Fee' \in Int
      BY <2>2, <2>3
    <3> QED BY <1>6, <3>1, <3>2
  <2> QED BY <1>3, <2>5 DEF Room
<1> QED BY <1>2, <1>3, <1>4, <1>5, <1>7 DEF Basics, ClosedInside, PruneBeyond

\* The steps of a rotation up to the fresh file.
LEMMA BasicsRemove ==
    ASSUME TypeOK, Basics, UNCHANGED maxBackups, RemoveOldest \/ RemoveFail
    PROVE  Basics'
<1>1. maxBackups \in Nat /\ maxBackups < MaxFiles /\ maxBackups \in Files
  BY RotateAssumption DEF Basics, Typed, Files
<1>2. i' \in Files
  BY <1>1, MaxBackupStops DEF RemoveOldest, RemoveFail
<1>3. /\ disk' \in [Files -> Content \cup {Absent}]
      /\ \A g \in Files : Exists(g)' => Exists(g)
  <2>1. CASE disk' = Remove(maxBackups)
    BY <1>1, <2>1, RemoveEffect DEF Basics, Typed
  <2>2. CASE disk' = disk
    BY <2>2 DEF Basics, Typed, Exists
  <2> QED BY <2>1, <2>2 DEF RemoveOldest, RemoveFail
<1>4. UNCHANGED <<maxBackups, file, size, part, len, written, crashes, misses>>
      /\ pc = "remove" /\ pc' = "shift" /\ faults' \in 0..MaxFaults /\ faults' >= faults
  BY RotateAssumption DEF RemoveOldest, RemoveFail, Fault, callVars, Basics, Typed
<1>5. Typed'
  BY <1>2, <1>3, <1>4 DEF Basics, Typed
<1>6. Room'
  <2>1. Fee = 0 /\ Fee' = 1
    BY <1>4 DEF Fee
  <2> SUFFICES ASSUME NEW g \in Files, Exists(g)'
               PROVE  g <= written + crashes + faults'
    <3>1. written + crashes + faults' \in Nat
      <4>1. written + crashes \in Nat /\ faults' \in Nat /\ faults \in Nat /\ faults <= faults'
        BY <1>4, RotateAssumption DEF Basics, Typed
      <4> QED BY <4>1, MoreRoom
    <3>2. \A g \in Files : g \in Nat
      BY RotateAssumption DEF Files
    <3> QED BY <1>4, <2>1, <3>1, <3>2 DEF Room
  <2>2. g <= written + crashes + faults
    BY <1>3, <2>1 DEF Basics, Room, Typed
  <2>3. written \in Nat /\ crashes \in Nat /\ faults \in Nat /\ faults' \in Nat
    BY <1>4 DEF Basics, Typed
  <2>4. faults <= faults' /\ faults \in Nat /\ g \in Nat /\ written + crashes \in Nat
    BY <1>4, RotateAssumption DEF Basics, Typed, Files
  <2> QED BY <2>2, <2>3, <2>4, MoreRoom
<1> QED BY <1>4, <1>5, <1>6 DEF Basics, ClosedInside, PruneBeyond, Pending, Rotating

\* A rename keeps Basics: the types, and what does not depend on where a file is.
LEMMA BasicsRename ==
    ASSUME TypeOK, Basics, UNCHANGED maxBackups, Shift \/ RenameActive
    PROVE  Basics'
<1>0. i \in Files /\ MaxFiles \in Nat /\ ~Exists(MaxFiles)
  BY RotateAssumption DEF TypeOK
<1>1. TryRename(i, i + 1)
  BY DEF Shift, RenameActive
<1>2. /\ disk' \in [Files -> Content \cup {Absent}]
      /\ \A g \in Files : Exists(g)' => Exists(g) \/ (g = i + 1 /\ Exists(i))
  <2>1. CASE disk' = disk
    BY <2>1 DEF Basics, Typed, Exists
  <2>2. CASE disk' # disk
    <3>1. Exists(i) /\ disk' = Rename(i, i + 1)
      BY <1>1, <2>2 DEF TryRename
    <3>2. i + 1 \in Files
      BY <1>0, <3>1 DEF Files
    <3> QED BY <1>0, <3>1, <3>2, RenameEffect DEF Basics, Typed
  <2> QED BY <2>1, <2>2
<1>3. misses' \in 0..MaxMisses
  BY <1>1, RotateAssumption DEF TryRename, Basics, Typed
<1>4. UNCHANGED <<maxBackups, file, size, part, len, written, crashes, faults>>
      /\ pc = "shift" /\ pc' \in {"shift", "prune", "open"}
  BY DEF Shift, RenameActive, callVars
<1>5. maxBackups \in Nat /\ maxBackups < MaxFiles
  BY RotateAssumption DEF Basics, Typed, Files
<1>6. i' \in Files /\ PruneBeyond'
  BY <1>0, <1>4, <1>5 DEF Shift, RenameActive, PruneBeyond, Files
<1>7. Typed'
  BY <1>2, <1>3, <1>4, <1>6 DEF Basics, Typed
<1>8. Room'
  <2>1. Fee = 1 /\ Fee' = 1
    BY <1>4 DEF Fee
  <2>2. written \in Nat /\ crashes \in Nat /\ faults \in Nat
    BY DEF Basics, Typed
  <2>3. pc' = "shift" => i' = i - 1
    BY DEF Shift, RenameActive
  <2> SUFFICES ASSUME NEW g \in Files, Exists(g)'
               PROVE  /\ g <= written + crashes + faults + 1
                      /\ pc' = "shift" /\ g <= i' => g <= written + crashes + faults
    BY <1>4, <2>1 DEF Room
  <2>4. CASE Exists(g)
    BY <1>0, <1>4, <2>1, <2>2, <2>3, <2>4 DEF Basics, Room, Files
  <2>5. CASE g = i + 1 /\ Exists(i)
    BY <1>0, <1>4, <2>1, <2>2, <2>3, <2>5 DEF Basics, Room, Files
  <2> QED BY <1>2, <2>4, <2>5
<1> QED BY <1>4, <1>6, <1>7, <1>8 DEF Basics, ClosedInside, Pending, Rotating

\* A step of the pruning loop keeps Basics.
LEMMA BasicsPrune ==
    ASSUME TypeOK, Basics, UNCHANGED maxBackups, Prune \/ PruneFail
    PROVE  Basics'
<1>0. i \in Files /\ MaxFiles \in Nat /\ ~Exists(MaxFiles)
  BY RotateAssumption DEF TypeOK
<1>1. /\ disk' \in [Files -> Content \cup {Absent}]
      /\ \A g \in Files : Exists(g)' => Exists(g)
  <2>1. CASE disk' = Remove(i)
    BY <1>0, <2>1, RemoveEffect DEF Basics, Typed
  <2>2. CASE disk' = disk
    BY <2>2 DEF Basics, Typed, Exists
  <2> QED BY <2>1, <2>2 DEF Prune, PruneFail
<1>2. UNCHANGED <<maxBackups, file, size, part, len, written, crashes, misses>>
      /\ pc = "prune" /\ pc' \in {"prune", "open"} /\ faults' \in 0..MaxFaults /\ faults' >= faults
  BY RotateAssumption DEF Prune, PruneFail, Fault, callVars, Basics, Typed
<1>3. i' \in Files /\ i' >= i
  BY <1>0 DEF Prune, PruneFail, Files
<1>4. Typed'
  BY <1>1, <1>2, <1>3 DEF Basics, Typed
<1>5. maxBackups \in Nat
  BY RotateAssumption DEF Basics, Typed
<1>6. PruneBeyond'
  BY <1>0, <1>2, <1>3, <1>5 DEF Basics, PruneBeyond, Files
<1>7. Room'
  <2>1. Fee = 1 /\ Fee' = 1
    BY <1>2 DEF Fee
  <2> SUFFICES ASSUME NEW g \in Files, Exists(g)'
               PROVE  g <= written + crashes + faults' + 1
    BY <1>2, <2>1 DEF Room
  <2>2. g <= written + crashes + faults + 1
    BY <1>1, <2>1 DEF Basics, Room
  <2>3. written \in Nat /\ crashes \in Nat /\ faults \in Nat /\ faults' \in Nat
    BY <1>2 DEF Basics, Typed
  <2>4. faults <= faults' /\ faults \in Nat /\ g \in Nat /\ written + crashes \in Nat
    BY <1>2, RotateAssumption DEF Basics, Typed, Files
  <2> QED BY <2>2, <2>3, <2>4, MoreRoom
<1> QED BY <1>2, <1>4, <1>6, <1>7 DEF Basics, ClosedInside, Pending, Rotating

\* A file is opened, by a rotation or by a new process.
LEMMA BasicsOpen ==
    ASSUME TypeOK, Basics, UNCHANGED maxBackups, Open \/ Restart
    PROVE  Basics' /\ SizeIsCurrent'
<1>0. 0 \in Files
  BY RotateAssumption DEF Files
<1>1. /\ disk' \in [Files -> Content \cup {Absent}]
      /\ \A g \in Files : Exists(g)' <=> g = 0 \/ Exists(g)
  BY OpenEffect DEF Open, Restart, Basics, Typed
<1>2. Exists(0)' /\ size' = disk'[0].bytes
  BY <1>0, <1>1 DEF Open, Restart
<1>3. size' \in Nat
  BY <1>0, <1>1, <1>2 DEF Exists, Content
<1>4. UNCHANGED <<maxBackups, part, len, i, written, crashes, misses, faults>>
  BY DEF Open, Restart, callVars
<1>5. file' \in BOOLEAN /\ file'
  BY DEF Open, Restart
<1>6. (pc = "open" /\ pc' = "write") \/ (pc = "down" /\ pc' = "ready")
  BY DEF Open, Restart
<1>7. Typed'
  BY <1>1, <1>3, <1>4, <1>5, <1>6 DEF Basics, Typed
<1>8. Fee' = Fee
  BY <1>5, <1>6 DEF Fee
<1>9. Fee \in Nat /\ written \in Nat /\ crashes \in Nat /\ faults \in Nat
  BY DEF Fee, Basics, Typed
<1>10. Room'
  <2> SUFFICES ASSUME NEW g \in Files, Exists(g)'
               PROVE  g <= written + crashes + faults + Fee
    BY <1>4, <1>6, <1>8 DEF Room
  <2> QED BY <1>1, <1>9 DEF Basics, Room
<1> QED BY <1>2, <1>4, <1>6, <1>7, <1>10 DEF Basics, ClosedInside, PruneBeyond, Pending, Rotating, SizeIsCurrent

\* The file is opened, or created, and closed again.
LEMMA BasicsStat ==
    ASSUME TypeOK, Basics, UNCHANGED maxBackups, StatFail
    PROVE  Basics' /\ SizeIsCurrent'
<1>1. /\ disk' \in [Files -> Content \cup {Absent}]
      /\ \A g \in Files : Exists(g)' <=> g = 0 \/ Exists(g)
  BY OpenEffect DEF StatFail, Basics, Typed
<1>2. /\ UNCHANGED <<maxBackups, file, part, len, i, written, crashes, misses>>
      /\ pc = "open" /\ pc' = "write" /\ size' = 0
      /\ faults' = faults + 1 /\ faults' \in 0..MaxFaults /\ ~file
  BY RotateAssumption DEF StatFail, Fault, callVars, Basics, Typed, ClosedInside, Rotating
<1>3. Typed'
  BY <1>1, <1>2 DEF Basics, Typed
<1>4. Room'
  <2>1. Fee = 1 /\ Fee' = 0
    BY <1>2 DEF Fee
  <2>2. written \in Nat /\ crashes \in Nat /\ faults \in Nat
    BY DEF Basics, Typed
  <2> SUFFICES ASSUME NEW g \in Files, Exists(g)'
               PROVE  g <= written + crashes + faults + 1
    BY <1>2, <2>1, <2>2 DEF Room, Files
  <2>3. g = 0 \/ g <= written + crashes + faults + Fee
    BY <1>1 DEF Basics, Room
  <2> QED BY <2>1, <2>2, <2>3
<1> QED BY <1>2, <1>3, <1>4 DEF Basics, ClosedInside, PruneBeyond, Pending, Rotating, SizeIsCurrent

\* Appending a chunk keeps Basics, and counts the chunk's bytes.
LEMMA BasicsAppend ==
    ASSUME TypeOK, Basics, SizeIsCurrent, UNCHANGED maxBackups, Append1 \/ AppendShort
    PROVE  Basics' /\ SizeIsCurrent'
<1>0. 0 \in Files /\ Exists(0) /\ size = disk[0].bytes
  BY RotateAssumption DEF Files, Append1, AppendShort, Appended, SizeIsCurrent
<1>1. /\ disk' \in [Files -> Content \cup {Absent}]
      /\ \E k \in 1..len : disk'[0].bytes = disk[0].bytes + k /\ size' = size + k
      /\ \A g \in Files : Exists(g)' <=> Exists(g)
  BY AppendEffect
<1>2. file /\ file' /\ file' \in BOOLEAN
  BY DEF Append1, AppendShort, Appended, Basics, Typed
<1>3. UNCHANGED <<maxBackups, i, crashes, misses>>
      /\ written' = written + 1 /\ pc = "write"
      /\ faults \in Nat /\ faults' \in 0..MaxFaults /\ faults' >= faults
  BY RotateAssumption DEF Append1, AppendShort, Appended, Fault, Basics, Typed
<1>4. pc' \in {"check", "ready"} /\ part' \in Kinds /\ len' \in Nat \ {0} /\ len \in Nat
  BY DEF Append1, AppendShort, Basics, Typed, Kinds, callVars
<1>5. /\ written \in Nat /\ written <= MaxWrites /\ MaxWrites \in Nat
      /\ pc' = "check" => written < MaxWrites /\ part' = "nl"
  BY RotateAssumption DEF Append1, AppendShort, Appended, Basics, Typed, Pending, Rotating, Kinds, callVars
<1>6. Typed'
  <2>1. written' \in 0..MaxWrites + 1 /\ size' \in Nat
    BY <1>1, <1>3, <1>4, <1>5 DEF Basics, Typed
  <2> QED BY <1>1, <1>2, <1>3, <1>4, <2>1 DEF Basics, Typed
<1>7. Pending'
  BY <1>3, <1>4, <1>5 DEF Pending, Rotating
<1>8. Room'
  <2>1. Fee = 1 /\ Fee' = 0
    BY <1>2, <1>3, <1>4 DEF Fee
  <2> SUFFICES ASSUME NEW g \in Files, Exists(g)'
               PROVE  g <= written + crashes + faults' + 1
    BY <1>3, <1>4, <1>5, <2>1 DEF Basics, Typed, Room
  <2>2. g <= written + crashes + faults + 1
    BY <1>1, <2>1 DEF Basics, Room
  <2>3. written \in Nat /\ crashes \in Nat /\ faults' \in Nat
    BY <1>3 DEF Basics, Typed
  <2>4. faults <= faults' /\ faults \in Nat /\ g \in Nat /\ written + crashes \in Nat
    BY <1>3, RotateAssumption DEF Basics, Typed, Files
  <2> QED BY <2>2, <2>3, <2>4, MoreRoom
<1>9. SizeIsCurrent'
  BY <1>0, <1>1, <1>3 DEF SizeIsCurrent
<1> QED BY <1>4, <1>6, <1>7, <1>8, <1>9 DEF Basics, ClosedInside, PruneBeyond, Rotating
\* The other steps leave the size alone, or have no file open.
LEMMA SizeKept ==
    ASSUME TypeOK, ClosedInside, SizeIsCurrent,
           \/ (\E l \in Lengths : Send(l)) \/ Check \/ OpenFail \/ WriteFail \/ WriteNil \/ Close \/ Crash
           \/ RemoveOldest \/ RemoveFail \/ Shift \/ RenameActive \/ Prune \/ PruneFail
    PROVE  SizeIsCurrent'
<1>1. CASE pc \in Rotating
  <2>1. ~file
    BY <1>1 DEF ClosedInside
  <2>2. file' = file \/ file' = FALSE
    BY <1>1 DEF Rotating, Send, Check, OpenFail, WriteFail, WriteNil, Close, Crash, RemoveOldest,
       RemoveFail, Shift, RenameActive, Prune, PruneFail
  <2> QED BY <2>1, <2>2 DEF SizeIsCurrent
<1>2. CASE pc \notin Rotating
  <2>1. disk' = disk /\ size' = size
    BY <1>2 DEF Rotating, Send, Check, OpenFail, WriteFail, WriteNil, Close, Crash, RemoveOldest,
       RemoveFail, Shift, RenameActive, Prune, PruneFail
  <2>2. file' = file \/ file' = FALSE
    BY <1>2 DEF Rotating, Send, Check, OpenFail, WriteFail, WriteNil, Close, Crash, RemoveOldest,
       RemoveFail, Shift, RenameActive, Prune, PruneFail
  <2> QED BY <2>1, <2>2 DEF SizeIsCurrent, Exists
<1> QED BY <1>1, <1>2
-----------------------------------------------------------------------------
(* The order of what is on disk. *)

\* Files that stay, go or start empty do not disturb the order.
LEMMA OrderShrinks ==
    ASSUME FilesInOrder, Known, written' = written,
           \A g \in Files : \/ disk'[g] = disk[g] /\ Numbers(g)' = Numbers(g)
                            \/ ~Exists(g)' /\ Numbers(g)' = {}
                            \/ disk'[g] = Empty /\ Numbers(g)' = {}
    PROVE  FilesInOrder' /\ Known'
<1>1. \A g \in Files : Numbers(g)' \subseteq Numbers(g)
  OBVIOUS
<1>2. Known'
  BY <1>1 DEF Known
<1>3. \A f, g \in Files : f > g => \A a \in Numbers(f)', b \in Numbers(g)' : a < b
  BY <1>1 DEF FilesInOrder
<1>4. ASSUME NEW f \in Files, Exists(f)'
      PROVE  \A k, m \in DOMAIN disk'[f].chunks :
                k < m => disk'[f].chunks[k].n < disk'[f].chunks[m].n
  <2>1. CASE disk'[f] = disk[f]
    <3>1. Exists(f)
      BY <1>4, <2>1 DEF Exists
    <3> QED BY <2>1, <3>1 DEF FilesInOrder
  <2>2. CASE disk'[f] = Empty
    <3>1. DOMAIN Empty.chunks = {}
      BY DEF Empty
    <3> QED BY <2>2, <3>1
  <2> QED BY <1>4, <2>1, <2>2
<1> QED BY <1>2, <1>3, <1>4 DEF FilesInOrder

\* A file that moves up by one keeps its place, whatever it overwrites.
LEMMA OrderShifts ==
    ASSUME disk \in [Files -> Content \cup {Absent}],
           FilesInOrder, Known, written' = written,
           NEW f \in Files, f + 1 \in Files, Exists(f), disk' = Rename(f, f + 1)
    PROVE  FilesInOrder' /\ Known'
<1>1. /\ \A g \in Files : disk'[g] = IF g = f + 1 THEN disk[f]
                                     ELSE IF g = f THEN Absent ELSE disk[g]
      /\ \A g \in Files : Exists(g)' <=> g = f + 1 \/ (g # f /\ Exists(g))
      /\ \A g \in Files : Numbers(g)' = IF g = f + 1 THEN Numbers(f)
                                        ELSE IF g = f THEN {} ELSE Numbers(g)
  BY RenameEffect
<1>2. Known'
  BY <1>1 DEF Known
<1>3. ASSUME NEW h \in Files, NEW g \in Files, h > g,
             NEW a \in Numbers(h)', NEW b \in Numbers(g)'
      PROVE  a < b
  <2> DEFINE Old(x) == IF x = f + 1 THEN f ELSE x
  <2>1. h # f /\ g # f
    BY <1>1, <1>3 DEF Files
  <2>2. a \in Numbers(Old(h)) /\ b \in Numbers(Old(g)) /\ Old(h) \in Files /\ Old(g) \in Files
    BY <1>1, <1>3, <2>1
  <2>3. Old(h) > Old(g)
    BY <1>3, <2>1 DEF Files
  <2> QED BY <2>2, <2>3 DEF FilesInOrder
<1>4. ASSUME NEW g \in Files, Exists(g)'
      PROVE  \A k, m \in DOMAIN disk'[g].chunks :
                k < m => disk'[g].chunks[k].n < disk'[g].chunks[m].n
  <2>1. CASE g = f + 1
    BY <1>1, <2>1 DEF FilesInOrder
  <2>2. CASE g # f + 1
    <3>1. Exists(g) /\ disk'[g] = disk[g]
      BY <1>1, <1>4, <2>2
    <3> QED BY <3>1 DEF FilesInOrder
  <2> QED BY <2>1, <2>2
<1> QED BY <1>2, <1>3, <1>4 DEF FilesInOrder

\* What is appended is younger than everything on disk.
LEMMA OrderGrows ==
    ASSUME TypeOK, SizeIsCurrent, FilesInOrder, Known, Append1 \/ AppendShort
    PROVE  FilesInOrder' /\ Known'
<1> DEFINE s == disk[0].chunks
           c == [n |-> written + 1, kind |-> part]
<1>0. 0 \in Files /\ written \in Nat /\ written' = written + 1 /\ Exists(0)
  BY RotateAssumption DEF Files, TypeOK, Append1, AppendShort, Appended, SizeIsCurrent
<1>1. /\ disk[0] \in Content
      /\ disk'[0].chunks = Append(s, c)
      /\ \A g \in Files : g # 0 => disk'[g] = disk[g]
      /\ \A g \in Files : Exists(g)' <=> Exists(g)
      /\ Numbers(0)' = Numbers(0) \cup {written + 1}
      /\ \A g \in Files : g # 0 => Numbers(g)' = Numbers(g)
  BY AppendEffect
<1>2. Known'
  <2> SUFFICES ASSUME NEW g \in Files, NEW a \in Numbers(g)' PROVE a \in 1..(written + 1)
    BY <1>0 DEF Known
  <2>1. a \in Numbers(g) \/ a = written + 1
    BY <1>1
  <2>2. a \in Numbers(g) => a \in 1..written
    BY DEF Known
  <2> QED BY <1>0, <2>1, <2>2
<1>3. ASSUME NEW h \in Files, NEW g \in Files, h > g,
             NEW a \in Numbers(h)', NEW b \in Numbers(g)'
      PROVE  a < b
  <2>1. h # 0
    BY <1>3 DEF Files
  <2>2. a \in Numbers(h) /\ a \in 1..written
    BY <1>1, <1>3, <2>1 DEF Known
  <2>3. b \in Numbers(g) \/ b = written + 1
    BY <1>1, <1>3
  <2>4. CASE b \in Numbers(g)
    BY <1>3, <2>2, <2>4 DEF FilesInOrder
  <2>5. CASE b = written + 1
    BY <1>0, <2>2, <2>5
  <2> QED BY <2>3, <2>4, <2>5
<1>4. ASSUME NEW g \in Files, Exists(g)',
             NEW k \in DOMAIN disk'[g].chunks, NEW m \in DOMAIN disk'[g].chunks, k < m
      PROVE  disk'[g].chunks[k].n < disk'[g].chunks[m].n
  <2>1. CASE g # 0
    <3>1. Exists(g) /\ disk'[g] = disk[g]
      BY <1>1, <1>4, <2>1
    <3> QED BY <1>4, <3>1 DEF FilesInOrder
  <2>2. CASE g = 0
    <3>1. s \in Seq(Chunk) /\ c \in Chunk
      BY <1>1 DEF Content, Chunk, TypeOK
    <3>2. /\ DOMAIN s = 1..Len(s) /\ Len(s) \in Nat
          /\ DOMAIN Append(s, c) = 1..(Len(s) + 1)
          /\ Append(s, c)[Len(s) + 1] = c
          /\ \A x \in 1..Len(s) : Append(s, c)[x] = s[x]
      BY <3>1
    <3>3. k \in 1..(Len(s) + 1) /\ m \in 1..(Len(s) + 1)
      BY <1>1, <1>4, <2>2, <3>2
    <3>4. k \in DOMAIN s /\ disk'[g].chunks[k] = s[k]
      BY <1>1, <1>4, <2>2, <3>2, <3>3
    <3>5. s[k].n \in 1..written
      <4>1. s[k].n \in Numbers(0)
        BY <1>0, <3>4 DEF Numbers
      <4> QED BY <1>0, <4>1 DEF Known
    <3>6. CASE m = Len(s) + 1
      BY <1>0, <1>1, <2>2, <3>2, <3>4, <3>5, <3>6
    <3>7. CASE m # Len(s) + 1
      <4>1. m \in DOMAIN s /\ disk'[g].chunks[m] = s[m]
        BY <1>1, <2>2, <3>2, <3>3, <3>7
      <4> QED BY <1>0, <1>4, <3>4, <4>1 DEF FilesInOrder
    <3> QED BY <3>6, <3>7
  <2> QED BY <2>1, <2>2
<1> QED BY <1>2, <1>3, <1>4 DEF FilesInOrder

\* Every step keeps the order.
LEMMA OrderKept ==
    ASSUME TypeOK, SizeIsCurrent, FilesInOrder, Known, Next
    PROVE  FilesInOrder' /\ Known'
<1>0. i \in Files /\ MaxFiles \in Nat /\ ~Exists(MaxFiles) /\ maxBackups \in Files
  BY RotateAssumption DEF TypeOK, Files
<1>1. CASE disk' = disk /\ written' = written
  <2>1. \A g \in Files : disk'[g] = disk[g] /\ Numbers(g)' = Numbers(g)
    BY <1>1 DEF Numbers, Exists
  <2> QED BY <1>1, <2>1, OrderShrinks
<1>2. ASSUME written' = written, NEW f \in Files, disk' = Remove(f)
      PROVE  FilesInOrder' /\ Known'
  <2>1. \A g \in Files : \/ disk'[g] = disk[g] /\ Numbers(g)' = Numbers(g)
                         \/ ~Exists(g)' /\ Numbers(g)' = {}
    BY <1>2, RemoveEffect DEF TypeOK
  <2> QED BY <1>2, <2>1, OrderShrinks
<1>3. CASE disk' = Opened /\ written' = written
  <2>1. \A g \in Files : /\ disk'[g] = disk[g] \/ disk'[g] = Empty
                         /\ Numbers(g)' = Numbers(g)
    BY <1>3, OpenEffect DEF TypeOK
  <2>2. \A g \in Files : disk'[g] = Empty => Numbers(g)' = {}
    BY DEF Numbers, Empty
  <2> QED BY <1>3, <2>1, <2>2, OrderShrinks
<1>4. CASE Shift \/ RenameActive
  <2>1. TryRename(i, i + 1) /\ written' = written
    BY <1>4 DEF Shift, RenameActive
  <2>2. CASE disk' # disk
    <3>1. Exists(i) /\ disk' = Rename(i, i + 1)
      BY <2>1, <2>2 DEF TryRename
    <3>2. i + 1 \in Files
      BY <1>0, <3>1 DEF Files
    <3> QED BY <1>0, <2>1, <3>1, <3>2, OrderShifts DEF TypeOK
  <2> QED BY <1>1, <2>1, <2>2
<1>5. CASE (\E l \in Lengths : Send(l)) \/ Check \/ OpenFail \/ WriteFail \/ WriteNil \/ Close \/ Crash
  BY <1>1, <1>5 DEF Send, Check, OpenFail, WriteFail, WriteNil, Close, Crash
<1>6. CASE RemoveOldest \/ RemoveFail
  BY <1>0, <1>1, <1>2, <1>6 DEF RemoveOldest, RemoveFail
<1>7. CASE Prune \/ PruneFail
  BY <1>0, <1>1, <1>2, <1>7 DEF Prune, PruneFail
<1>8. CASE Open \/ StatFail \/ Restart
  BY <1>3, <1>8 DEF Open, StatFail, Restart
<1>9. CASE Append1 \/ AppendShort
  BY <1>9, OrderGrows
<1> QED BY <1>4, <1>5, <1>6, <1>7, <1>8, <1>9 DEF Next
-----------------------------------------------------------------------------
(* What a rotation keeps. *)

\* The numbers in the files that a rotation is to keep.
Kept == UNION {Numbers(f) : f \in 0..maxBackups}

\* Membership in the chunks kept and in the chunks on disk, in both states.
LEMMA Members ==
    /\ \A n : n \in Kept <=> \E f \in 0..maxBackups : n \in Numbers(f)
    /\ \A n : n \in Kept' <=> \E f \in 0..maxBackups' : n \in Numbers(f)'
    /\ \A n : n \in OnDisk <=> \E f \in Files : n \in Numbers(f)
    /\ \A n : n \in OnDisk' <=> \E f \in Files : n \in Numbers(f)'
<1>1. /\ \A n : n \in Kept <=> \E f \in 0..maxBackups : n \in Numbers(f)
      /\ \A n : n \in Kept' <=> \E f \in 0..maxBackups' : n \in Numbers(f)'
  BY DEF Kept
<1>2. /\ \A n : n \in OnDisk <=> \E f \in Files : n \in Numbers(f)
      /\ \A n : n \in OnDisk' <=> \E f \in Files : n \in Numbers(f)'
  BY DEF OnDisk
<1> QED BY <1>1, <1>2

\* maxBackups is one of the files, and a failure is never forgotten.
LEMMA Limits ==
    ASSUME TypeOK, Next
    PROVE  /\ maxBackups \in Nat /\ maxBackups < MaxFiles /\ 0..maxBackups \subseteq Files
           /\ maxBackups' = maxBackups
           /\ misses \in Nat /\ (misses' = 0 => misses = 0)
           /\ faults \in Nat /\ (faults' = 0 => faults = 0)
           /\ i \in Files /\ MaxFiles \in Nat /\ ~Exists(MaxFiles)
<1>1. /\ maxBackups \in Nat /\ maxBackups < MaxFiles /\ MaxFiles \in Nat
      /\ 0..maxBackups \subseteq Files
  BY RotateAssumption DEF TypeOK, Files
<1>2. maxBackups' = maxBackups
  BY DEF Next
<1>3. misses \in Nat /\ faults \in Nat /\ i \in Files /\ ~Exists(MaxFiles)
  BY DEF TypeOK
<1>4. misses' = misses \/ misses' = misses + 1
  BY DEF Next, Send, Check, RemoveOldest, RemoveFail, Shift, RenameActive, Prune, PruneFail, Open,
     OpenFail, StatFail, Append1, AppendShort, Appended, WriteFail, WriteNil, Close, Crash, Restart,
     TryRename
<1>5. faults' = faults \/ faults' = faults + 1
  BY DEF Next, Send, Check, RemoveOldest, RemoveFail, Shift, RenameActive, Prune, PruneFail, Open,
     OpenFail, StatFail, Append1, AppendShort, WriteFail, WriteNil, Close, Crash, Restart, Fault
<1> QED BY <1>1, <1>2, <1>3, <1>4, <1>5

\* A rename of the shift, as long as none has failed, moves a file to a free
\* place, or there is nothing to move, or the oldest backup, whose removal
\* failed, leaves the files that are kept.
LEMMA ShiftMoves ==
    ASSUME TypeOK, Next, Clear, Shift \/ RenameActive, misses' = 0
    PROVE  \/ disk' = disk /\ ~Exists(i)
           \/ /\ Exists(i) /\ ~Exists(i + 1) /\ i + 1 \in Files
              /\ disk' = Rename(i, i + 1)
              /\ maxBackups > 0 => i < maxBackups
           \/ /\ Exists(i) /\ i + 1 \in Files /\ disk' = Rename(i, i + 1)
              /\ maxBackups > 0 /\ i = maxBackups /\ faults # 0
<1>1. misses = 0 /\ i \in Files /\ MaxFiles \in Nat /\ ~Exists(MaxFiles) /\ maxBackups \in Nat
  BY Limits
<1>2. TryRename(i, i + 1) /\ pc = "shift"
  BY DEF Shift, RenameActive
<1>3. disk' = IF Exists(i) THEN Rename(i, i + 1) ELSE disk
  BY <1>1, <1>2 DEF TryRename
<1>4. Exists(i) => i + 1 \in Files
  BY <1>1 DEF Files
<1>5. Exists(i) => \/ ~Exists(i + 1) /\ (maxBackups > 0 => i < maxBackups)
                   \/ maxBackups > 0 /\ i = maxBackups /\ faults # 0
  BY <1>1, <1>2 DEF Clear, Files
<1> QED BY <1>3, <1>4, <1>5

\* The shift meets no existing target.
LEMMA ClearKept ==
    ASSUME TypeOK, Next, Clear
    PROVE  Clear'
<1> SUFFICES ASSUME pc' = "shift", misses' = 0 PROVE Clear'
  BY DEF Clear
<1>0. /\ misses = 0 /\ i \in Files /\ MaxFiles \in Nat /\ maxBackups \in Nat
      /\ maxBackups' = maxBackups /\ maxBackups \in Files /\ faults \in Nat
  BY Limits DEF Files
<1>1. RemoveOldest \/ RemoveFail \/ Shift
  BY DEF Next, Send, Check, RenameActive, Prune, PruneFail, Open, OpenFail, StatFail, Append1,
     AppendShort, WriteFail, WriteNil, Close, Crash, Restart
<1>2. CASE RemoveOldest
  <2>1. CASE maxBackups > 0
    <3>1. i' = maxBackups /\ disk' = Remove(maxBackups)
      BY <1>2, <2>1 DEF RemoveOldest
    <3>2. ~Exists(maxBackups)'
      BY <1>0, <3>1, RemoveEffect DEF TypeOK
    <3> QED BY <1>0, <2>1, <3>1, <3>2 DEF Clear, Exists
  <2>2. CASE ~(maxBackups > 0)
    <3>1. i' = MaxBackup /\ disk' = disk
      BY <1>2, <2>2 DEF RemoveOldest
    <3>2. ~Exists(MaxBackup + 1)
      BY MaxBackupStops
    <3> QED BY <1>0, <2>2, <3>1, <3>2 DEF Clear, Exists
  <2> QED BY <2>1, <2>2
<1>3. CASE Shift
  <2>1. i' = i - 1 /\ i' + 1 = i /\ i >= 1 /\ pc = "shift"
    BY <1>0, <1>3 DEF Shift, Files
  <2>2. maxBackups > 0 => i' < maxBackups
    BY <1>0, <2>1 DEF Clear, Files
  <2>3. disk'[i] = Absent
    <3>1. CASE disk' = disk /\ ~Exists(i)
      BY <3>1 DEF Exists
    <3>2. CASE Exists(i) /\ i + 1 \in Files /\ disk' = Rename(i, i + 1)
      <4>1. i # i + 1
        BY <1>0 DEF Files
      <4> QED BY <1>0, <3>2, <4>1, RenameEffect DEF TypeOK
    <3> QED BY <1>3, <3>1, <3>2, ShiftMoves
  <2>4. ~(i' = maxBackups /\ maxBackups > 0)
    BY <1>0, <2>1, <2>2 DEF Files
  <2>5. i' <= maxBackups \/ ~(maxBackups > 0)
    BY <1>0, <2>1, <2>2 DEF Files
  <2>6. disk'[i' + 1] = Absent
    BY <2>1, <2>3
  <2> QED BY <1>0, <2>4, <2>5, <2>6 DEF Clear, Exists
<1>4. CASE RemoveFail
  <2>1. i' = maxBackups /\ maxBackups > 0 /\ faults' # 0
    BY <1>0, <1>4 DEF RemoveFail, Fault
  <2> QED BY <1>0, <2>1 DEF Clear
<1> QED BY <1>1, <1>2, <1>3, <1>4

\* Steps that change neither a file's numbers nor what has been written.
Still == written' = written /\ \A g \in Files : Numbers(g)' = Numbers(g)

\* The steps that write no file, or open one, leave all numbers alone.
LEMMA StillSteps ==
    ASSUME TypeOK, Next,
           \/ (\E l \in Lengths : Send(l)) \/ Check \/ OpenFail \/ WriteFail \/ WriteNil \/ Close \/ Crash
           \/ Open \/ StatFail \/ Restart \/ RemoveFail \/ PruneFail
    PROVE  Still
<1>1. written' = written
  BY DEF Send, Check, OpenFail, WriteFail, WriteNil, Close, Crash, Open, StatFail, Restart,
     RemoveFail, PruneFail
<1>2. CASE disk' = disk
  BY <1>1, <1>2 DEF Still, Numbers, Exists
<1>3. CASE disk' = Opened
  BY <1>1, <1>3, OpenEffect DEF Still, TypeOK
<1> QED BY <1>2, <1>3 DEF Send, Check, OpenFail, WriteFail, WriteNil, Close, Crash, Open, StatFail,
           Restart, RemoveFail, PruneFail

\* Without a limit on the backups nothing that was written is lost.
LEMMA AllKept ==
    ASSUME TypeOK, Next, SizeIsCurrent, Clear, PruneBeyond, KeepsAll
    PROVE  KeepsAll'
<1> SUFFICES ASSUME maxBackups' = 0, misses' = 0 PROVE OnDisk' = 1..written'
  BY DEF KeepsAll
<1>0. maxBackups = 0 /\ misses = 0 /\ i \in Files
  BY Limits
<1>1. OnDisk = 1..written
  BY <1>0 DEF KeepsAll
<1>2. ASSUME Still PROVE OnDisk' = 1..written'
  <2>1. \A n : n \in OnDisk' <=> n \in OnDisk
    BY <1>2, Members DEF Still
  <2>2. OnDisk' = OnDisk
    BY <2>1
  <2> QED BY <1>1, <1>2, <2>2 DEF Still
<1>3. CASE Shift \/ RenameActive
  <2>1. written' = written
    BY <1>3 DEF Shift, RenameActive
  <2>2. CASE disk' = disk
    BY <1>2, <2>1, <2>2 DEF Still, Numbers, Exists
  <2>3. CASE Exists(i) /\ ~Exists(i + 1) /\ i + 1 \in Files /\ disk' = Rename(i, i + 1)
    <3>1. Numbers(i + 1) = {} /\ i # i + 1
      BY <1>0, <2>3 DEF Numbers, Files
    <3>2. \A g \in Files : Numbers(g)' = IF g = i + 1 THEN Numbers(i)
                                         ELSE IF g = i THEN {} ELSE Numbers(g)
      BY <1>0, <2>3, RenameEffect DEF TypeOK
    <3>3. \A n : n \in OnDisk' <=> n \in OnDisk
      BY <1>0, <2>3, <3>1, <3>2, Members
    <3>4. OnDisk' = OnDisk
      BY <3>3
    <3> QED BY <1>1, <2>1, <3>4
  <2> QED BY <1>0, <1>3, <2>2, <2>3, ShiftMoves
<1>4. CASE RemoveOldest
  BY <1>0, <1>2, <1>4 DEF RemoveOldest, Still, Numbers, Exists
<1>5. CASE Append1 \/ AppendShort
  <2>1. \A n : n \in OnDisk' <=> n \in OnDisk \/ n = written + 1
    <3>1. 0 \in Files
      BY RotateAssumption DEF Files
    <3>2. /\ Numbers(0)' = Numbers(0) \cup {written + 1}
          /\ \A g \in Files : g # 0 => Numbers(g)' = Numbers(g)
      BY <1>5, AppendEffect
    <3> QED BY <3>1, <3>2, Members
  <2>2. written \in Nat /\ written' = written + 1
    BY <1>5 DEF Append1, AppendShort, Appended, TypeOK
  <2>3. \A n : n \in OnDisk' <=> n \in 1..written'
    BY <1>1, <2>1, <2>2
  <2> QED BY <2>3
<1>6. ~Prune
  BY <1>0 DEF Prune, PruneBeyond
<1> QED BY <1>2, <1>3, <1>4, <1>5, <1>6, StillSteps DEF Next

\* What is kept is the end of what was written, without a hole.
LEMMA NewestKept ==
    ASSUME TypeOK, Next, SizeIsCurrent, FilesInOrder, Known, Clear, PruneBeyond, KeepsNewest
    PROVE  KeepsNewest'
<1> SUFFICES ASSUME misses' = 0, NEW a \in Kept' PROVE a..written' \subseteq Kept'
  BY DEF KeepsNewest, Kept
<1>0. /\ misses = 0 /\ i \in Files /\ maxBackups \in Nat /\ maxBackups' = maxBackups
      /\ 0..maxBackups \subseteq Files /\ maxBackups \in 0..maxBackups /\ 0 \in 0..maxBackups
  BY Limits
<1>1. \A b \in Kept : b..written \subseteq Kept
  BY <1>0 DEF KeepsNewest, Kept
<1>2. ASSUME written' = written, Kept' = Kept PROVE a..written' \subseteq Kept'
  BY <1>1, <1>2
<1>3. ASSUME written' = written, \A g \in 0..maxBackups : Numbers(g)' = Numbers(g)
      PROVE  a..written' \subseteq Kept'
  <2>1. \A n : n \in Kept' <=> n \in Kept
    BY <1>0, <1>3, Members
  <2>2. Kept' = Kept
    BY <2>1
  <2> QED BY <1>2, <1>3, <2>2
<1>4. CASE Still
  BY <1>0, <1>3, <1>4 DEF Still
<1>a. ASSUME written' = written,
             \A g \in 0..maxBackups : Numbers(g)' = IF g = maxBackups THEN {} ELSE Numbers(g)
      PROVE  a..written' \subseteq Kept'
  <2>1. written \in Nat
    BY DEF TypeOK
  <2>2. PICK f \in 0..maxBackups : a \in Numbers(f)'
    BY <1>0, Members
  <2>3. f # maxBackups /\ a \in Numbers(f) /\ f \in Files
    BY <1>0, <1>a, <2>2
  <2>4. a \in Kept /\ a \in 1..written
    BY <2>2, <2>3, Members DEF Known
  <2>5. ASSUME NEW b \in a..written PROVE b \in Kept'
    <3>1. b \in Kept
      BY <1>1, <2>4, <2>5
    <3>2. PICK g \in 0..maxBackups : b \in Numbers(g)
      BY <3>1, Members
    <3>3. g # maxBackups
      <4> SUFFICES ASSUME g = maxBackups PROVE FALSE
        OBVIOUS
      <4>1. maxBackups > f /\ maxBackups \in Files
        BY <1>0, <2>2, <2>3
      <4>2. b < a
        BY <2>3, <3>2, <4>1 DEF FilesInOrder
      <4> QED BY <2>1, <2>4, <2>5, <4>2
    <3>4. b \in Numbers(g)'
      BY <1>0, <1>a, <3>2, <3>3
    <3> QED BY <1>0, <3>2, <3>4, Members
  <2> QED BY <1>a, <2>1, <2>5
<1>5. CASE Shift \/ RenameActive
  <2>1. written' = written
    BY <1>5 DEF Shift, RenameActive
  <2>2. CASE disk' = disk
    BY <1>4, <2>1, <2>2 DEF Still, Numbers, Exists
  <2>3. CASE /\ Exists(i) /\ ~Exists(i + 1) /\ i + 1 \in Files /\ disk' = Rename(i, i + 1)
             /\ maxBackups > 0 => i < maxBackups
    <3>1. Numbers(i + 1) = {} /\ i # i + 1
      BY <1>0, <2>3 DEF Numbers, Files
    <3>2. \A g \in Files : Numbers(g)' = IF g = i + 1 THEN Numbers(i)
                                         ELSE IF g = i THEN {} ELSE Numbers(g)
      BY <1>0, <2>3, RenameEffect DEF TypeOK
    <3>3. CASE maxBackups > 0
      <4>1. i \in 0..maxBackups /\ i + 1 \in 0..maxBackups
        BY <1>0, <2>3, <3>3 DEF Files
      <4>2. \A n : n \in Kept' <=> n \in Kept
        BY <1>0, <3>1, <3>2, <4>1, Members
      <4>3. Kept' = Kept
        BY <4>2
      <4> QED BY <1>2, <2>1, <4>3
    <3>4. CASE ~(maxBackups > 0) /\ i # 0
      <4>1. \A g \in 0..maxBackups : g # i /\ g # i + 1
        BY <1>0, <3>4 DEF Files
      <4> QED BY <1>0, <1>3, <2>1, <3>2, <4>1
    <3>5. CASE ~(maxBackups > 0) /\ i = 0
      <4>1. maxBackups = 0 /\ \A g \in 0..maxBackups : g = i
        BY <1>0, <3>5
      <4>2. \A g \in 0..maxBackups : Numbers(g)' = {}
        BY <1>0, <3>1, <3>2, <4>1
      <4>3. a \notin Kept'
        BY <1>0, <4>2, Members
      <4> QED BY <4>3
    <3> QED BY <3>3, <3>4, <3>5
  <2>4. CASE /\ Exists(i) /\ i + 1 \in Files /\ disk' = Rename(i, i + 1)
             /\ maxBackups > 0 /\ i = maxBackups
    <3>1. \A g \in Files : Numbers(g)' = IF g = i + 1 THEN Numbers(i)
                                         ELSE IF g = i THEN {} ELSE Numbers(g)
      BY <1>0, <2>4, RenameEffect DEF TypeOK
    <3>2. \A g \in 0..maxBackups : g # i + 1
      BY <1>0, <2>4
    <3> QED BY <1>0, <1>a, <2>1, <2>4, <3>1, <3>2
  <2> QED BY <1>5, <2>2, <2>3, <2>4, ShiftMoves
<1>6. CASE RemoveOldest
  <2>1. written' = written /\ written \in Nat
    BY <1>6 DEF RemoveOldest, TypeOK
  <2>2. CASE ~(maxBackups > 0)
    BY <1>4, <1>6, <2>1, <2>2 DEF RemoveOldest, Still, Numbers, Exists
  <2>3. CASE maxBackups > 0
    <3>1. \A g \in Files : Numbers(g)' = IF g = maxBackups THEN {} ELSE Numbers(g)
      BY <1>0, <1>6, <2>3, RemoveEffect DEF RemoveOldest, TypeOK
    <3> QED BY <1>0, <1>a, <2>1, <3>1
  <2> QED BY <2>2, <2>3
<1>7. CASE Prune
  <2>1. written' = written /\ pc = "prune" /\ i > maxBackups
    BY <1>7 DEF Prune, PruneBeyond
  <2>2. CASE Exists(i)
    <3>1. \A g \in Files : Numbers(g)' = IF g = i THEN {} ELSE Numbers(g)
      BY <1>0, <1>7, <2>2, RemoveEffect DEF Prune, TypeOK
    <3>2. \A g \in 0..maxBackups : g # i
      BY <1>0, <2>1 DEF Files
    <3> QED BY <1>0, <1>3, <2>1, <3>1, <3>2
  <2>3. CASE ~Exists(i)
    BY <1>4, <1>7, <2>1, <2>3 DEF Prune, Still, Numbers, Exists
  <2> QED BY <2>2, <2>3
<1>8. CASE Append1 \/ AppendShort
  <2>1. 0 \in Files
    BY RotateAssumption DEF Files
  <2>2. /\ Numbers(0)' = Numbers(0) \cup {written + 1}
        /\ \A g \in Files : g # 0 => Numbers(g)' = Numbers(g)
    BY <1>8, AppendEffect
  <2>3. \A n : n \in Kept' <=> n \in Kept \/ n = written + 1
    BY <1>0, <2>1, <2>2, Members
  <2>4. written \in Nat /\ written' = written + 1
    BY <1>8 DEF Append1, AppendShort, Appended, TypeOK
  <2>5. CASE a = written + 1
    <3>1. a..written' = {written + 1}
      BY <2>4, <2>5
    <3> QED BY <2>3, <3>1
  <2>6. CASE a \in Kept
    <3>1. a..written \subseteq Kept
      BY <1>1, <2>6
    <3>2. a \in 1..written
      BY <1>0, <2>6, Members DEF Known
    <3>3. ASSUME NEW b \in a..written' PROVE b \in a..written \/ b = written + 1
      BY <2>4, <3>2, <3>3
    <3> QED BY <2>3, <3>1, <3>3
  <2> QED BY <2>3, <2>5, <2>6
<1> QED BY <1>4, <1>5, <1>6, <1>7, <1>8, StillSteps DEF Next
-----------------------------------------------------------------------------
(* The length of the files, and their number. *)

\* The bound of SizeBound for one file.
Short(c) == c.bytes <= MaxBytes \/ Len(c.chunks) = 1

\* After a rotation the next Write starts a file, and without one it fits.
LEMMA FitsKept ==
    ASSUME TypeOK, Next, ClosedInside, PruneBeyond, Moved, Fits
    PROVE  Moved' /\ Fits'
<1>0. 0 \in Files /\ i \in Files /\ maxBackups \in Nat /\ (misses' = 0 => misses = 0)
  BY Limits, RotateAssumption DEF Files
<1>1. CASE \/ WriteFail \/ WriteNil \/ Close \/ Crash \/ Restart \/ Append1 \/ AppendShort
           \/ RemoveOldest \/ RemoveFail \/ Shift
  <2>1. pc' \notin {"prune", "open", "write"}
    BY <1>1 DEF WriteFail, WriteNil, Close, Crash, Restart, Append1, AppendShort, RemoveOldest,
       RemoveFail, Shift
  <2> QED BY <2>1 DEF Moved, Fits
<1>2. CASE Check
  <2>1. pc' \notin {"prune", "open"}
    BY <1>2 DEF Check
  <2>2. pc' = "write" /\ MaxBytes > 0 => size' + len' <= MaxBytes
    <3>1. size \in Nat /\ len \in Nat /\ MaxBytes \in Nat
      BY RotateAssumption DEF TypeOK
    <3>2. size' = size /\ len' = len
      BY <1>2 DEF Check, callVars
    <3>3. pc' = "write" => ~(MaxBytes > 0 /\ size + len > MaxBytes)
      BY <1>2 DEF Check
    <3> QED BY <3>1, <3>2, <3>3
  <2> QED BY <2>1, <2>2 DEF Moved, Fits
<1>3. CASE OpenFail \/ StatFail
  <2>1. pc' = "write" /\ ~file'
    BY <1>3 DEF OpenFail, StatFail, ClosedInside, Rotating
  <2> QED BY <2>1 DEF Moved, Fits
<1>4. CASE RenameActive
  <2>1. pc' \in {"prune", "open"} /\ TryRename(0, 1) /\ misses \in Nat
    BY <1>4 DEF RenameActive, TypeOK
  <2>2. ASSUME misses' = 0 PROVE ~Exists(0)'
    <3>1. disk' = IF Exists(0) THEN Rename(0, 1) ELSE disk
      BY <1>0, <2>1, <2>2 DEF TryRename
    <3> QED BY <1>0, <3>1 DEF Exists, Rename, TypeOK
  <2> QED BY <2>1, <2>2 DEF Moved, Fits
<1>5. CASE Prune \/ PruneFail
  <2>1. pc' \in {"prune", "open"} /\ pc = "prune" /\ misses' = misses /\ i # 0
    BY <1>0, <1>5 DEF Prune, PruneFail, PruneBeyond
  <2>2. disk'[0] = disk[0]
    BY <1>0, <1>5, <2>1 DEF Prune, PruneFail, Remove, TypeOK
  <2> QED BY <2>1, <2>2 DEF Moved, Fits, Exists
<1>6. CASE Open
  <2>1. pc' = "write" /\ pc = "open" /\ misses' = misses /\ disk' = Opened
    BY <1>6 DEF Open
  <2>2. misses = 0 => disk'[0] = Empty
    BY <1>0, <2>1, OpenEffect DEF Moved, TypeOK
  <2> QED BY <2>1, <2>2 DEF Moved, Fits
<1>7. ASSUME NEW l \in Lengths, Send(l) PROVE Moved' /\ Fits'
  <2>1. pc' = "check"
    BY <1>7 DEF Send
  <2> QED BY <2>1 DEF Moved, Fits
<1> QED BY <1>1, <1>2, <1>3, <1>4, <1>5, <1>6, <1>7 DEF Next

\* No step makes a file too long.
LEMMA ShortKept ==
    ASSUME TypeOK, Next, SizeIsCurrent, Clear, Fits, SizeBound
    PROVE  SizeBound'
<1> SUFFICES ASSUME MaxBytes > 0, misses' = 0, NEW f \in Files, Exists(f)'
             PROVE  Short(disk'[f])
  BY DEF SizeBound, Short
<1>0. /\ misses = 0 /\ i \in Files /\ maxBackups \in Files /\ 0 \in Files /\ MaxBytes \in Nat
  BY Limits, RotateAssumption DEF Files
<1>1. \A g \in Files : Exists(g) => Short(disk[g])
  BY <1>0 DEF SizeBound, Short
<1>2. CASE disk'[f] = disk[f]
  BY <1>1, <1>2 DEF Exists
<1>3. ASSUME NEW g \in Files, disk' = Remove(g) PROVE Short(disk'[f])
  <2>1. disk'[f] = disk[f]
    BY <1>3, RemoveEffect DEF TypeOK
  <2> QED BY <1>2, <2>1
<1>4. CASE disk' = Opened
  <2>1. disk'[f] = disk[f] \/ disk'[f] = Empty
    BY <1>4, OpenEffect DEF TypeOK
  <2>2. Short(Empty)
    BY <1>0 DEF Short, Empty
  <2> QED BY <1>2, <2>1, <2>2
<1>5. CASE Shift \/ RenameActive
  <2>1. CASE disk' = disk
    BY <1>2, <2>1
  <2>2. CASE Exists(i) /\ i + 1 \in Files /\ disk' = Rename(i, i + 1)
    <3>1. disk'[f] = disk[f] \/ disk'[f] = disk[i]
      BY <1>0, <2>2, RenameEffect DEF TypeOK, Exists
    <3> QED BY <1>0, <1>1, <1>2, <2>2, <3>1
  <2> QED BY <1>5, <2>1, <2>2, ShiftMoves
<1>6. CASE Append1 \/ AppendShort
  <2>1. CASE f # 0
    BY <1>2, <1>6, <2>1, AppendEffect
  <2>2. CASE f = 0
    <3>1. /\ disk'[0].chunks = Append(disk[0].chunks, [n |-> written + 1, kind |-> part])
          /\ \E k \in 1..len : disk'[0].bytes = disk[0].bytes + k
          /\ len \in Nat /\ size \in Nat
      BY <1>6, AppendEffect DEF TypeOK
    <3>2. size = disk[0].bytes /\ (size + len <= MaxBytes \/ disk[0] = Empty)
      BY <1>0, <1>6 DEF Append1, AppendShort, Appended, Fits, SizeIsCurrent
    <3>3. CASE size + len <= MaxBytes
      BY <1>0, <2>2, <3>1, <3>2, <3>3 DEF Short
    <3>4. CASE disk[0] = Empty
      <4>1. Len(Append(<< >>, [n |-> written + 1, kind |-> part])) = 1
        OBVIOUS
      <4>2. disk[0].chunks = << >>
        BY <3>4 DEF Empty
      <4>3. disk'[0].chunks = Append(disk[0].chunks, [n |-> written + 1, kind |-> part])
        BY <3>1
      <4> QED BY <2>2, <4>1, <4>2, <4>3 DEF Short
    <3> QED BY <3>2, <3>3, <3>4
  <2> QED BY <2>1, <2>2
<1>7. CASE RemoveOldest \/ RemoveFail
  BY <1>0, <1>2, <1>3, <1>7 DEF RemoveOldest, RemoveFail
<1>8. CASE Prune \/ PruneFail
  BY <1>0, <1>2, <1>3, <1>8 DEF Prune, PruneFail
<1>9. CASE Open \/ StatFail \/ Restart
  BY <1>4, <1>9 DEF Open, StatFail, Restart
<1>10. CASE (\E l \in Lengths : Send(l)) \/ Check \/ OpenFail \/ WriteFail \/ WriteNil \/ Close \/ Crash
  BY <1>2, <1>10 DEF Send, Check, OpenFail, WriteFail, WriteNil, Close, Crash
<1> QED BY <1>5, <1>6, <1>7, <1>8, <1>9, <1>10 DEF Next

\* The backups beyond the limit lose their lowest, one after the other, and
\* then they are all gone.
LEMMA GapKept ==
    ASSUME TypeOK, Next, SizeIsCurrent, Clear, PruneBeyond, NoGap, BackupBound
    PROVE  NoGap' /\ BackupBound'
<1> SUFFICES ASSUME maxBackups > 0, crashes' = 0, misses' = 0, faults' = 0
             PROVE  NoGap' /\ BackupBound'
  <2>1. maxBackups' = maxBackups
    BY Limits
  <2> QED BY <2>1 DEF NoGap, BackupBound
<1>0. /\ misses = 0 /\ faults = 0 /\ i \in Files /\ i \in Nat /\ MaxFiles \in Nat
      /\ maxBackups \in Nat /\ maxBackups' = maxBackups /\ maxBackups \in Files /\ 0 \in Files
  BY Limits DEF Files
<1>1. crashes = 0 /\ ~Crash
  <2>1. crashes \in Nat /\ (crashes' = crashes \/ Crash)
    BY DEF TypeOK, Next, Send, Check, RemoveOldest, RemoveFail, Shift, RenameActive, Prune, PruneFail,
       Open, OpenFail, StatFail, Append1, AppendShort, Appended, WriteFail, WriteNil, Close, Restart
  <2> QED BY <2>1 DEF Crash
<1>1a. ~(RemoveFail \/ PruneFail \/ OpenFail \/ StatFail \/ AppendShort \/ WriteFail)
  BY <1>0 DEF RemoveFail, PruneFail, OpenFail, StatFail, AppendShort, WriteFail, Fault
<1> DEFINE first == IF pc = "prune" THEN i ELSE maxBackups + 1
<1>2. \A f \in Files : Exists(f) /\ f > maxBackups =>
          f >= first /\ \A g \in first..f : Exists(g)
  BY <1>0, <1>1 DEF NoGap
<1>3. ASSUME pc # "prune", pc' # "prune",
             \A f \in Files : f > maxBackups => (disk'[f] # Absent <=> Exists(f))
      PROVE  NoGap'
  <2>1. ASSUME NEW f \in Files, disk'[f] # Absent, f > maxBackups,
               NEW g \in (maxBackups + 1)..f
        PROVE  disk'[g] # Absent
    <3>1. Exists(f) /\ Exists(g)
      BY <1>2, <1>3, <2>1
    <3>2. g \in Files /\ g > maxBackups
      BY <1>0, <2>1 DEF Files
    <3> QED BY <1>3, <3>1, <3>2
  <2>2. \A f \in Files : f > maxBackups => f >= maxBackups + 1
    BY <1>0 DEF Files
  <2> QED BY <1>0, <1>3, <2>1, <2>2 DEF NoGap, Exists
<1>4. CASE \/ (\E l \in Lengths : Send(l)) \/ Check \/ WriteNil \/ Close
           \/ Open \/ Restart \/ Append1 \/ RemoveOldest \/ Shift
  <2>1. pc # "prune" /\ pc' \notin {"prune", "open"}
    BY <1>4 DEF Send, Check, RemoveOldest, Shift, Open, Append1, Appended, WriteNil, Close,
       Restart
  <2>2. \A f \in Files : f > maxBackups => (disk'[f] # Absent <=> Exists(f))
    <3>1. CASE disk' = disk
      BY <3>1 DEF Exists
    <3>2. CASE disk' = Opened
      BY <1>0, <3>2, OpenEffect DEF TypeOK, Exists, Files
    <3>3. CASE Append1
      BY <1>0, <3>3, AppendEffect DEF Exists
    <3>4. CASE RemoveOldest
      <4>1. \A f \in Files : disk'[f] = IF f = maxBackups THEN Absent ELSE disk[f]
        BY <1>0, <3>4, RemoveEffect DEF RemoveOldest, TypeOK
      <4> QED BY <1>0, <4>1 DEF Exists, Files
    <3>5. CASE Shift
      <4>1. CASE Exists(i) /\ i + 1 \in Files /\ disk' = Rename(i, i + 1) /\ i < maxBackups
        <5>1. \A f \in Files : f # i /\ f # i + 1 => disk'[f] = disk[f]
          BY <1>0, <4>1, RenameEffect DEF TypeOK
        <5>2. \A f \in Files : f > maxBackups => f # i /\ f # i + 1
          BY <1>0, <4>1 DEF Files
        <5> QED BY <5>1, <5>2 DEF Exists
      <4> QED BY <1>0, <3>1, <3>5, <4>1, ShiftMoves
    <3> QED BY <1>4, <3>1, <3>2, <3>3, <3>4, <3>5
        DEF Send, Check, WriteNil, Close, Open, Restart
  <2> QED BY <1>3, <2>1, <2>2 DEF BackupBound
<1>5. CASE RenameActive
  <2>1. pc = "shift" /\ i = 0 /\ pc' = "prune" /\ i' = maxBackups + 1
    BY <1>5 DEF RenameActive
  <2>2. \A f \in Files : f > maxBackups => disk'[f] = disk[f]
    <3>1. CASE Exists(i) /\ i + 1 \in Files /\ disk' = Rename(i, i + 1)
      <4>1. \A f \in Files : f # i /\ f # i + 1 => disk'[f] = disk[f]
        BY <1>0, <3>1, RenameEffect DEF TypeOK
      <4>2. \A f \in Files : f > maxBackups => f # i /\ f # i + 1
        BY <1>0, <2>1 DEF Files
      <4> QED BY <4>1, <4>2
    <3> QED BY <1>0, <1>5, <3>1, ShiftMoves
  <2>3. ASSUME NEW f \in Files, disk'[f] # Absent, f > maxBackups
        PROVE  f >= i' /\ \A g \in i'..f : disk'[g] # Absent
    <3>1. f >= maxBackups + 1 /\ \A g \in (maxBackups + 1)..f : Exists(g)
      BY <1>2, <2>1, <2>2, <2>3 DEF Exists
    <3>2. \A g \in (maxBackups + 1)..f : g \in Files /\ g > maxBackups
      BY <1>0, <2>3 DEF Files
    <3> QED BY <2>1, <2>2, <3>1, <3>2 DEF Exists
  <2> QED BY <1>0, <2>1, <2>3 DEF NoGap, BackupBound, Exists
<1>6. CASE Prune
  <2>1. pc = "prune" /\ i > maxBackups
    BY <1>6 DEF Prune, PruneBeyond
  <2>2. CASE Exists(i)
    <3>1. pc' = "prune" /\ i' = i + 1 /\ disk' = Remove(i)
      BY <1>6, <2>1, <2>2 DEF Prune
    <3>2. \A f \in Files : disk'[f] = IF f = i THEN Absent ELSE disk[f]
      BY <1>0, <3>1, RemoveEffect DEF TypeOK
    <3>3. ASSUME NEW f \in Files, disk'[f] # Absent, f > maxBackups
          PROVE  f >= i' /\ \A g \in i'..f : disk'[g] # Absent
      <4>1. f # i /\ Exists(f)
        BY <3>2, <3>3 DEF Exists
      <4>2. f >= i /\ \A g \in i..f : Exists(g)
        BY <1>2, <2>1, <3>3, <4>1
      <4>3. f >= i + 1
        BY <1>0, <4>1, <4>2 DEF Files
      <4>4. \A g \in (i + 1)..f : g \in i..f /\ g # i /\ g \in Files
        BY <1>0 DEF Files
      <4> QED BY <3>1, <3>2, <4>2, <4>3, <4>4 DEF Exists
    <3> QED BY <1>0, <3>1, <3>3 DEF NoGap, BackupBound, Exists
  <2>3. CASE ~Exists(i)
    <3>1. pc' = "open" /\ disk' = disk
      BY <1>6, <2>3 DEF Prune
    <3>2. ASSUME NEW f \in Files, f > maxBackups PROVE ~Exists(f)
      <4> SUFFICES ASSUME Exists(f) PROVE FALSE
        OBVIOUS
      <4>1. f >= i /\ \A g \in i..f : Exists(g)
        BY <1>2, <2>1, <3>2
      <4>2. i \in i..f
        BY <1>0, <4>1 DEF Files
      <4> QED BY <2>3, <4>1, <4>2
    <3> QED BY <1>0, <3>1, <3>2 DEF NoGap, BackupBound, Exists
  <2> QED BY <2>2, <2>3
<1> QED BY <1>1, <1>1a, <1>4, <1>5, <1>6 DEF Next
-----------------------------------------------------------------------------
(* The inductive invariant. *)

\* NewRotatingFile, with the backups of an earlier run, satisfies the invariant.
LEMMA InitIInv == Init => IInv
<1> SUFFICES ASSUME Init PROVE IInv
  OBVIOUS
<1> DEFINE old(f) == [chunks |-> <<[n |-> written + 1 - f, kind |-> "nl"]>>, bytes |-> 1]
<1>0. /\ written \in Nat /\ written <= MaxWrites /\ 0 \in Files /\ MaxFiles \in Nat
      /\ MaxWrites \in Nat /\ MaxCrashes \in Nat /\ MaxMisses \in Nat /\ MaxFaults \in Nat
      /\ MaxFiles > MaxWrites + 1 + MaxCrashes + MaxFaults
      /\ maxBackups \in BackupLimits /\ maxBackups \in Nat /\ MaxBytes \in Nat
  BY RotateAssumption DEF Init, Files
<1>1. Empty \in Content /\ Empty # Absent
  <2>1. Empty \in Content
    BY DEF Empty, Content
  <2> QED BY <2>1, AbsentAssumption
<1>2. ASSUME NEW f \in 1..written
      PROVE  old(f) \in Content /\ old(f) # Absent
  <2>1. [n |-> written + 1 - f, kind |-> "nl"] \in Chunk
    BY <1>0, <1>2 DEF Chunk, Kinds
  <2>2. <<[n |-> written + 1 - f, kind |-> "nl"]>> \in Seq(Chunk)
    BY <2>1
  <2>3. old(f) \in Content
    BY <2>2 DEF Content
  <2> QED BY <2>3, AbsentAssumption
<1>3. /\ disk[0] = Empty
      /\ \A f \in 1..written : f \in Files /\ disk[f] = old(f)
      /\ \A f \in Files : f > written /\ f # 0 => disk[f] = Absent
      /\ \A f \in Files : f = 0 \/ f \in 1..written \/ f > written
  BY <1>0 DEF Init, Files
<1>3a. \A f \in 1..written :
          /\ disk[f].chunks = <<[n |-> written + 1 - f, kind |-> "nl"]>>
          /\ disk[f].bytes = 1
  <2> SUFFICES ASSUME NEW f \in 1..written
               PROVE  /\ disk[f].chunks = <<[n |-> written + 1 - f, kind |-> "nl"]>>
                      /\ disk[f].bytes = 1
    OBVIOUS
  <2>1. disk[f] = old(f)
    BY <1>3
  <2>2. /\ old(f).chunks = <<[n |-> written + 1 - f, kind |-> "nl"]>>
        /\ old(f).bytes = 1
    BY Zenon
  <2> QED BY Zenon, <2>1, <2>2
<1> HIDE DEF old
<1>4. disk \in [Files -> Content \cup {Absent}]
  <2>1. \A f \in Files : disk[f] \in Content \cup {Absent}
    BY <1>0, <1>1, <1>2, <1>3
  <2> QED BY <2>1 DEF Init
<1>5. \A f \in Files : Exists(f) <=> f <= written
  BY <1>0, <1>1, <1>2, <1>3 DEF Exists, Files
<1>6. TypeOK
  <2>1. ~Exists(MaxFiles) /\ MaxFiles \in Files
    BY <1>0, <1>5 DEF Files
  <2>2. file \in BOOLEAN
    BY DEF Init
  <2> QED BY <1>0, <1>4, <2>1, <2>2 DEF Init, TypeOK, Kinds
<1>7. ClosedInside /\ Pending /\ Clear /\ PruneBeyond /\ Moved /\ Fits /\ BackupBound
  BY DEF Init, ClosedInside, Pending, Clear, PruneBeyond, Moved, Fits, BackupBound, Rotating
<1>8. Room
  BY <1>0, <1>5 DEF Init, Room, Fee
<1>9. SizeIsCurrent
  BY <1>0, <1>3, <1>5 DEF Init, SizeIsCurrent, Empty
<1>10. Numbers(0) = {}
  BY <1>3 DEF Numbers, Empty
<1>11. ASSUME NEW f \in 1..written PROVE Numbers(f) = {written + 1 - f}
  <2>1. Exists(f) /\ disk[f].chunks = <<[n |-> written + 1 - f, kind |-> "nl"]>>
    BY <1>0, <1>3, <1>5, <1>3a
  <2>2. DOMAIN disk[f].chunks = {1} /\ disk[f].chunks[1].n = written + 1 - f
    BY <2>1
  <2> QED BY <2>1, <2>2 DEF Numbers
<1>12. \A f \in Files : f > written => Numbers(f) = {}
  BY <1>0, <1>5 DEF Numbers, Files
<1>13. \A f \in Files : \A a \in Numbers(f) : f \in 1..written /\ a = written + 1 - f
  BY <1>3, <1>10, <1>11, <1>12
<1>14. Known
  BY <1>0, <1>13 DEF Known
<1>15. FilesInOrder
  <2>1. \A f, g \in Files : f > g => \A a \in Numbers(f), b \in Numbers(g) : a < b
    BY <1>0, <1>13
  <2>2. ASSUME NEW f \in Files, Exists(f), NEW k \in DOMAIN disk[f].chunks,
               NEW m \in DOMAIN disk[f].chunks
        PROVE  ~(k < m)
    <3>1. CASE f = 0
      BY <1>3, <2>2, <3>1 DEF Empty
    <3>2. CASE f \in 1..written
      <4>1. disk[f].chunks = <<[n |-> written + 1 - f, kind |-> "nl"]>>
        BY <3>2, <1>3a
      <4>2. DOMAIN disk[f].chunks = {1}
        BY <4>1
      <4> QED BY <2>2, <4>2
    <3> QED BY <1>0, <1>3, <1>5, <2>2, <3>1, <3>2 DEF Files
  <2> QED BY <2>1, <2>2 DEF FilesInOrder
<1>16. KeepsAll
  <2>1. \A n \in 1..written : written + 1 - n \in 1..written /\ n = written + 1 - (written + 1 - n)
    BY <1>0
  <2>2. \A n : n \in OnDisk <=> n \in 1..written
    <3>1. ASSUME NEW n \in 1..written PROVE n \in OnDisk
      <4>1. n \in Numbers(written + 1 - n) /\ written + 1 - n \in Files
        BY <1>3, <1>11, <2>1
      <4> QED BY <4>1, Members
    <3>2. ASSUME NEW n \in OnDisk PROVE n \in 1..written
      BY <1>14, Members DEF Known
    <3> QED BY <3>1, <3>2
  <2>3. OnDisk = 1..written
    BY <2>2
  <2> QED BY <2>3 DEF KeepsAll
<1>17. KeepsNewest
  <2> SUFFICES ASSUME NEW a \in Kept, NEW b \in a..written PROVE b \in Kept
    BY DEF KeepsNewest, Kept
  <2>0. 0..maxBackups \subseteq Files
    BY <1>0, RotateAssumption DEF Files
  <2>1. PICK f \in 0..maxBackups : a \in Numbers(f)
    BY Members
  <2>2. f \in 1..written /\ a = written + 1 - f
    BY <1>13, <2>0, <2>1
  <2> DEFINE g == written + 1 - b
  <2>3. g \in 1..written /\ g <= f /\ g \in 0..maxBackups /\ b = written + 1 - g
    BY <1>0, <2>1, <2>2
  <2>4. b \in Numbers(g)
    BY <1>11, <2>3
  <2> QED BY <2>3, <2>4, Members
<1>18. SizeBound
  <2> SUFFICES ASSUME NEW f \in Files, Exists(f), MaxBytes > 0 PROVE disk[f].bytes <= MaxBytes
    BY DEF SizeBound
  <2>1. CASE f = 0
    BY <1>0, <1>3, <2>1 DEF Empty
  <2>2. CASE f \in 1..written
    <3>1. disk[f].bytes = 1
      BY <2>2, <1>3a
    <3> QED BY <1>0, <3>1
  <2> QED BY <1>0, <1>3, <1>5, <2>1, <2>2 DEF Files
<1>19. NoGap
  <2>1. ASSUME NEW f \in Files, Exists(f), f > maxBackups
        PROVE  f >= maxBackups + 1 /\ \A g \in (maxBackups + 1)..f : Exists(g)
    <3>1. \A g \in (maxBackups + 1)..f : g \in Files /\ g <= written
      BY <1>0, <1>5, <2>1 DEF Files
    <3> QED BY <1>0, <1>5, <2>1, <3>1 DEF Files
  <2> QED BY <2>1 DEF Init, NoGap
<1> QED BY <1>6, <1>7, <1>8, <1>9, <1>14, <1>15, <1>16, <1>17, <1>18, <1>19 DEF IInv

\* Every step keeps the invariant.
LEMMA NextIInv ==
    ASSUME IInv, Next
    PROVE  IInv'
<1>1. TypeOK /\ Basics /\ UNCHANGED maxBackups
  BY DEF IInv, Basics, TypeOK, Typed, Next
<1>2. Basics' /\ SizeIsCurrent'
  <2>1. CASE (\E l \in Lengths : Send(l)) \/ Check \/ OpenFail \/ WriteFail \/ WriteNil \/ Close \/ Crash
    BY <1>1, <2>1, BasicsSame, SizeKept DEF IInv
  <2>2. CASE RemoveOldest \/ RemoveFail
    BY <1>1, <2>2, BasicsRemove, SizeKept DEF IInv
  <2>3. CASE Shift \/ RenameActive
    BY <1>1, <2>3, BasicsRename, SizeKept DEF IInv
  <2>4. CASE Prune \/ PruneFail
    BY <1>1, <2>4, BasicsPrune, SizeKept DEF IInv
  <2>5. CASE Open \/ Restart
    BY <1>1, <2>5, BasicsOpen
  <2>6. CASE Append1 \/ AppendShort
    BY <1>1, <2>6, BasicsAppend DEF IInv
  <2>7. CASE StatFail
    BY <1>1, <2>7, BasicsStat DEF IInv
  <2> QED BY <2>1, <2>2, <2>3, <2>4, <2>5, <2>6, <2>7 DEF Next
<1>3. TypeOK'
  BY <1>2, Capped DEF Basics
<1>4. FilesInOrder' /\ Known'
  BY OrderKept DEF IInv
<1>5. Clear' /\ KeepsAll' /\ KeepsNewest'
  BY ClearKept, AllKept, NewestKept DEF IInv
<1>6. Moved' /\ Fits' /\ SizeBound'
  BY FitsKept, ShortKept DEF IInv
<1>7. NoGap' /\ BackupBound'
  BY GapKept DEF IInv
<1> QED BY <1>2, <1>3, <1>4, <1>5, <1>6, <1>7 DEF IInv, Basics

\* The invariant holds throughout.
LEMMA Invariance == Spec => []IInv
<1>1. IInv /\ UNCHANGED vars => IInv'
  <2> SUFFICES ASSUME IInv, UNCHANGED vars PROVE IInv'
    OBVIOUS
  <2>1. TypeOK' /\ ClosedInside' /\ Pending' /\ Room' /\ SizeIsCurrent' /\ FilesInOrder' /\ Known'
    BY DEF vars, IInv, TypeOK, ClosedInside, Pending, Room, Fee, SizeIsCurrent, FilesInOrder,
       Known, Exists, Numbers
  <2>2. Clear' /\ PruneBeyond' /\ KeepsAll' /\ KeepsNewest'
    BY DEF vars, IInv, Clear, PruneBeyond, KeepsAll, KeepsNewest, OnDisk, Exists, Numbers
  <2>3. Moved' /\ Fits' /\ SizeBound' /\ NoGap' /\ BackupBound'
    BY DEF vars, IInv, Moved, Fits, SizeBound, NoGap, BackupBound, Exists
  <2> QED BY <2>1, <2>2, <2>3 DEF IInv
<1>2. IInv /\ [Next]_vars => IInv'
  BY <1>1, NextIInv
<1> QED BY <1>2, InitIInv, PTL DEF Spec
-----------------------------------------------------------------------------
\* The rotating file's state stays of its type, and the backups below the bound
\* MaxFiles, through any crashes and failures within the other bounds.
THEOREM TypeCorrect == Spec => []TypeOK
<1>1. IInv => TypeOK
  BY DEF IInv
<1> QED BY <1>1, Invariance, PTL

\* The files, from the highest backup down to the active one, hold what was
\* written in the order it was written, wherever a crash stops a rotation and
\* whichever renames fail.
THEOREM OrderCorrect == Spec => []FilesInOrder
<1>1. IInv => FilesInOrder
  BY DEF IInv
<1> QED BY <1>1, Invariance, PTL

\* Rotation gives up the oldest output only, and leaves no hole, unless a rename
\* fails.
THEOREM NewestCorrect == Spec => []KeepsNewest
<1>1. IInv => KeepsNewest
  BY DEF IInv
<1> QED BY <1>1, Invariance, PTL

\* With no limit on the backups, and no failed rename, every byte stays on disk.
THEOREM KeepsAllCorrect == Spec => []KeepsAll
<1>1. IInv => KeepsAll
  BY DEF IInv
<1> QED BY <1>1, Invariance, PTL

\* The size that Write decides on is the length of the file it writes to, across
\* rotations, failed opens and restarts.
THEOREM SizeCorrect == Spec => []SizeIsCurrent
<1>1. IInv => SizeIsCurrent
  BY DEF IInv
<1> QED BY <1>1, Invariance, PTL

\* No file is longer than MaxBytes, unless a single Write is or a rename fails.
THEOREM BoundCorrect == Spec => []SizeBound
<1>1. IInv => SizeBound
  BY DEF IInv
<1> QED BY <1>1, Invariance, PTL

\* A rotation that nothing interrupts leaves maxBackups backups at most,
\* however many an earlier configuration left.
THEOREM BackupsCorrect == Spec => []BackupBound
<1>1. IInv => BackupBound
  BY DEF IInv
<1> QED BY <1>1, Invariance, PTL
=============================================================================
