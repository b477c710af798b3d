---------------------------- MODULE WorkdirProofs ----------------------------
(***************************************************************************)
(* Theorems about Workdir, for any processes, any numbers of starts, turns *)
(* and /new commands, and any faults.                                      *)
(***************************************************************************)
EXTENDS Workdir, TLAPS

-----------------------------------------------------------------------------
(* The inductive invariants.                                               *)

\* The jobs before the transcript is rotated, and those that follow PutWrite.
Early == {"free", "new", "newRead", "read", "restore"}
Late == {"run", "turn", "flush", "end", "endRead"}

\* What a job, the lease, a copy and the counters say of each other.
Control ==
  /\ holder = None <=> job = "free"
  /\ copying # {} \/ gap # None => job \in {"restore", "flush"}
  /\ gap # None => gap \in copying
  /\ job \in Early => clearing = "idle"
  /\ job \in {"new", "newRead"} => news > 0
  /\ cut <= starts
  /\ job \notin {"free", "new", "newRead"} => cut < starts
  /\ job \in {"turn", "flush"} => local[holder].session # None
  /\ clearing = "read" => job \in Late /\ HasMarker(seen)
  /\ orphan # None => undone /\ torn

\* A marker is overwritten only by one that has read it, or after an end that
\* undone records.
MarkerInv ==
  /\ job \in {"putRead", "endRead"} /\ HasMarker(record) => HasMarker(got) \/ undone
  /\ clearing = "read" /\ HasMarker(record) => record.marker <= seen.marker \/ undone

\* A transcript that began after the last accepted /new.
BeganAfter(dir) == dir.session # None /\ dir.session.began > cut

\* After a /new, either its marker is there or a transcript that is younger.
CutInv ==
  cut > 0 /\ ~undone =>
    /\ job \notin Late => HasMarker(record) \/ BeganAfter(archive)
    /\ job = "restore" =>
         \/ HasMarker(got)
         \/ /\ BeganAfter(archive)
            /\ "session" \in copying \/ local[holder].session = archive.session
    /\ job \in Late \cup {"put", "putRead"} /\ local[holder].session # None =>
         BeganAfter(local[holder])
    /\ job = "flush" =>
         "session" \in copying \/ archive.session = local[holder].session
    /\ job \in {"end", "endRead"} => BeganAfter(archive)

\* The work file in dir is at least as new as the one the transcript t speaks of.
Covers(dir, t) ==
  t # None /\ t.work # None => dir.work # None /\ t.work <= dir.work

\* No version is newer than the last turn.
NotNewer(dir, n) ==
  /\ dir.work # None => dir.work <= n
  /\ dir.session # None /\ dir.session.work # None => dir.session.work <= n

VersionsInv ==
  NotNewer(archive, turns) /\ \A p \in Process : NotNewer(local[p], turns)

\* The archive covers its transcript, and the Workdir of the Session at work
\* covers both transcripts, so that it may replace the files one by one.
FilesInv ==
  ~torn =>
    /\ \/ Covers(archive, archive.session)
       \/ job = "flush" /\ gap = "work" /\ archive.work = None
    /\ job = "restore" /\ archive.session # None /\ archive.work # None =>
         "work" \in copying \/ local[holder].work = archive.work
    /\ job \in Late \cup {"put", "putRead"} => Covers(local[holder], archive.session)
    /\ job \in {"turn", "flush"} => Covers(local[holder], local[holder].session)
    /\ job = "flush" /\ "work" \in copying => local[holder].work # None
    /\ job = "flush" /\ "work" \notin copying /\ local[holder].work # None =>
         archive.work = local[holder].work
    /\ job = "flush" /\ gap = "session" => "work" \notin copying

IInv == Control /\ MarkerInv /\ CutInv /\ VersionsInv /\ FilesInv

-----------------------------------------------------------------------------
(* The two steps of a copy.                                                *)

\* rm takes one file away.
LEMMA RemovedFile ==
  ASSUME NEW dir \in Directory, NEW f \in File
  PROVE  /\ Removed(dir, f) \in Directory
         /\ Removed(dir, f).session = IF f = "session" THEN None ELSE dir.session
         /\ Removed(dir, f).work = IF f = "work" THEN None ELSE dir.work
BY DEF Removed, Directory, File, Work

\* cp writes one file, or nothing when its source has gone.
LEMMA CopiedFile ==
  ASSUME NEW dir \in Directory, NEW f \in File, NEW src \in Directory
  PROVE  /\ Copied(dir, f, src) \in Directory
         /\ Copied(dir, f, src).session = IF f = "session" THEN src.session ELSE dir.session
         /\ Copied(dir, f, src).work = IF f = "work" THEN src.work ELSE dir.work
BY DEF Copied, Directory, File, Work

\* readdir lists the files there are.
LEMMA PresentFile ==
  ASSUME NEW dir \in Directory
  PROVE  /\ Present(dir) \subseteq File
         /\ "session" \in Present(dir) <=> dir.session # None
         /\ "work" \in Present(dir) <=> dir.work # None
BY DEF Present, Directory, File

\* An empty Workdir.
LEMMA EmptyFiles ==
  Empty \in Directory /\ Empty.session = None /\ Empty.work = None
BY DEF Empty, Directory, Work

\* What a turn leaves in the Workdir.
Wrote(began, work) == [session |-> [began |-> began, work |-> work], work |-> work]

\* After a turn there is a transcript, which speaks of the work file beside it.
LEMMA WroteFiles ==
  ASSUME NEW began \in Nat \ {0}, NEW work \in Work
  PROVE  /\ Wrote(began, work) \in Directory
         /\ Wrote(began, work).session # None
         /\ Wrote(began, work).session.began = began
         /\ Wrote(began, work).session.work = work
         /\ Wrote(began, work).work = work
<1>1. [began |-> began, work |-> work] \in Transcript
  BY DEF Transcript
<1> QED
  BY <1>1, NoneAssumption DEF Wrote, Directory

\* A turn goes on with the transcript it finds or begins one, and edits the work
\* file or leaves it.
LEMMA TurnEffect ==
  ASSUME TypeOK, Control, Turn
  PROVE  \E work \in Work, began \in Nat \ {0} :
           /\ local' = [local EXCEPT ![holder] = Wrote(began, work)]
           /\ work = turns + 1 \/ work = local[holder].work
           /\ IF local[holder].session = None THEN began = starts
              ELSE began = local[holder].session.began
<1>1. holder \in Process /\ local[holder] \in Directory
  BY DEF Turn, TypeOK, Control
<1>2. PICK edits \in BOOLEAN :
        local' = [local EXCEPT ![holder] =
          Wrote(IF local[holder].session = None THEN starts ELSE local[holder].session.began,
                IF edits THEN turns + 1 ELSE local[holder].work)]
  BY DEF Turn, Wrote
<1>3. turns + 1 \in Work /\ local[holder].work \in Work
  BY <1>1 DEF TypeOK, Work, Directory
<1>4. /\ starts \in Nat \ {0}
      /\ local[holder].session # None => local[holder].session.began \in Nat \ {0}
  BY <1>1 DEF Turn, TypeOK, Control, Directory, Transcript
<1> QED
  BY <1>2, <1>3, <1>4

-----------------------------------------------------------------------------
(* Types.                                                                  *)

\* #putRecord keeps the marker of the record it has read.
LEMMA PutRecords ==
  ASSUME TypeOK, NEW r \in Record \cup {None}
  PROVE  /\ Put(r) \in Record /\ Put(r) # None
         /\ Put(r).marker = IF r = None THEN 0 ELSE r.marker
<1>1. Put(r) \in Record /\ Put(r).marker = IF r = None THEN 0 ELSE r.marker
  BY DEF Put, Record, TypeOK
<1> QED
  BY <1>1, NoneAssumption

\* A step keeps the types.
LEMMA TypeStep == ASSUME TypeOK, Control, [Next]_vars PROVE TypeOK'
<1> USE BoundsAssumption, NoneAssumption DEF TypeOK, Job, PutRecord, GetRecord
<1>1. ASSUME NEW p \in Process, NewAcquire(p) \/ Acquire(p) PROVE TypeOK'
  BY <1>1 DEF NewAcquire, Acquire, files, task, clear, left, history
<1>2. CASE NewRead
  BY <1>2 DEF NewRead, files, control, clear, left, counters, history
<1>3. CASE NewWrite
  <2>1. [marker |-> news, startedAt |-> IF got = None THEN 0 ELSE got.startedAt] \in Record
    BY DEF Record
  <2> QED
    BY <1>3, <2>1 DEF NewWrite, files, clear, left, counters
<1>4. CASE ReadRecord
  BY <1>4, PresentFile DEF ReadRecord, files, control, clear, left, counters, history
<1>5. CASE RestoreFile
  <2>1. holder \in Process /\ local[holder] \in Directory /\ gap' \in File \cup {None}
    BY <1>5 DEF RestoreFile, Control
  <2>2. local' \in [Process -> Directory]
    BY <1>5, <2>1, RemovedFile, CopiedFile DEF RestoreFile
  <2> QED
    BY <1>5, <2>1, <2>2 DEF RestoreFile, control, clear, left, counters, history
<1>6. CASE Rotate
  <2>1. Removed(local[holder], "session") \in Directory
    BY <1>6, RemovedFile DEF Rotate, Control, File
  <2> QED
    BY <1>6, <2>1 DEF Rotate, control, left, counters, history
<1>7. CASE PutRead
  BY <1>7 DEF PutRead, files, control, clear, left, counters, history
<1>8. CASE PutWrite
  BY <1>8, PutRecords DEF PutWrite, files, clear, left, counters, history
<1>9. CASE ClearRead
  BY <1>9 DEF ClearRead, files, control, task, left, counters, history
<1>10. CASE ClearWrite
  <2>1. [seen EXCEPT !.marker = 0] \in Record
    BY <1>10 DEF ClearWrite, Control, HasMarker, Record
  <2> QED
    BY <1>10, <2>1 DEF ClearWrite, files, task, left, counters, history
<1>11. CASE Turn
  <2>1. local' \in [Process -> Directory]
    BY <1>11, TurnEffect, WroteFiles
  <2> QED
    BY <1>11, <2>1 DEF Turn, control, clear, left, history
<1>12. CASE FlushBegin
  <2>1. Present(local[holder]) \subseteq File
    BY <1>12, PresentFile DEF FlushBegin, Control
  <2> QED
    BY <1>12, <2>1 DEF FlushBegin, files, control, clear, left, counters, history
<1>13. CASE FlushFile
  <2>1. holder \in Process /\ local[holder] \in Directory /\ gap' \in File \cup {None}
    BY <1>13 DEF FlushFile, Control, FlushNext
  <2>2. archive' \in Directory
    BY <1>13, <2>1, RemovedFile, CopiedFile DEF FlushFile, FlushNext
  <2> QED
    BY <1>13, <2>1, <2>2 DEF FlushFile, control, clear, left, counters, history
<1>14. CASE Flushed
  BY <1>14 DEF Flushed, files, control, clear, left, counters, history
<1>15. CASE End
  BY <1>15, PutRecords DEF End, files, clear, left, counters, history
<1>16. ASSUME Abandon
       PROVE  /\ holder' = None /\ job' = "free" /\ copying' = {} /\ gap' = None
              /\ got' = None /\ fresh' = FALSE /\ clearing' = "idle" /\ seen' = None
              /\ undone' \in BOOLEAN /\ cut' = cut
  BY <1>16 DEF Abandon, OldIsBack
<1>17. CASE Fold
  BY <1>16, <1>17 DEF Fold, files, left, counters
<1>18. CASE Exit
  <2>1. holder \in Process
    BY <1>18 DEF Exit, Control
  <2>2. [proc |-> holder, copying |-> copying, gap |-> gap] \in Flush
    BY <2>1 DEF Flush
  <2> HIDE DEF Flush
  <2> QED
    BY <1>16, <1>18, <2>2 DEF Exit, files, counters
<1>19. CASE OrphanFlush
  <2>1. orphan \in Flush
    BY <1>19 DEF OrphanFlush
  <2>2. /\ local[orphan.proc] \in Directory /\ orphan.copying \subseteq File
        /\ orphan.gap \in File \cup {None}
    BY <2>1 DEF Flush
  <2>3. archive' \in Directory
    BY <1>19, <2>1, <2>2, RemovedFile, CopiedFile DEF OrphanFlush, FlushNext
  <2>4. /\ \A g \in File : [orphan EXCEPT !.gap = g] \in Flush
        /\ [orphan EXCEPT !.copying = orphan.copying \ {orphan.gap}, !.gap = None] \in Flush
    BY <2>1 DEF Flush
  <2>5. orphan' \in Flush \cup {None}
    <3>1. \A f \in FlushNext(orphan.copying) : f \in File
      BY <2>2 DEF FlushNext
    <3> QED
      BY <1>19, <2>4, <3>1 DEF OrphanFlush
  <2> QED
    BY <1>19, <2>3, <2>5 DEF OrphanFlush, control, task, clear, counters, history
<1>20. CASE EarlyExit
  BY <1>16, <1>20, PutRecords DEF EarlyExit, files, counters
<1>21. CASE StrayPut
  BY <1>21 DEF StrayPut, files, task, clear, counters
<1>22. CASE Crash
  <2>1. local' \in [Process -> Directory]
    BY <1>22, EmptyFiles DEF Crash
  <2> QED
    BY <1>16, <1>22, <2>1 DEF Crash, counters
<1>23. CASE UNCHANGED vars
  BY <1>23 DEF vars, files, control, task, clear, left, counters, history
<1> QED
  BY <1>1, <1>2, <1>3, <1>4, <1>5, <1>6, <1>7, <1>8, <1>9, <1>10, <1>11, <1>12,
     <1>13, <1>14, <1>15, <1>17, <1>18, <1>19, <1>20, <1>21, <1>22, <1>23 DEF Next

-----------------------------------------------------------------------------
(* Control and the marker.                                                 *)

\* A step keeps Control.
LEMMA ControlStep == ASSUME TypeOK, Control, [Next]_vars PROVE Control'
<1> USE BoundsAssumption, NoneAssumption
    DEF TypeOK, Control, Early, Late, HasMarker, PutRecord, GetRecord
<1>1. ASSUME NEW p \in Process, NewAcquire(p) \/ Acquire(p) PROVE Control'
  <2>1. CASE NewAcquire(p)
    BY <2>1 DEF NewAcquire, LeaseIsFree, files, clear, left, history
  <2>2. CASE Acquire(p)
    BY <2>2 DEF Acquire, LeaseIsFree, files, clear, left, history
  <2> QED
    BY <1>1, <2>1, <2>2
<1>2. CASE NewRead
  BY <1>2 DEF NewRead, files, control, clear, left, counters, history
<1>3. CASE NewWrite
  BY <1>3 DEF NewWrite, files, clear, left, counters
<1>4. CASE ReadRecord
  BY <1>4 DEF ReadRecord, files, control, clear, left, counters, history
<1>5. CASE RestoreFile
  BY <1>5, RemovedFile, CopiedFile
  DEF RestoreFile, control, clear, left, counters, history
<1>6. CASE Rotate
  BY <1>6 DEF Rotate, control, left, counters, history
<1>7. CASE PutRead
  BY <1>7 DEF PutRead, files, control, clear, left, counters, history
<1>8. CASE PutWrite
  BY <1>8 DEF PutWrite, files, clear, left, counters, history
<1>9. CASE ClearRead
  BY <1>9 DEF ClearRead, files, control, task, left, counters, history, MayClear
<1>10. CASE ClearWrite
  BY <1>10 DEF ClearWrite, files, task, left, counters, history
<1>11. CASE Turn
  <2>1. local'[holder].session # None
    <3>1. holder \in Process
      BY <1>11 DEF Turn
    <3>2. PICK work \in Work, began \in Nat \ {0} :
            local' = [local EXCEPT ![holder] = Wrote(began, work)]
      BY <1>11, TurnEffect
    <3> QED
      BY <3>1, <3>2, WroteFiles
  <2> QED
    BY <1>11, <2>1 DEF Turn, control, clear, left, history
<1>12. CASE FlushBegin
  BY <1>12 DEF FlushBegin, files, control, clear, left, counters, history
<1>13. CASE FlushFile
  BY <1>13, RemovedFile, CopiedFile
  DEF FlushFile, control, clear, left, counters, history, FlushNext
<1>14. CASE Flushed
  BY <1>14 DEF Flushed, files, control, clear, left, counters, history
<1>15. CASE End
  BY <1>15 DEF End, files, clear, left, counters, history
<1>16. CASE Fold
  BY <1>16 DEF Fold, files, left, counters, Abandon
<1>17. CASE Exit
  <2>1. orphan' # None => undone' /\ torn'
    <3>1. undone' = (undone \/ OldIsBack \/ orphan' # None)
      BY <1>17 DEF Exit, Abandon
    <3>2. torn' \/ (torn' = torn /\ orphan' = orphan)
      BY <1>17 DEF Exit
    <3> QED
      BY <3>1, <3>2
  <2> QED
    BY <1>17, <2>1 DEF Exit, files, counters, Abandon
<1>18. CASE OrphanFlush
  BY <1>18 DEF OrphanFlush, control, task, clear, counters, history, FlushNext
<1>19. CASE EarlyExit
  BY <1>19 DEF EarlyExit, files, counters, Abandon
<1>20. CASE StrayPut
  BY <1>20 DEF StrayPut, files, task, clear, counters
<1>21. CASE Crash
  BY <1>21 DEF Crash, counters, Abandon
<1>22. CASE UNCHANGED vars
  BY <1>22 DEF vars, files, control, task, clear, left, counters, history
<1> QED
  BY <1>1, <1>2, <1>3, <1>4, <1>5, <1>6, <1>7, <1>8, <1>9, <1>10, <1>11, <1>12, <1>13,
     <1>14, <1>15, <1>16, <1>17, <1>18, <1>19, <1>20, <1>21, <1>22
  DEF Next

\* A step keeps MarkerInv.
LEMMA MarkerStep == ASSUME TypeOK, Control, MarkerInv, [Next]_vars PROVE MarkerInv'
<1> USE BoundsAssumption, NoneAssumption
    DEF TypeOK, Control, MarkerInv, Early, Late, HasMarker, PutRecord, GetRecord
<1>1. ASSUME NEW p \in Process, NewAcquire(p) \/ Acquire(p) PROVE MarkerInv'
  BY <1>1 DEF NewAcquire, Acquire, files, task, clear, left, history
<1>2. CASE NewRead
  BY <1>2 DEF NewRead, files, control, clear, left, counters, history
<1>3. CASE NewWrite
  BY <1>3 DEF NewWrite, files, clear, left, counters
<1>4. CASE ReadRecord
  BY <1>4 DEF ReadRecord, files, control, clear, left, counters, history
<1>5. CASE RestoreFile
  BY <1>5 DEF RestoreFile, control, clear, left, counters, history
<1>6. CASE Rotate
  BY <1>6 DEF Rotate, control, left, counters, history
<1>7. CASE PutRead
  BY <1>7 DEF PutRead, files, control, clear, left, counters, history
<1>8. CASE PutWrite
  BY <1>8, PutRecords DEF PutWrite, files, clear, left, counters, history
<1>9. CASE ClearRead
  BY <1>9 DEF ClearRead, files, control, task, left, counters, history, MayClear, Record
<1>10. CASE ClearWrite
  BY <1>10 DEF ClearWrite, files, task, left, counters, history
<1>11. CASE Turn
  BY <1>11 DEF Turn, control, clear, left, history
<1>12. CASE FlushBegin
  BY <1>12 DEF FlushBegin, files, control, clear, left, counters, history
<1>13. CASE FlushFile
  BY <1>13 DEF FlushFile, control, clear, left, counters, history
<1>14. CASE Flushed
  BY <1>14 DEF Flushed, files, control, clear, left, counters, history
<1>15. CASE End
  BY <1>15, PutRecords DEF End, files, clear, left, counters, history
<1>16. CASE Fold
  BY <1>16 DEF Fold, files, left, counters, Abandon
<1>17. CASE Exit
  BY <1>17 DEF Exit, files, counters, Abandon
<1>18. CASE OrphanFlush
  BY <1>18 DEF OrphanFlush, control, task, clear, counters, history
<1>19. CASE EarlyExit
  BY <1>19 DEF EarlyExit, files, counters, Abandon
<1>20. CASE StrayPut
  BY <1>20 DEF StrayPut, files, task, clear, counters
<1>21. CASE Crash
  BY <1>21 DEF Crash, counters, Abandon
<1>22. CASE UNCHANGED vars
  BY <1>22 DEF vars, files, control, task, clear, left, counters, history
<1> QED
  BY <1>1, <1>2, <1>3, <1>4, <1>5, <1>6, <1>7, <1>8, <1>9, <1>10, <1>11, <1>12, <1>13,
     <1>14, <1>15, <1>16, <1>17, <1>18, <1>19, <1>20, <1>21, <1>22
  DEF Next

-----------------------------------------------------------------------------
(* The /new marker and the transcripts from before it.                     *)

\* An abnormal end keeps CutInv: either the archive has the younger transcript,
\* or the marker is there, or undone says that neither is.
LEMMA Abandoned ==
  ASSUME TypeOK, CutInv, Abandon, archive' = archive, record' = record
  PROVE  CutInv'
<1>1. ~undone' => ~undone /\ ~OldIsBack
  BY DEF Abandon
<1>2. job' = "free" /\ cut' = cut /\ cut \in Nat
  BY DEF Abandon, TypeOK
<1>3. cut > 0 /\ ~undone /\ ~OldIsBack => HasMarker(record) \/ BeganAfter(archive)
  BY <1>2 DEF OldIsBack, CutInv, BeganAfter, Late, TypeOK, Directory, Transcript
<1> QED
  BY <1>1, <1>2, <1>3 DEF CutInv, BeganAfter, HasMarker, Late

\* A step keeps CutInv: rotate, clear and flush hand the younger transcript on.
LEMMA CutStep == ASSUME TypeOK, Control, MarkerInv, CutInv, [Next]_vars PROVE CutInv'
<1> USE BoundsAssumption, NoneAssumption
    DEF TypeOK, Control, MarkerInv, CutInv, BeganAfter, Early, Late, HasMarker,
        PutRecord, GetRecord
<1>1. ASSUME NEW p \in Process, NewAcquire(p) \/ Acquire(p) PROVE CutInv'
  <2>1. CASE NewAcquire(p)
    BY <2>1 DEF NewAcquire, LeaseIsFree, files, clear, left, history
  <2>2. CASE Acquire(p)
    BY <2>2 DEF Acquire, LeaseIsFree, files, clear, left, history
  <2> QED
    BY <1>1, <2>1, <2>2
<1>2. CASE NewRead
  BY <1>2 DEF NewRead, files, control, clear, left, counters, history
<1>3. CASE NewWrite
  BY <1>3 DEF NewWrite, files, clear, left, counters, Record
<1>4. CASE ReadRecord
  BY <1>4, PresentFile DEF ReadRecord, files, control, clear, left, counters, history
<1>5. CASE RestoreFile
  BY <1>5, RemovedFile, CopiedFile
  DEF RestoreFile, control, clear, left, counters, history
<1>6. CASE Rotate
  <2>1. local[holder] \in Directory /\ holder \in Process /\ "session" \in File
    BY <1>6 DEF Rotate, File
  <2>2. \/ local' = local /\ ~HasMarker(got)
        \/ local' = [local EXCEPT ![holder] = Removed(local[holder], "session")]
    BY <1>6 DEF Rotate, RotationIsDue
  <2> QED
    BY <1>6, <2>1, <2>2, RemovedFile DEF Rotate, control, counters, history
<1>7. CASE PutRead
  BY <1>7 DEF PutRead, files, control, clear, left, counters, history
<1>8. CASE PutWrite
  BY <1>8, PutRecords DEF PutWrite, files, clear, left, counters, history
<1>9. CASE ClearRead
  BY <1>9 DEF ClearRead, files, control, task, left, counters, history, MayClear, Record
<1>10. CASE ClearWrite
  BY <1>10 DEF ClearWrite, files, task, left, counters, history
<1>11. CASE Turn
  BY <1>11, TurnEffect, WroteFiles DEF Turn, control, clear, left, history
<1>12. CASE FlushBegin
  BY <1>12, PresentFile DEF FlushBegin, files, control, clear, left, counters, history
<1>13. CASE FlushFile
  BY <1>13, RemovedFile, CopiedFile
  DEF FlushFile, control, clear, left, counters, history, FlushNext
<1>14. CASE Flushed
  BY <1>14 DEF Flushed, files, control, clear, left, counters, history
<1>15. CASE End
  BY <1>15, PutRecords DEF End, files, clear, left, counters, history
<1>16. CASE Fold
  BY <1>16, Abandoned DEF Fold, files
<1>17. CASE Exit
  BY <1>17, Abandoned DEF Exit, files
<1>18. CASE OrphanFlush
  BY <1>18 DEF OrphanFlush, control, task, clear, counters, history
<1>19. CASE EarlyExit
  BY <1>19, Abandoned DEF EarlyExit, files
<1>20. CASE StrayPut
  BY <1>20 DEF StrayPut, files, task, clear, counters
<1>21. CASE Crash
  BY <1>21, Abandoned DEF Crash
<1>22. CASE UNCHANGED vars
  BY <1>22 DEF vars, files, control, task, clear, left, counters, history
<1> QED
  BY <1>1, <1>2, <1>3, <1>4, <1>5, <1>6, <1>7, <1>8, <1>9, <1>10, <1>11, <1>12, <1>13,
     <1>14, <1>15, <1>16, <1>17, <1>18, <1>19, <1>20, <1>21, <1>22
  DEF Next

-----------------------------------------------------------------------------
(* The versions of the work file.                                          *)

\* A step keeps VersionsInv.
LEMMA VersionsStep == ASSUME TypeOK, Control, VersionsInv, [Next]_vars PROVE VersionsInv'
<1> USE BoundsAssumption, NoneAssumption DEF TypeOK, Control, VersionsInv, NotNewer
<1>1. ASSUME NEW p \in Process, NewAcquire(p) \/ Acquire(p) PROVE VersionsInv'
  BY <1>1 DEF NewAcquire, Acquire, files, task, clear, left, history
<1>2. CASE NewRead
  BY <1>2 DEF NewRead, files, control, clear, left, counters, history
<1>3. CASE NewWrite
  BY <1>3 DEF NewWrite, files, clear, left, counters
<1>4. CASE ReadRecord
  BY <1>4 DEF ReadRecord, files, control, clear, left, counters, history
<1>5. CASE RestoreFile
  BY <1>5, RemovedFile, CopiedFile
  DEF RestoreFile, control, clear, left, counters, history
<1>6. CASE Rotate
  <2>1. local[holder] \in Directory /\ holder \in Process /\ "session" \in File
    BY <1>6 DEF Rotate, File
  <2>2. \/ local' = local
        \/ local' = [local EXCEPT ![holder] = Removed(local[holder], "session")]
    BY <1>6 DEF Rotate
  <2> QED
    BY <1>6, <2>1, <2>2, RemovedFile DEF Rotate, counters
<1>7. CASE PutRead
  BY <1>7 DEF PutRead, files, control, clear, left, counters, history
<1>8. CASE PutWrite
  BY <1>8 DEF PutWrite, files, clear, left, counters, history
<1>9. CASE ClearRead
  BY <1>9 DEF ClearRead, files, control, task, left, counters, history, MayClear
<1>10. CASE ClearWrite
  BY <1>10 DEF ClearWrite, files, task, left, counters, history
<1>11. CASE Turn
  <2>1. holder \in Process /\ archive' = archive /\ turns' = turns + 1
    BY <1>11 DEF Turn
  <2>2. PICK work \in Work, began \in Nat \ {0} :
          /\ local' = [local EXCEPT ![holder] = Wrote(began, work)]
          /\ work = turns + 1 \/ work = local[holder].work
    BY <1>11, TurnEffect
  <2>3. NotNewer(Wrote(began, work), turns')
    BY <2>1, <2>2, WroteFiles DEF Work
  <2>4. ASSUME NEW dir \in Directory, NotNewer(dir, turns) PROVE NotNewer(dir, turns')
    BY <2>1, <2>4 DEF Directory, Work, Transcript
  <2> QED
    BY <2>1, <2>2, <2>3, <2>4
<1>12. CASE FlushBegin
  BY <1>12 DEF FlushBegin, files, control, clear, left, counters, history
<1>13. CASE FlushFile
  BY <1>13, RemovedFile, CopiedFile
  DEF FlushFile, control, clear, left, counters, history, FlushNext
<1>14. CASE Flushed
  BY <1>14 DEF Flushed, files, control, clear, left, counters, history
<1>15. CASE End
  BY <1>15 DEF End, files, clear, left, counters, history
<1>16. CASE Fold
  BY <1>16 DEF Fold, files, left, counters, Abandon
<1>17. CASE Exit
  BY <1>17 DEF Exit, files, counters, Abandon
<1>18. CASE OrphanFlush
  <2>1. orphan \in Flush
    BY <1>18 DEF OrphanFlush
  <2>2. /\ local[orphan.proc] \in Directory /\ orphan.copying \subseteq File
        /\ orphan.gap \in File \cup {None} /\ orphan.proc \in Process
    BY <2>1 DEF Flush
  <2>3. \/ archive' = archive
        \/ \E f \in File : archive' = Removed(archive, f)
        \/ \E f \in File : archive' = Copied(archive, f, local[orphan.proc])
    BY <1>18, <2>2 DEF OrphanFlush, FlushNext
  <2> QED
    BY <1>18, <2>2, <2>3, RemovedFile, CopiedFile DEF OrphanFlush, counters
<1>19. CASE EarlyExit
  BY <1>19 DEF EarlyExit, files, counters, Abandon
<1>20. CASE StrayPut
  BY <1>20 DEF StrayPut, files, task, clear, counters
<1>21. CASE Crash
  BY <1>21, EmptyFiles DEF Crash, counters, Abandon
<1>22. CASE UNCHANGED vars
  BY <1>22 DEF vars, files, control, task, clear, left, counters, history
<1> QED
  BY <1>1, <1>2, <1>3, <1>4, <1>5, <1>6, <1>7, <1>8, <1>9, <1>10, <1>11, <1>12, <1>13,
     <1>14, <1>15, <1>16, <1>17, <1>18, <1>19, <1>20, <1>21, <1>22
  DEF Next

\* A step keeps FilesInv: a flush never lowers a version beside its transcript.
LEMMA FilesStep == ASSUME TypeOK, Control, VersionsInv, FilesInv, [Next]_vars PROVE FilesInv'
<1> USE BoundsAssumption, NoneAssumption DEF TypeOK, Control, FilesInv, Covers, Late
<1>1. ASSUME NEW p \in Process, NewAcquire(p) \/ Acquire(p) PROVE FilesInv'
  <2>1. CASE NewAcquire(p)
    BY <2>1 DEF NewAcquire, LeaseIsFree, files, clear, left, history
  <2>2. CASE Acquire(p)
    BY <2>2 DEF Acquire, LeaseIsFree, files, clear, left, history
  <2> QED
    BY <1>1, <2>1, <2>2
<1>2. CASE NewRead
  BY <1>2 DEF NewRead, files, control, clear, left, counters, history
<1>3. CASE NewWrite
  BY <1>3 DEF NewWrite, files, clear, left, counters
<1>4. CASE ReadRecord
  BY <1>4, PresentFile DEF ReadRecord, files, control, clear, left, counters, history
<1>5. CASE RestoreFile
  BY <1>5, RemovedFile, CopiedFile
  DEF RestoreFile, control, clear, left, counters, history
<1>6. CASE Rotate
  <2>1. local[holder] \in Directory /\ holder \in Process /\ "session" \in File
    BY <1>6 DEF Rotate, File
  <2>2. \/ local' = local
        \/ local' = [local EXCEPT ![holder] = Removed(local[holder], "session")]
    BY <1>6 DEF Rotate
  <2>3. local'[holder].work = local[holder].work
    BY <2>1, <2>2, RemovedFile
  <2> QED
    BY <1>6, <2>3 DEF Rotate, control, history
<1>7. CASE PutRead
  BY <1>7 DEF PutRead, files, control, clear, left, counters, history
<1>8. CASE PutWrite
  BY <1>8 DEF PutWrite, files, clear, left, counters, history
<1>9. CASE ClearRead
  BY <1>9 DEF ClearRead, files, control, task, left, counters, history, MayClear
<1>10. CASE ClearWrite
  BY <1>10 DEF ClearWrite, files, task, left, counters, history
<1>11. CASE Turn
  <2>1. holder \in Process /\ archive' = archive /\ torn' = torn /\ job' = "turn"
        /\ holder' = holder
    BY <1>11 DEF Turn, control, history
  <2>2. PICK work \in Work, began \in Nat \ {0} :
          /\ local' = [local EXCEPT ![holder] = Wrote(began, work)]
          /\ work = turns + 1 \/ work = local[holder].work
    BY <1>11, TurnEffect
  <2>3. Covers(Wrote(began, work), Wrote(began, work).session)
    <3>1. Wrote(began, work).session.work = work /\ Wrote(began, work).work = work
      BY WroteFiles
    <3>2. work # None => work \in Nat
      BY DEF Work
    <3> QED
      BY <3>1, <3>2
  <2>4. ~torn => Covers(local[holder], archive.session)
    BY <1>11 DEF Turn
  <2>5. ~torn => Covers(Wrote(began, work), archive.session)
    BY <2>1, <2>2, <2>4, WroteFiles
    DEF VersionsInv, NotNewer, Directory, Work, Transcript
  <2>6. local'[holder] = Wrote(began, work)
    BY <2>1, <2>2
  <2>7. ~torn => Covers(archive, archive.session)
    BY <1>11 DEF Turn
  <2> HIDE DEF Covers
  <2> QED
    BY <2>1, <2>3, <2>5, <2>6, <2>7
<1>12. CASE FlushBegin
  BY <1>12, PresentFile DEF FlushBegin, files, control, clear, left, counters, history
<1>13. CASE FlushFile
  <2>1. /\ job = "flush" /\ job' = "flush" /\ holder \in Process /\ holder' = holder
        /\ local' = local /\ torn' = torn /\ local[holder] \in Directory
    BY <1>13 DEF FlushFile, control, history
  <2>2. ASSUME gap = None, gap' \in FlushNext(copying), copying' = copying,
               archive' = Removed(archive, gap')
        PROVE  FilesInv'
    BY <2>1, <2>2, RemovedFile DEF FlushNext, File
  <2>3. ASSUME gap = "work", gap' = None, copying' = copying \ {gap},
               archive' = Copied(archive, gap, local[holder])
        PROVE  FilesInv'
    BY <2>1, <2>3, CopiedFile DEF File
  <2>4. ASSUME gap = "session", gap' = None, copying' = copying \ {gap},
               archive' = Copied(archive, gap, local[holder])
        PROVE  FilesInv'
    BY <2>1, <2>4, CopiedFile DEF File
  <2> QED
    BY <1>13, <2>2, <2>3, <2>4 DEF FlushFile, File
<1>14. CASE Flushed
  BY <1>14 DEF Flushed, files, control, clear, left, counters, history
<1>15. CASE End
  BY <1>15 DEF End, files, clear, left, counters, history
<1>16. CASE Fold
  BY <1>16 DEF Fold, files, left, counters, Abandon
<1>17. CASE Exit
  BY <1>17 DEF Exit, files, counters, Abandon
<1>18. CASE OrphanFlush
  BY <1>18 DEF OrphanFlush, control, task, clear, counters, history
<1>19. CASE EarlyExit
  BY <1>19 DEF EarlyExit, files, counters, Abandon
<1>20. CASE StrayPut
  BY <1>20 DEF StrayPut, files, task, clear, counters
<1>21. CASE Crash
  BY <1>21, EmptyFiles DEF Crash, counters, Abandon
<1>22. CASE UNCHANGED vars
  BY <1>22 DEF vars, files, control, task, clear, left, counters, history
<1> QED
  BY <1>1, <1>2, <1>3, <1>4, <1>5, <1>6, <1>7, <1>8, <1>9, <1>10, <1>11, <1>12, <1>13,
     <1>14, <1>15, <1>16, <1>17, <1>18, <1>19, <1>20, <1>21, <1>22
  DEF Next

-----------------------------------------------------------------------------
(* The theorems.                                                           *)

\* IInv is an invariant of the Workdir, with the types.
THEOREM Invariant == Spec => [](TypeOK /\ IInv)
<1>1. Init => TypeOK /\ IInv
  <2> SUFFICES ASSUME Init PROVE TypeOK /\ IInv
    OBVIOUS
  <2> USE BoundsAssumption, NoneAssumption
  <2>1. TypeOK
    <3>1. local \in [Process -> Directory]
      BY EmptyFiles DEF Init
    <3>2. archive \in Directory
      BY EmptyFiles DEF Init
    <3>3. {record, got, seen, stray} \subseteq Record \cup {None}
      BY DEF Init
    <3>4. /\ starts \in 0..MaxStart /\ turns \in 0..MaxTurn /\ news \in 0..MaxNew
          /\ cut \in 0..MaxStart
      BY DEF Init
    <3>5. /\ holder \in Process \cup {None} /\ job \in Job
          /\ copying \subseteq File /\ gap \in File \cup {None} /\ fresh \in BOOLEAN
          /\ clearing \in {"idle", "due", "read"} /\ orphan \in Flush \cup {None}
          /\ undone \in BOOLEAN /\ torn \in BOOLEAN
      BY DEF Init, Job
    <3> QED
      BY <3>1, <3>2, <3>3, <3>4, <3>5 DEF TypeOK
  <2>2. Control /\ MarkerInv /\ CutInv
    BY DEF Init, Control, MarkerInv, CutInv, HasMarker, Early, Late
  <2>3. VersionsInv /\ FilesInv
    BY EmptyFiles DEF Init, VersionsInv, NotNewer, FilesInv, Covers, Late
  <2> QED
    BY <2>1, <2>2, <2>3 DEF IInv
<1>2. TypeOK /\ IInv /\ [Next]_vars => (TypeOK /\ IInv)'
  BY TypeStep, ControlStep, MarkerStep, CutStep, VersionsStep, FilesStep DEF IInv
<1> QED
  BY <1>1, <1>2, PTL DEF Spec

\* Directories, records and counters keep their types.
THEOREM TypeCorrect == Spec => []TypeOK
BY Invariant, PTL

\* The archive never has a transcript that speaks of a newer work file than the
\* archived one, but for a flush torn at the work file: copyRegularEntry removes
\* and writes file by file, and flush has the transcript last.
THEOREM ArchiveCovers == Spec => []TranscriptNotAhead
<1>1. IInv => TranscriptNotAhead
  BY DEF IInv, FilesInv, Covers, TranscriptNotAhead
<1> QED
  BY <1>1, Invariant, PTL

\* After an accepted /new no Session works on a transcript from before it, but
\* for the abnormal ends that undone records.
THEOREM NewIsHonoured == Spec => []NewCutsTranscript
<1>1. TypeOK /\ IInv => NewCutsTranscript
  <2> SUFFICES ASSUME TypeOK, IInv, job \in {"run", "turn", "flush", "end"},
                      local[holder].session # None, ~undone
               PROVE  local[holder].session.began > cut
    BY DEF NewCutsTranscript
  <2>1. CASE cut > 0
    BY <2>1 DEF IInv, CutInv, BeganAfter, Late
  <2>2. CASE cut = 0
    <3>1. holder \in Process
      BY DEF IInv, Control, TypeOK
    <3>2. local[holder].session.began \in Nat \ {0}
      BY <3>1 DEF TypeOK, Directory, Transcript
    <3> QED
      BY <2>2, <3>2
  <2> QED
    BY <2>1, <2>2 DEF TypeOK
<1> QED
  BY <1>1, Invariant, PTL

\* Only clearRotateMarker takes a marker away, and only one that prepareWorkdir
\* has rotated the transcript for: #putRecord, End and /new carry it over.
THEOREM MarkerIsKept == Spec => MarkerIsConsumed
<1>1. ASSUME TypeOK, IInv, [Next]_vars
      PROVE  [HasMarker(record) /\ ~HasMarker(record') =>
                (clearing = "read" /\ record.marker <= seen.marker) \/ undone']_vars
  <2> SUFFICES ASSUME Next, HasMarker(record), ~HasMarker(record')
               PROVE  (clearing = "read" /\ record.marker <= seen.marker) \/ undone'
    BY <1>1
  <2> USE <1>1, BoundsAssumption, NoneAssumption
      DEF TypeOK, IInv, Control, MarkerInv, HasMarker, PutRecord
  <2>1. CASE record' = record
    BY <2>1
  <2>2. CASE NewWrite
    <3>1. [marker |-> news, startedAt |-> IF got = None THEN 0 ELSE got.startedAt] \in Record
      BY DEF Record
    <3> QED
      BY <2>2, <3>1 DEF NewWrite
  <2>3. CASE PutWrite
    BY <2>3, PutRecords DEF PutWrite, history
  <2>4. CASE ClearWrite
    BY <2>4 DEF ClearWrite, history
  <2>5. CASE End
    BY <2>5, PutRecords DEF End, history
  <2>6. CASE StrayPut
    BY <2>6 DEF StrayPut
  <2>7. Next => \/ record' = record
                \/ NewWrite \/ PutWrite \/ ClearWrite \/ End \/ StrayPut
    BY DEF Next, NewAcquire, Acquire, NewRead, ReadRecord, RestoreFile, Rotate,
      PutRead, ClearRead, Turn, FlushBegin, FlushFile, Flushed, Fold, Exit,
      OrphanFlush, EarlyExit, Crash, control
  <2> QED
    BY <2>1, <2>2, <2>3, <2>4, <2>5, <2>6, <2>7
<1> QED
  BY <1>1, Invariant, PTL DEF Spec, MarkerIsConsumed

=============================================================================
