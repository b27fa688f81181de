------------------------------- MODULE HlsMaker -------------------------------
(***************************************************************************)
(* The live HLS output of a stream (Record/HlsRecorder.h, HlsMaker.cpp,    *)
(* HlsMakerImp.cpp, HlsMediaSource.cpp): segments on disk, an index of the *)
(* last few of them in memory and on disk, a source that players find.     *)
(*                                                                         *)
(* Recorders of one stream follow one another (gen), all of them in one    *)
(* folder.  A segment is a number that counts all that were ever opened,   *)
(* as their names, which carry the time, are all different.                *)
(***************************************************************************)
EXTENDS Integers, Sequences, FiniteSets, SequencesExt

CONSTANTS SegNumber,   \* segments an index names (hls.segNum)
          SegRetain,   \* segments kept on disk beyond these (hls.segRetain)
          Demand,      \* protocol.hls_demand
          MaxGen,      \* recorders, one after the other
          MaxSegs      \* segments of all of them

ASSUME HlsAssumption ==
  /\ SegNumber \in Nat \ {0} /\ SegRetain \in Nat /\ Demand \in BOOLEAN
  /\ MaxGen \in Nat \ {0} /\ MaxSegs \in Nat \ {0}

VARIABLES gen,        \* which recorder it is
          alive,      \* it has not been destroyed
          maker,      \* its HlsMaker: fileIndex, open (0: none), segs, enabled, clearing
          src,        \* its source: registered, counted (what it was last told)
          made,       \* segments opened so far by all recorders
          disk,       \* segments in the folder
          index,      \* the index last written
          inFile,     \* it is in the folder
          inMemory,   \* it is in the source
          deletions,  \* delay tasks that will delete the folder
          struck      \* (ghost) one of them has hit the recorder after its own
makerVars == <<gen, alive, maker, src, made, disk, index, inFile, inMemory, deletions, struck>>

Segments == 1..MaxSegs
NoIndex == [seq |-> 0, segs |-> <<>>, eof |-> FALSE]
NewMaker == [fileIndex |-> 0, open |-> 0, segs |-> <<>>, enabled |-> TRUE, clearing |-> FALSE]

HlsMakerTypeOK ==
  /\ gen \in 1..MaxGen /\ made \in 0..MaxSegs /\ deletions \in 0..MaxGen
  /\ {alive, inFile, inMemory, struck} \subseteq BOOLEAN
  /\ maker \in [fileIndex : 0..MaxSegs, open : 0..MaxSegs, segs : Seq(Segments),
                enabled : BOOLEAN, clearing : BOOLEAN]
  /\ src \in [registered : BOOLEAN, counted : BOOLEAN]
  /\ index \in [seq : 0..MaxSegs, segs : Seq(Segments), eof : BOOLEAN]
  /\ disk \subseteq Segments

\* The segment to which the maker gave this number.
Segment(number) == made - maker.fileIndex + number + 1

OldSegmentsEarly ==      \* broken variant: one segment too many
  IF maker.fileIndex > SegNumber + SegRetain - 1
  THEN {Segment(maker.fileIndex - SegNumber - SegRetain)} ELSE {}

\* What delOldSegment deletes: when it runs, the segment that has just been
\* closed is the last one opened.
OldSegments ==
  IF maker.fileIndex > SegNumber + SegRetain
  THEN {Segment(maker.fileIndex - SegNumber - SegRetain - 1)} ELSE {}

Listed ==
  LET all == Append(maker.segs, maker.open)
  IN  IF maker.fileIndex > SegNumber THEN Tail(all) ELSE all

\* makeIndexFile
IndexOf(segs, eof) ==
  [seq |-> IF maker.fileIndex > SegNumber THEN maker.fileIndex - SegNumber ELSE 0,
   segs |-> segs, eof |-> eof]

\* flushLastSegment, with onWriteHls: the index goes to the folder and to the
\* source, which registers with its first one.
Flushed(eof) ==
  IF maker.open = 0
  THEN [segs |-> maker.segs, disk |-> disk, index |-> index, inFile |-> inFile,
        inMemory |-> inMemory, registered |-> src.registered]
  ELSE [segs |-> Listed, disk |-> disk \ OldSegments, index |-> IndexOf(Listed, eof),
        inFile |-> TRUE, inMemory |-> TRUE, registered |-> TRUE]

Keep(f) ==
  /\ disk' = f.disk /\ index' = f.index /\ inFile' = f.inFile /\ inMemory' = f.inMemory
  /\ src' = [src EXCEPT !.registered = f.registered]

\* A recorder with frames to write: it wants them, and has no old ones to clear.
Working == alive /\ (maker.enabled \/ ~Demand) /\ ~(maker.clearing /\ Demand)

\* A key frame, when the segment has its length or there is none: addNewSegment.
NewSegment ==
  /\ Working /\ made < MaxSegs
  /\ LET f == Flushed(FALSE)
     IN  /\ Keep([f EXCEPT !.disk = @ \cup {made + 1}])
         /\ maker' = [maker EXCEPT !.segs = f.segs, !.open = made + 1, !.fileIndex = @ + 1]
  /\ made' = made + 1
  /\ UNCHANGED <<gen, alive, deletions, struck>>

\* resetTracks closes the segment early, on or off: inputData without data.
EndSegment ==
  /\ alive /\ maker.open # 0
  /\ LET f == Flushed(FALSE)
     IN Keep(f) /\ maker' = [maker EXCEPT !.segs = f.segs, !.open = 0]
  /\ UNCHANGED <<gen, alive, made, deletions, struck>>

\* inputFrame after the last viewer has left: clearCache, at once, and no index.
ClearCache ==
  /\ alive /\ Demand /\ maker.clearing
  /\ maker' = [NewMaker EXCEPT !.enabled = maker.enabled]
  /\ disk' = {} /\ index' = NoIndex /\ inFile' = FALSE /\ inMemory' = FALSE
  /\ src' = [src EXCEPT !.registered = TRUE]
  /\ struck' = FALSE
  /\ UNCHANGED <<gen, alive, made, deletions>>

\* What whoever waits for an index is given when the cache is cleared: the
\* segment under way is closed first.
LastBeforeClearing == Flushed(FALSE)

\* onReaderChanged: a number of readers, reported later, is judged.
Switch(counted) ==
  maker' = [maker EXCEPT !.enabled = counted \/ ~Demand,
                         !.clearing = @ \/ (~counted /\ Demand)]

ReaderChanged(counted) ==
  /\ alive /\ src.registered /\ src.counted # counted
  /\ src' = [src EXCEPT !.counted = counted]
  /\ Switch(counted)
  /\ UNCHANGED <<gen, alive, made, disk, index, inFile, inMemory, deletions, struck>>

\* The recorder is destroyed: the last segment is closed, an index with an end
\* is written, and the folder is deleted some time later.
Stop ==
  /\ alive
  /\ alive' = FALSE
  /\ LET f == Flushed(TRUE)
     IN /\ disk' = f.disk /\ index' = f.index /\ inFile' = f.inFile
  /\ maker' = NewMaker
  /\ inMemory' = FALSE
  /\ src' = [registered |-> FALSE, counted |-> FALSE]
  /\ deletions' = deletions + 1
  /\ UNCHANGED <<gen, made, struck>>

\* Another one for the same stream: it begins with an empty folder.
Start ==
  /\ ~alive /\ gen < MaxGen
  /\ alive' = TRUE /\ gen' = gen + 1
  /\ disk' = {} /\ index' = NoIndex /\ inFile' = FALSE
  /\ struck' = FALSE
  /\ UNCHANGED <<maker, src, made, inMemory, deletions>>

\* The delay task deletes the folder, whosever it is by now.
DeleteFolder ==
  /\ deletions > 0
  /\ deletions' = deletions - 1
  /\ disk' = {} /\ inFile' = FALSE
  /\ struck' = (struck \/ alive)
  /\ UNCHANGED <<gen, alive, maker, src, made, index, inMemory>>

MakerInit ==
  /\ gen = 1 /\ alive = TRUE /\ maker = NewMaker
  /\ src = [registered |-> FALSE, counted |-> FALSE]
  /\ made = 0 /\ disk = {} /\ index = NoIndex /\ inFile = FALSE /\ inMemory = FALSE
  /\ deletions = 0 /\ struck = FALSE

------------------------------------------------------------------------------

\* Closed or open, the segments that the recorder's latest index and the
\* SegRetain indexes before it name.
Window ==
  LET opened == IF maker.open = 0 THEN 0 ELSE 1
      first  == made - SegNumber - SegRetain - opened + 1
  IN  {s \in Segments : s > made - maker.fileIndex /\ s >= first /\ s <= made}

\* What the folder holds is what a player may still ask for: the segments of
\* the latest index and of the SegRetain indexes before it, so that a player
\* who is that late finds them (HlsMaker.cpp:109), and nothing older; once the
\* recorder is gone, nothing that no task will delete.  Only the task of an
\* earlier recorder breaks it.
FolderIsWindow ==
  IF alive THEN disk \subseteq Window /\ (struck \/ disk = Window)
  ELSE disk # {} => deletions > 0

\* The number in the index is that of the first segment it names
\* (EXT-X-MEDIA-SEQUENCE), though one is computed from the number of segments
\* opened and the other is what is left of a list, through early ends and
\* clearings (HlsMaker.cpp:35, 101).
SequenceNamesFirst ==
  alive /\ inMemory =>
    /\ Len(index.segs) \in 1..SegNumber
    /\ index.segs[1] = Segment(index.seq)
    /\ \A i \in 2..Len(index.segs) : index.segs[i] = index.segs[i - 1] + 1

\* A segment that an index names is there, whichever recorder wrote it
\* (HlsMaker.cpp:109: deletion is put off so that players can still download).
\* It is violated: the task by which a recorder has its folder deleted later
\* deletes that of the next one of the stream.
ListedIsThere == alive /\ inMemory => ToSet(index.segs) \subseteq disk
=============================================================================
