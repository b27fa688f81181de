------------------------------- MODULE HlsLink -------------------------------
(***************************************************************************)
(* An HlsPlayer plays what an HlsMaker makes, through the HTTP server      *)
(* (Http/HttpFileManager.cpp).  The server knows the player by a cookie,   *)
(* which counts it as a viewer of the source it found first; an index that *)
(* does not exist yet is waited for.                                       *)
(***************************************************************************)
EXTENDS HlsMaker, HlsPlayer

CONSTANT Probes     \* segments that NewSegmentsFetched asks about
ASSUME LinkAssumption == Probes \subseteq Segments

VARIABLES cookie,   \* what the server keeps of the player: source found (0: none), attached
          reply     \* its kind (none, parked: the source will answer, found, notFound), index
linkVars == <<cookie, reply>>
vars == <<makerVars, playerVars, linkVars>>

NoCookie == [found |-> 0, attached |-> FALSE]
Nothing == [kind |-> "none", index |-> NoIndex]
Parked == [kind |-> "parked", index |-> NoIndex]
NotFound == [kind |-> "notFound", index |-> NoIndex]
Found(list) == [kind |-> "found", index |-> list]

LinkTypeOK ==
  /\ HlsMakerTypeOK
  /\ cookie.found \in 0..MaxGen /\ cookie.attached \in BOOLEAN
  /\ reply.kind \in {"none", "parked", "notFound", "found"}

------------------------------------------------------------------------------
(* The server *)

\* The index as a file.
FromDisk == IF inFile THEN Found(index) ELSE NotFound

\* accessFile.  With the source that the cookie found, the index in memory; if
\* that source is gone, the file; else the source is looked up, and attached to.
Answer ==
  /\ asking /\ reply = Nothing /\ phase # "over"
  /\ \/ /\ cookie.found = gen /\ alive
        /\ reply' = IF inMemory THEN Found(index) ELSE FromDisk
        /\ UNCHANGED cookie
     \/ /\ cookie.found # 0 /\ ~(cookie.found = gen /\ alive)
        /\ reply' = FromDisk
        /\ UNCHANGED cookie
     \/ /\ cookie.found = 0 /\ src.registered
        /\ cookie' = [found |-> gen, attached |-> TRUE]
        /\ reply' = IF inMemory THEN Found(index) ELSE Parked
     \/ /\ cookie.found = 0 /\ ~src.registered
        /\ reply' = FromDisk
        /\ UNCHANGED cookie
  /\ UNCHANGED <<makerVars, playerVars>>

\* The cookie expires when nothing has been asked for a minute.
CookieExpires ==
  /\ cookie # NoCookie /\ ~asking /\ busy = 0
  /\ cookie' = NoCookie
  /\ UNCHANGED <<makerVars, playerVars, reply>>

\* The number of readers is reported to the recorder.
Report == ReaderChanged(cookie.attached) /\ UNCHANGED <<playerVars, linkVars>>

\* setIndexFile answers those who wait.
Waiting(new) == IF reply = Parked THEN Found(new) ELSE reply

MakerStep ==
  /\ \/ /\ NewSegment \/ EndSegment
        /\ reply' = IF maker.open # 0 THEN Waiting(index') ELSE reply
        /\ UNCHANGED cookie
     \/ /\ ClearCache
        /\ reply' = IF maker.open # 0 THEN Waiting(LastBeforeClearing.index) ELSE reply
        /\ UNCHANGED cookie
     \/ /\ Stop
        /\ reply' = IF maker.open # 0 THEN Waiting(index') ELSE reply
        /\ cookie' = [cookie EXCEPT !.attached = FALSE]
     \/ /\ Start \/ DeleteFolder
        /\ UNCHANGED linkVars
  /\ UNCHANGED playerVars

------------------------------------------------------------------------------
(* The player *)

IndexArrives ==
  /\ reply.kind = "found" /\ IndexReceived(reply.index.seq, reply.index.segs)
  /\ reply' = Nothing /\ UNCHANGED <<makerVars, cookie>>

\* 404, no answer in time, or a broken connection.
IndexFails ==
  /\ IndexFailed
  /\ reply' = Nothing /\ UNCHANGED <<makerVars, cookie>>

PlayerStep ==
  /\ \/ Play \/ SegmentCompleted \/ SegmentTimer \/ IndexTimer
     \/ TracksReady \/ DemuxerEnds \/ Teardown
  /\ UNCHANGED <<makerVars, linkVars>>

LinkInit == MakerInit /\ PlayerInit /\ cookie = NoCookie /\ reply = Nothing
LinkNext ==
  \/ Answer \/ CookieExpires \/ Report \/ MakerStep
  \/ IndexArrives \/ IndexFails \/ PlayerStep

\* What runs on: pollers, timers, and the limit of a request; nothing is
\* assumed of the stream, the network and the caller.
LinkFairness ==
  /\ WF_vars(IndexArrives \/ IndexFails)
  /\ WF_vars(SegmentCompleted /\ UNCHANGED <<makerVars, linkVars>>)
  /\ WF_vars(DemuxerEnds /\ UNCHANGED <<makerVars, linkVars>>)
  /\ WF_vars(SegmentTimer /\ UNCHANGED <<makerVars, linkVars>>)
  /\ WF_vars(IndexTimer /\ UNCHANGED <<makerVars, linkVars>>)
  /\ WF_vars(DeleteFolder /\ UNCHANGED <<playerVars, linkVars>>)

LinkSpec == LinkInit /\ [][LinkNext]_vars /\ LinkFairness

------------------------------------------------------------------------------

\* When the stream is gone for good and its folder deleted, the player ends:
\* who was told of a success, or of nothing yet, is told of a failure or a
\* shutdown (HlsPlayer.cpp:47-50).
EndNoticed == <>[](~alive) => <>[](phase = "idle" \/ told.result = "failure" \/ told.shutdown)

\* A segment that an index with a new number names is fetched, unless it drops
\* out of the index, a later one has been, or the player ends
\* (HlsPlayer.cpp:152-170).
NewSegmentsFetched ==
  \A s \in Probes :
    (phase = "playing" /\ alive /\ inMemory /\ s \in ToSet(index.segs) /\ index.seq # lastSeq)
      ~> (latest >= s \/ phase # "playing" \/ ~inMemory \/ s \notin ToSet(index.segs))
=============================================================================
