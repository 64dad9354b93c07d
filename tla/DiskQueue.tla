----------------------------- MODULE DiskQueue -----------------------------
(***************************************************************************)
(* The persistent disk queue (publisher/queue/diskqueue) across crashes    *)
(* and restarts.                                                           *)
(*                                                                         *)
(* On disk: segment files, each a sequence of frames (one event each), and *)
(* state.dat, the persisted read position (segmentID, frameIndex).  A      *)
(* frame stands for its bytes: byteIndex is the frameIndex-th frame        *)
(* boundary past the header, so resetting byteIndex when frameIndex = 0    *)
(* (queue.go 142-150) only moves the reader from the header to the first   *)
(* frame and is not visible here.                                          *)
(*                                                                         *)
(* NewQueue (queue.go) is the Start action: it loads the position, scans   *)
(* the segments, picks the next segment id, moves segments older than the  *)
(* position to the acked list and starts reading at the position's offset. *)
(* The core loop and the writer, reader and deleter loops (spec 4.2) are   *)
(* not in this repository: Write, Read, Ack and Delete follow the spec.    *)
(* Crash stops the process at any point (Close followed by exit, or a      *)
(* kill): everything but the files is lost.                                *)
(***************************************************************************)
EXTENDS Naturals, Sequences, FiniteSets, FiniteSetsExt, SequencesExt

CONSTANTS
  MaxEvents,      \* bound: events published over all runs
  MaxSegFrames,   \* frames that fit in one segment (MaxSegmentSize)
  MaxStarts,      \* bound: process starts (the first start included)
  NoSegment       \* the writer has no open segment

ASSUME /\ MaxEvents \in Nat \ {0}
       /\ MaxSegFrames \in Nat \ {0}
       /\ MaxStarts \in Nat \ {0}

VARIABLES
  \* files
  disk,           \* segment id -> sequence of events, for files on disk
  stateFile,      \* contents of state.dat
  \* process memory
  up,             \* the queue is running
  nextID,         \* segments.nextID
  writing,        \* the segment the writer appends to, or NoSegment
  reading,        \* ids of segments still to be read, in order
  readOffset,     \* segments.nextReadPosition: frame to read in Head(reading)
  inflight,       \* frames handed to consumers, not yet acknowledged
  pos,            \* acks.nextPosition: position after the last acked frame
  runAcks,        \* events acknowledged since this process started
  \* history and bounds
  nextEvent,      \* the next event to publish
  ackedEvents,    \* events a consumer has acknowledged
  persistedAcks,  \* events covered by an ack whose position reached state.dat
  fellBack,       \* some start could not read state.dat and fell back
  starts          \* process starts so far

fileVars    == <<disk, stateFile>>
memVars     == <<up, nextID, writing, reading, readOffset, inflight, pos,
                runAcks>>
historyVars == <<nextEvent, ackedEvents, persistedAcks, fellBack, starts>>
vars == <<fileVars, memVars, historyVars>>

Position == [segmentID : Nat, frameIndex : Nat]
Frame == [seg : Nat, idx : Nat, ev : Nat]

\* Mutant: segments listed newest first.
AscendingReversed(S) == SetToSortSeq(S, >)

\* Segment ids in ascending order (scanExistingSegments sorts by id).
Ascending(S) == SetToSortSeq(S, <)

-----------------------------------------------------------------------------
(* NewQueue: start the queue over the files left by the previous run *)

ZeroPosition == [segmentID |-> 0, frameIndex |-> 0]

\* queuePositionFromPath: the position in state.dat (a missing file reads
\* as the zero position, which Init writes); or the read fails, NewQueue
\* only logs a warning and goes on from the zero position, i.e. the oldest
\* segment.  (See the module header for byteIndex.)
LoadOutcomes == {[p |-> stateFile, failed |-> FALSE],
                 [p |-> ZeroPosition, failed |-> TRUE]}

\* Mutant: the next id is taken one below the newest segment.
NextSegmentIDBelowLast(ids) == IF ids = {} THEN 0 ELSE Max(ids) - 1

\* nextSegmentID is one past the newest existing segment, or 0 when there
\* is none.
NextSegmentID(ids) == IF ids = {} THEN 0 ELSE Max(ids) + 1

\* Segments older than the position go straight to the acked list.
AckedAtStart(ids, p) == {s \in ids : s < p.segmentID}

\* Mutant: the position is also reset when it is in the first segment.
StartPositionAtSegmentStart(rest, p) ==
  IF rest # {} /\ p.segmentID <= Min(rest)
  THEN [segmentID |-> Min(rest), frameIndex |-> 0]
  ELSE p

\* If the position is older than every remaining segment, it moves to the
\* start of the first one.
StartPosition(rest, p) ==
  IF rest # {} /\ p.segmentID < Min(rest)
  THEN [segmentID |-> Min(rest), frameIndex |-> 0]
  ELSE p

Start ==
  /\ ~up
  /\ starts < MaxStarts
  /\ \E lo \in LoadOutcomes :
       LET ids  == DOMAIN disk
           rest == ids \ AckedAtStart(ids, lo.p)
           p    == StartPosition(rest, lo.p)
       IN /\ nextID' = NextSegmentID(ids)
          /\ reading' = Ascending(rest)
          /\ readOffset' = p.frameIndex
          /\ pos' = p
          /\ fellBack' = (fellBack \/ lo.failed)
  /\ up' = TRUE
  /\ writing' = NoSegment
  /\ inflight' = <<>>
  /\ runAcks' = {}
  /\ starts' = starts + 1
  /\ UNCHANGED <<fileVars, nextEvent, ackedEvents, persistedAcks>>

-----------------------------------------------------------------------------
(* The running queue (spec 4.2) *)

\* A producer's event is framed and appended by the writer loop; when the
\* open segment is full (or none is open) the writer rolls to a new segment
\* with id nextID, which joins the end of the reading list.
Write ==
  /\ up
  /\ nextEvent <= MaxEvents
  /\ nextEvent' = nextEvent + 1
  /\ IF writing = NoSegment \/ Len(disk[writing]) = MaxSegFrames
     THEN /\ disk' = [s \in DOMAIN disk \cup {nextID} |->
                        IF s = nextID THEN <<nextEvent>> ELSE disk[s]]
          /\ writing' = nextID
          /\ nextID' = nextID + 1
          /\ reading' = Append(reading, nextID)
     ELSE /\ disk' = [disk EXCEPT ![writing] = Append(@, nextEvent)]
          /\ UNCHANGED <<writing, nextID, reading>>
  /\ UNCHANGED <<stateFile, up, readOffset, inflight, pos, runAcks,
                 ackedEvents, persistedAcks, fellBack, starts>>

\* The reader loop hands the frame at the read offset of the first reading
\* segment to a consumer.
Read ==
  /\ up
  /\ reading # <<>>
  /\ LET s == Head(reading)
     IN /\ s \in DOMAIN disk
        /\ readOffset < Len(disk[s])
        /\ inflight' = Append(inflight, [seg |-> s, idx |-> readOffset,
                                         ev |-> disk[s][readOffset + 1]])
        /\ readOffset' = readOffset + 1
  /\ UNCHANGED <<fileVars, up, nextID, writing, reading, pos, runAcks,
                 historyVars>>

\* A segment the writer has left and the reader has read to its end is
\* done with reading; the next segment is read from its start.
FinishSegment ==
  /\ up
  /\ reading # <<>>
  /\ Head(reading) # writing
  /\ readOffset >= Len(disk[Head(reading)])
  /\ reading' = Tail(reading)
  /\ readOffset' = 0
  /\ UNCHANGED <<fileVars, up, nextID, writing, inflight, pos, runAcks,
                 historyVars>>

\* batch.Done for the oldest delivered frame: the position moves past it
\* and is written to state.dat, best effort (the write may fail).  Frames
\* are acknowledged in the order they were read, so a persisted position
\* covers every event acknowledged since this process started.
Ack ==
  /\ up
  /\ inflight # <<>>
  /\ LET f == Head(inflight)
         p == [segmentID |-> f.seg, frameIndex |-> f.idx + 1]
     IN /\ inflight' = Tail(inflight)
        /\ pos' = p
        /\ runAcks' = runAcks \cup {f.ev}
        /\ ackedEvents' = ackedEvents \cup {f.ev}
        /\ \/ /\ stateFile' = p
              /\ persistedAcks' = persistedAcks \cup runAcks'
           \/ UNCHANGED <<stateFile, persistedAcks>>
  /\ UNCHANGED <<disk, up, nextID, writing, reading, readOffset, nextEvent,
                 fellBack, starts>>

\* The deleter loop removes a segment that is neither written nor still
\* to be read and has no frame awaiting acknowledgement.
Delete(s) ==
  /\ up
  /\ s \in DOMAIN disk
  /\ s # writing
  /\ s \notin ToSet(reading)
  /\ \A i \in 1..Len(inflight) : inflight[i].seg # s
  /\ disk' = [x \in DOMAIN disk \ {s} |-> disk[x]]
  /\ UNCHANGED <<stateFile, memVars, historyVars>>

\* The process stops (Close then exit, or a crash): memory is lost, files
\* stay as they are.
Crash ==
  /\ up
  /\ up' = FALSE
  /\ writing' = NoSegment
  /\ reading' = <<>>
  /\ readOffset' = 0
  /\ inflight' = <<>>
  /\ pos' = [segmentID |-> 0, frameIndex |-> 0]
  /\ runAcks' = {}
  /\ nextID' = 0
  /\ UNCHANGED <<fileVars, historyVars>>

-----------------------------------------------------------------------------

Init ==
  /\ disk = [s \in {} |-> <<>>]
  /\ stateFile = [segmentID |-> 0, frameIndex |-> 0]
  /\ up = FALSE
  /\ nextID = 0
  /\ writing = NoSegment
  /\ reading = <<>>
  /\ readOffset = 0
  /\ inflight = <<>>
  /\ pos = [segmentID |-> 0, frameIndex |-> 0]
  /\ runAcks = {}
  /\ nextEvent = 1
  /\ ackedEvents = {}
  /\ persistedAcks = {}
  /\ fellBack = FALSE
  /\ starts = 0

Next ==
  \/ Start
  \/ Write
  \/ Read
  \/ FinishSegment
  \/ Ack
  \/ \E s \in DOMAIN disk : Delete(s)
  \/ Crash

Spec == Init /\ [][Next]_vars

-----------------------------------------------------------------------------
(* Properties *)

TypeOK ==
  /\ DOMAIN disk \subseteq Nat
  /\ \A s \in DOMAIN disk : disk[s] \in Seq(1..MaxEvents)
  /\ stateFile \in Position /\ pos \in Position
  /\ up \in BOOLEAN
  /\ nextID \in Nat
  /\ writing \in Nat \cup {NoSegment}
  /\ reading \in Seq(Nat) /\ readOffset \in Nat
  /\ inflight \in Seq(Frame)
  /\ nextEvent \in 1..MaxEvents + 1
  /\ runAcks \subseteq ackedEvents
  /\ ackedEvents \subseteq 1..MaxEvents /\ persistedAcks \subseteq ackedEvents
  /\ fellBack \in BOOLEAN
  /\ starts \in 0..MaxStarts

\* Events held in some segment file.
OnDisk == UNION {ToSet(disk[s]) : s \in DOMAIN disk}

\* Spec 1 / 8 (at-least-once): an event the queue accepted is never lost
\* before a consumer acknowledged it, across any number of restarts: it is
\* acknowledged or still in a segment file.
NoLossOfUnacked ==
  \A e \in 1..(nextEvent - 1) : e \in ackedEvents \/ e \in OnDisk

\* Spec 8: an event whose acknowledgement reached state.dat is not handed
\* to a consumer again, whatever restarts and crashes happened since,
\* unless some start could not read state.dat: the fallback to the oldest
\* segment replays, and the positions its run persists may lie behind the
\* lost one, so later runs replay too.
NoRedeliveryOfPersistedAck ==
  [][Read => Last(inflight').ev \notin persistedAcks \/ fellBack]_vars

\* Spec 8 (scenario 4): within one run of the process the reader hands out
\* events in the order they were published: the event read is newer than
\* every event this run has already delivered, whatever segments the
\* restart found on disk and in whatever order NewQueue listed them.
DeliveryInOrder ==
  [][Read => \A e \in runAcks \cup {inflight[i].ev : i \in 1..Len(inflight)} :
              e < Last(inflight').ev]_vars

=============================================================================
