---------------------------- MODULE AsyncLogging ----------------------------
(***************************************************************************)
(* brsdk::AsyncLogging: any thread appends lines to the current buffer,    *)
(* and the logging thread takes the full ones, writes them to the file and *)
(* gives two empty buffers back.  Lines are numbered in the order of their *)
(* append, are equally long, and are never as long as a buffer.            *)
(*                                                                         *)
(* append and the locked part of threadFunc are one step each.  What the   *)
(* logging thread does between two of its locked parts touches only its    *)
(* own variables and is one step as well.                                  *)
(***************************************************************************)
EXTENDS Integers, SequencesExt

CONSTANTS BufferLines,   \* lines in a buffer
          MaxToWrite,    \* 25: more buffers than that are not written
          KeptBuffers,   \* 2: those that are written nevertheless
          MaxLines,      \* bound on the lines appended
          NoBuffer       \* the null BufferPtr

ASSUME AsyncLoggingAssumption ==
  /\ BufferLines \in Nat \ {0}
  /\ KeptBuffers \in Nat \ {0, 1}
  /\ MaxToWrite \in Nat /\ MaxToWrite >= KeptBuffers
  /\ MaxLines \in Nat
  /\ NoBuffer \notin Seq(Nat)

VARIABLES
  logging,         \* running_
  logThread,       \* where threadFunc is
  currentBuffer, nextBuffer,   \* currentBuffer_ and nextBuffer_
  buffers,         \* buffers_
  newBuffer1, newBuffer2,
  buffersToWrite,
  appended,        \* lines appended so far
  file,            \* the buffers that have been written, and Notices
  dropped,         \* the lines that have been dropped
  stopping         \* the thread that stops the logging: "no", "join", "done"

logVars == <<logging, logThread, currentBuffer, nextBuffer, buffers, newBuffer1,
             newBuffer2, buffersToWrite, appended, file, dropped, stopping>>
writerVars == <<newBuffer1, newBuffer2, buffersToWrite>>

Buffer == Seq(Nat)

(* The message "Dropped log messages"; the lines are numbered from 1. *)
Notice == <<0>>

Lines(bs) == UNION {Range(b) : b \in Range(bs) \ {Notice}}

LogTypeOK ==
  /\ logging \in BOOLEAN
  /\ logThread \in {"off", "test", "lock", "wait", "woken", "write", "done"}
  /\ currentBuffer \in Buffer
  /\ nextBuffer \in Buffer \cup {NoBuffer}
  /\ newBuffer1 \in Buffer \cup {NoBuffer}
  /\ newBuffer2 \in Buffer \cup {NoBuffer}
  /\ buffers \in Seq(Buffer) /\ buffersToWrite \in Seq(Buffer)
  /\ appended \in 0..MaxLines
  /\ file \in Seq(Buffer)
  /\ dropped \subseteq 1..MaxLines
  /\ stopping \in {"no", "join", "done"}

LogInit ==
  /\ logging = FALSE
  /\ logThread = "off"
  /\ currentBuffer = <<>> /\ nextBuffer = <<>>
  /\ buffers = <<>>
  /\ newBuffer1 = <<>> /\ newBuffer2 = <<>>
  /\ buffersToWrite = <<>>
  /\ appended = 0
  /\ file = <<>>
  /\ dropped = {}
  /\ stopping = "no"

-----------------------------------------------------------------------------
(* The callers. *)

Notified == IF logThread = "wait" THEN "woken" ELSE logThread

(* Condition::notify is called only when a buffer is full. *)
AppendLine ==
  /\ appended < MaxLines
  /\ appended' = appended + 1
  /\ IF Len(currentBuffer) < BufferLines
     THEN /\ currentBuffer' = Append(currentBuffer, appended + 1)
          /\ UNCHANGED <<buffers, nextBuffer, logThread>>
     ELSE /\ buffers' = Append(buffers, currentBuffer)
          /\ currentBuffer' = <<appended + 1>>
          /\ nextBuffer' = NoBuffer
          /\ logThread' = Notified
  /\ UNCHANGED <<logging, writerVars, file, dropped, stopping>>

StartLogging ==
  /\ logThread = "off"
  /\ logging' = TRUE
  /\ logThread' = "test"
  /\ UNCHANGED <<currentBuffer, nextBuffer, buffers, writerVars, appended, file,
                 dropped, stopping>>

(* stop notifies without the mutex: the logging thread may be past its test *)
(* of running_ and not yet waiting.                                        *)
StopClears ==
  /\ logThread # "off" /\ stopping = "no"
  /\ logging' = FALSE
  /\ stopping' = "join"
  /\ logThread' = Notified
  /\ UNCHANGED <<currentBuffer, nextBuffer, buffers, writerVars, appended, file,
                 dropped>>

StopJoins ==
  /\ stopping = "join" /\ logThread = "done"
  /\ stopping' = "done"
  /\ UNCHANGED <<logging, logThread, currentBuffer, nextBuffer, buffers,
                 writerVars, appended, file, dropped>>

-----------------------------------------------------------------------------
(* threadFunc. *)

sharedVars == <<logging, currentBuffer, nextBuffer, buffers, appended, stopping>>

TestLogging ==
  /\ logThread = "test"
  /\ logThread' = IF logging THEN "lock" ELSE "done"
  /\ UNCHANGED <<sharedVars, writerVars, file, dropped>>

TakeBuffers ==
  /\ buffersToWrite' = Append(buffers, currentBuffer)
  /\ buffers' = <<>>
  /\ currentBuffer' = newBuffer1
  /\ newBuffer1' = NoBuffer
  /\ IF nextBuffer = NoBuffer
     THEN nextBuffer' = newBuffer2 /\ newBuffer2' = NoBuffer
     ELSE UNCHANGED <<nextBuffer, newBuffer2>>
  /\ logThread' = "write"
  /\ UNCHANGED <<logging, appended, stopping, file, dropped>>

LockBuffers ==
  /\ logThread = "lock"
  /\ IF buffers = <<>>
     THEN /\ logThread' = "wait"
          /\ UNCHANGED <<sharedVars, writerVars, file, dropped>>
     ELSE TakeBuffers

(* Faulty: the wait has no limit. *)
NeverTimesOut == FALSE

(* waitForSeconds ends: after flushInterval_, or at any moment. *)
Timeout ==
  /\ logThread = "wait"
  /\ logThread' = "woken"
  /\ UNCHANGED <<sharedVars, writerVars, file, dropped>>

WokenTakes == logThread = "woken" /\ TakeBuffers

TooMany == Len(buffersToWrite) > MaxToWrite

(* Faulty: the loss is not announced. *)
Silently == <<>>

Announced == IF TooMany THEN <<Notice>> ELSE <<>>

Kept == IF TooMany THEN SubSeq(buffersToWrite, 1, KeptBuffers) ELSE buffersToWrite

(* Only the last buffer, which was currentBuffer_, can be empty; then        *)
(* nothing is written of it.                                               *)
Written == IF Last(Kept) = <<>> THEN Front(Kept) ELSE Kept

(* Faulty: the buffer still has its lines. *)
NotReset(b) == b

Reset(b) == <<>>

(* The last of the first two buffers becomes newBuffer1 and the one before  *)
(* it newBuffer2, if the callers have taken that.                          *)
Recycle ==
  LET left == SubSeq(Kept, 1, IF Len(Kept) > 2 THEN 2 ELSE Len(Kept))
      n    == Len(left)
  IN /\ newBuffer1' = Reset(left[n])
     /\ newBuffer2' = IF newBuffer2 # NoBuffer THEN newBuffer2
                      ELSE IF n = 2 THEN Reset(left[1])
                      ELSE NoBuffer

WriteBuffers ==
  /\ logThread = "write"
  /\ file' = file \o Announced \o Written
  /\ dropped' = dropped \cup (Lines(buffersToWrite) \ Lines(Kept))
  /\ Recycle
  /\ buffersToWrite' = <<>>
  /\ logThread' = "test"
  /\ UNCHANGED sharedVars

-----------------------------------------------------------------------------
LogThread == TestLogging \/ LockBuffers \/ Timeout \/ WokenTakes \/ WriteBuffers

LogFinished == stopping = "done" /\ UNCHANGED logVars

LogNext == \/ AppendLine \/ StartLogging \/ StopClears \/ StopJoins
           \/ LogThread \/ LogFinished

LogSpec == LogInit /\ [][LogNext]_logVars

(* The logging thread runs; its wait has a limit. *)
LogFairness == WF_logVars(LogThread) /\ WF_logVars(StopJoins)

FairLogSpec == LogSpec /\ LogFairness

-----------------------------------------------------------------------------
(* Properties. *)

Unwritten == Lines(buffersToWrite) \cup Lines(buffers) \cup Range(currentBuffer)

Increasing(bs) ==
  \A i, j \in DOMAIN bs : bs[i] # Notice /\ bs[j] # Notice =>
    \A x \in DOMAIN bs[i], y \in DOMAIN bs[j] :
      i < j \/ (i = j /\ x < y) => bs[i][x] < bs[j][y]

(* The lines are in the file in the order of their append and none twice,   *)
(* each is written, waiting or dropped, and nothing is dropped but what    *)
(* follows a notice and the buffers kept after it.                         *)
LinesInOrder ==
  /\ Increasing(file)
  /\ Lines(file) \cup Unwritten \cup dropped = 1..appended
  /\ Lines(file) \cap dropped = {} /\ Lines(file) \cap Unwritten = {}
  /\ \A i \in DOMAIN file :
       file[i] # Notice /\ (\E n \in Range(file[i]) : n + 1 \in dropped)
         => i > KeptBuffers /\ file[i - KeptBuffers] = Notice

(* The assertions of threadFunc: at every round it has two empty buffers,   *)
(* whatever the callers took, and there is a buffer to write.              *)
BuffersReady ==
  /\ logThread \in {"test", "lock", "wait", "woken"} =>
       newBuffer1 = <<>> /\ newBuffer2 = <<>> /\ buffersToWrite = <<>>
  /\ currentBuffer # NoBuffer

(* What the callers and the logging thread pass to each other is whole: no  *)
(* line is lost or doubled between the buffers, and no buffer runs out.    *)
LoggingSound == LogTypeOK /\ LinesInOrder /\ BuffersReady

(* A line is written, or dropped, unless the logging is stopped first; stop *)
(* itself returns.                                                         *)
LinesGetWritten ==
  /\ \A n \in 1..MaxLines :
       n <= appended /\ logging ~> n \in Lines(file) \cup dropped \/ ~logging
  /\ stopping = "join" ~> stopping = "done"
=============================================================================
