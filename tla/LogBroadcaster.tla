--------------------------- MODULE LogBroadcaster ---------------------------
(***************************************************************************)
(* The log of one build: LogBroadcaster (builder/log.go), which writes a   *)
(* bounded file and hands every chunk to the live listeners, and the HTTP  *)
(* handlers that read it (handler.handleGetLogs).                          *)
(*                                                                         *)
(* Write, Close, SubscribeWithHistory and Unsubscribe hold the             *)
(* broadcaster's lock from begin to end, so each is one step; readers take *)
(* from their channels in steps of their own.  A chunk is its number, and  *)
(* on disk where it ends; the truncation notice is numbered after all.     *)
(***************************************************************************)
EXTENDS Integers, Sequences, FiniteSets, Functions

CONSTANTS
    Readers,        \* requests for this log
    MaxWrites,      \* bound: chunks the build writes
    ChunkSizes,     \* lengths of a chunk
    MaxLogBytes,    \* config.MaxLogBytes
    NoticeSize,     \* length of the truncation notice
    ReadSlack,      \* readLog reads up to MaxLogBytes + ReadSlack bytes
    ChannelSize     \* capacity of a listener's channel

ASSUME LogAssumption ==
    /\ MaxWrites \in Nat
    /\ ChunkSizes \subseteq Nat \ {0}
    /\ {MaxLogBytes, NoticeSize, ReadSlack, ChannelSize} \subseteq Nat \ {0}
    /\ NoticeSize <= ReadSlack      \* 63 and 128 in the code

Notice == MaxWrites + 1

VARIABLES
    file,       \* build.log: the chunks in it, each with its end
    size,       \* LogBroadcaster.size
    truncated,  \* LogBroadcaster.truncated
    closed,     \* LogBroadcaster.closed
    listeners,  \* keys of LogBroadcaster.listeners, by their reader
    written,    \* chunks written so far
    reader,     \* where each handler is
    history,    \* the chunks in what SubscribeWithHistory returned to it
    channel,    \* chunks waiting in its channel
    ended,      \* readers whose channel is closed
    got,        \* chunks it has sent on
    missed,     \* numbers of the chunks its full channel has dropped
    eof,        \* readers that have been sent the "done" event
    panicked    \* a send on a closed channel, or a second close of one

log == <<file, size, truncated, closed, written>>
readers == <<reader, history, got, eof>>
vars == <<file, size, truncated, closed, listeners, written, reader, history,
          channel, ended, got, missed, eof, panicked>>

Init ==
    /\ file = <<>>
    /\ size = 0
    /\ truncated = FALSE
    /\ closed = FALSE
    /\ listeners = {}
    /\ written = 0
    /\ reader = [r \in Readers |-> "idle"]
    /\ history = [r \in Readers |-> <<>>]
    /\ channel = [r \in Readers |-> <<>>]
    /\ ended = {}
    /\ got = [r \in Readers |-> <<>>]
    /\ missed = [r \in Readers |-> {}]
    /\ eof = {}
    /\ panicked = FALSE

(* The offset in build.log at which its first k chunks end.                 *)
End(k) == IF k = 0 THEN 0 ELSE file[k].end

-----------------------------------------------------------------------------
(* The build's side *)

(* The disk takes so many bytes of a chunk: all, a part, or none.           *)
Store(number, bytes) ==
    file' = IF bytes = 0 THEN file ELSE Append(file, [number |-> number, end |-> size + bytes])

(* The non-blocking send to every listener: a full channel loses the chunk. *)
Send(number) ==
    LET fits == {r \in listeners : Len(channel[r]) < ChannelSize}
    IN  /\ channel' = [r \in Readers |->
               IF r \in fits THEN Append(channel[r], number) ELSE channel[r]]
        /\ missed' = [r \in Readers |->
               IF r \in listeners \ fits THEN missed[r] \cup {number} ELSE missed[r]]
        /\ panicked' = (panicked \/ listeners \cap ended # {})

\* Fault: a chunk may begin below the limit and end above it.
FitsAtStart(bytes) == size < MaxLogBytes

Fits(bytes) == size + bytes <= MaxLogBytes

(* A chunk that fits, and is sent on however much of it the disk takes.     *)
WriteChunk(bytes) ==
    /\ ~closed /\ ~truncated
    /\ written < MaxWrites
    /\ Fits(bytes)
    /\ written' = written + 1
    /\ \E taken \in 0 .. bytes : Store(written + 1, taken) /\ size' = size + taken
    /\ Send(written + 1)
    /\ UNCHANGED <<truncated, closed, listeners, ended, readers>>

(* The first chunk that does not fit is replaced by the notice, which does  *)
(* not count; all later ones are dropped without a trace.                   *)
WriteNotice(bytes) ==
    /\ ~closed /\ ~truncated
    /\ written < MaxWrites
    /\ ~Fits(bytes)
    /\ written' = written + 1
    /\ truncated' = TRUE
    /\ \E taken \in 0 .. NoticeSize : Store(Notice, taken)
    /\ Send(Notice)
    /\ UNCHANGED <<size, closed, listeners, ended, readers>>

\* Fault: the channels are closed and stay registered.
CloseKeepsListeners ==
    /\ ~closed
    /\ closed' = TRUE
    /\ ended' = ended \cup listeners
    /\ UNCHANGED <<file, size, truncated, listeners, written, readers, channel,
                   missed, panicked>>

\* Fault: the listeners are forgotten and their channels stay open.
CloseForgets ==
    /\ ~closed
    /\ closed' = TRUE
    /\ listeners' = {}
    /\ UNCHANGED <<file, size, truncated, written, readers, channel, ended,
                   missed, panicked>>

(* The worker's final defer.  PruneOldBuilds may call it again, to no       *)
(* effect.                                                                  *)
Close ==
    /\ ~closed
    /\ closed' = TRUE
    /\ ended' = ended \cup listeners
    /\ panicked' = (panicked \/ listeners \cap ended # {})
    /\ listeners' = {}
    /\ UNCHANGED <<file, size, truncated, written, readers, channel, missed>>

-----------------------------------------------------------------------------
(* The readers' side *)

(* readLog: the chunks in the first MaxLogBytes + ReadSlack bytes.          *)
Limit == MaxLogBytes + ReadSlack
ReadLog ==
    LET last == CHOOSE k \in 0 .. Len(file) :
                    /\ End(k) <= Limit
                    /\ k < Len(file) => End(k + 1) > Limit
    IN  [k \in 1 .. last |-> file[k].number]

\* Fault: the file is read before the lock is taken.
SubscribeReadsFirst(r) ==
    /\ reader[r] = "idle"
    /\ reader' = [reader EXCEPT ![r] = "streaming"]
    /\ \E last \in 0 .. Len(file) :
          history' = [history EXCEPT ![r] = [k \in 1 .. last |-> file[k].number]]
    /\ IF closed
         THEN ended' = ended \cup {r} /\ UNCHANGED listeners
         ELSE listeners' = listeners \cup {r} /\ UNCHANGED ended
    /\ UNCHANGED <<log, channel, got, missed, eof, panicked>>

(* SubscribeLogs for a job whose broadcaster exists, or was closed by an    *)
(* earlier process: both return the file and a closed channel then.         *)
Subscribe(r) ==
    /\ reader[r] = "idle"
    /\ reader' = [reader EXCEPT ![r] = "streaming"]
    /\ history' = [history EXCEPT ![r] = ReadLog]
    /\ IF closed
         THEN ended' = ended \cup {r} /\ UNCHANGED listeners
         ELSE listeners' = listeners \cup {r} /\ UNCHANGED ended
    /\ UNCHANGED <<log, channel, got, missed, eof, panicked>>

Receive(r) ==
    /\ reader[r] = "streaming"
    /\ channel[r] # <<>>
    /\ channel' = [channel EXCEPT ![r] = Tail(@)]
    /\ got' = [got EXCEPT ![r] = Append(@, Head(channel[r]))]
    /\ UNCHANGED <<log, listeners, reader, history, ended, missed, eof, panicked>>

\* Fault: the end is told as soon as the channel is closed.
SendDoneAtOnce(r) ==
    /\ reader[r] = "streaming"
    /\ r \in ended
    /\ eof' = eof \cup {r}
    /\ reader' = [reader EXCEPT ![r] = "leaving"]
    /\ UNCHANGED <<log, listeners, history, channel, ended, got, missed, panicked>>

(* A closed channel is drained before a receive reports that it is closed.  *)
SendDone(r) ==
    /\ reader[r] = "streaming"
    /\ r \in ended
    /\ channel[r] = <<>>
    /\ eof' = eof \cup {r}
    /\ reader' = [reader EXCEPT ![r] = "leaving"]
    /\ UNCHANGED <<log, listeners, history, channel, ended, got, missed, panicked>>

(* The client goes away, or asked for the plain text only.                  *)
Disconnect(r) ==
    /\ reader[r] = "streaming"
    /\ reader' = [reader EXCEPT ![r] = "leaving"]
    /\ UNCHANGED <<log, listeners, history, channel, ended, got, missed, eof,
                   panicked>>

(* The handler's deferred UnsubscribeLogs.                                  *)
Unsubscribe(r) ==
    /\ reader[r] = "leaving"
    /\ reader' = [reader EXCEPT ![r] = "gone"]
    /\ listeners' = listeners \ {r}
    /\ ended' = IF r \in listeners THEN ended \cup {r} ELSE ended
    /\ panicked' = (panicked \/ r \in listeners \cap ended)
    /\ UNCHANGED <<log, history, channel, got, missed, eof>>

-----------------------------------------------------------------------------

Reader(r) == Subscribe(r) \/ Receive(r) \/ SendDone(r) \/ Disconnect(r)
             \/ Unsubscribe(r)

Next ==
    \/ \E bytes \in ChunkSizes : WriteChunk(bytes) \/ WriteNotice(bytes)
    \/ Close
    \/ \E r \in Readers : Reader(r)

(* Handlers run; nobody has to connect or to leave early, and the build     *)
(* need not end for a log that is never closed.                             *)
Fairness ==
    \A r \in Readers : WF_vars(Receive(r) \/ SendDone(r) \/ Unsubscribe(r))

Spec == Init /\ [][Next]_vars /\ Fairness

-----------------------------------------------------------------------------
(* Properties *)

(* A stream of chunks in order and without repetition, which has just those *)
(* of the file that reader r's full channel did not lose.                   *)
InOrder(stream) == \A i, k \in DOMAIN stream : i < k => stream[i] < stream[k]
HasFile(r, stream) ==
    \A k \in DOMAIN file : file[k].number \in Range(stream) <=> file[k].number \notin missed[r]

Given(r) == history[r] \o got[r]

(* SubscribeWithHistory snapshots disk output and registers a listener      *)
(* under one lock: history and live stream together are the file, with no   *)
(* gap, no chunk twice and in order, but for what a full channel lost and   *)
(* with what never reached the disk.                                        *)
StreamMatchesFile ==
    \A r \in Readers :
        reader[r] = "streaming" =>
            InOrder(Given(r) \o channel[r]) /\ HasFile(r, Given(r) \o channel[r])

(* The "done" event is only sent to a reader that has been sent all of the  *)
(* log, however late it came and however much waited in its channel.        *)
EofMeansComplete == \A r \in eof : InOrder(Given(r)) /\ HasFile(r, Given(r))

(* README: the log is capped, plus one notice, which is the last chunk.     *)
FileIsBounded ==
    /\ End(Len(file)) <= MaxLogBytes + NoticeSize
    /\ \A k \in DOMAIN file :
          IF file[k].number = Notice THEN k = Len(file) ELSE End(k) <= MaxLogBytes

(* A handler that leaves, the worker that closes the log and the chunks on  *)
(* their way never meet on a closed channel.                                *)
NoPanic == ~panicked

(* Every reader of a closed log is told the end and let go.  The handler's   *)
(* writes to its client are taken to return: the server has no write         *)
(* timeout (main.go:101), so that a client that neither reads nor leaves     *)
(* holds its handler for as long as the connection lasts.                    *)
ClosedLogEnds ==
    \A r \in Readers :
        closed /\ reader[r] = "streaming" ~> reader[r] = "gone"
=============================================================================
