------------------------ MODULE LogBroadcasterProofs ------------------------
(***************************************************************************)
(* Proofs about the log of a build, for any number of readers and chunks   *)
(* and any sizes of chunks, file and channels.                             *)
(***************************************************************************)
EXTENDS LogBroadcaster, SequenceTheorems, TLAPS

-----------------------------------------------------------------------------
(* The invariant *)

Numbers == 1 .. Notice

LogTypeOK ==
    /\ file \in Seq([number : Numbers, end : Nat])
    /\ size \in Nat
    /\ truncated \in BOOLEAN /\ closed \in BOOLEAN
    /\ listeners \subseteq Readers /\ ended \subseteq Readers /\ eof \subseteq Readers
    /\ written \in 0 .. MaxWrites
    /\ reader \in [Readers -> {"idle", "streaming", "leaving", "gone"}]
    /\ history \in [Readers -> Seq(Numbers)]
    /\ channel \in [Readers -> Seq(Numbers)]
    /\ got \in [Readers -> Seq(Numbers)]
    /\ missed \in [Readers -> SUBSET Numbers]

(* The numbers that have been used: a new chunk comes after all of them.    *)
UsedBy(n, last, noticed) == n <= last \/ (noticed /\ n = Notice)
Used(n) == UsedBy(n, written, truncated)

(* The file is in order, its chunks end where size says, and only the       *)
(* notice, which ends all writing, may exceed the limit.                    *)
FileInv ==
    /\ size <= MaxLogBytes
    /\ \A k \in DOMAIN file :
          /\ Used(file[k].number)
          /\ file[k].end <= IF file[k].number = Notice THEN size + NoticeSize ELSE size
    /\ \A i, k \in DOMAIN file : i < k => file[i].number < file[k].number

(* A channel is open exactly while it is registered; who is told the end of *)
(* the log has found its channel closed by Close, and empty.                *)
ReaderInv ==
    /\ ~panicked /\ listeners \cap ended = {}
    /\ closed => listeners = {}
    /\ \A r \in Readers :
          /\ reader[r] = "idle" =>
                /\ r \notin listeners \cup ended \cup eof
                /\ history[r] = <<>> /\ got[r] = <<>> /\ channel[r] = <<>> /\ missed[r] = {}
          /\ reader[r] = "streaming" => r \in listeners \/ (r \in ended /\ closed)
          /\ r \in eof => closed /\ channel[r] = <<>> /\ reader[r] # "streaming"

(* What a reader was given and what waits for it, together.                 *)
Stream(r) == Given(r) \o channel[r]

StreamInv ==
    \A r \in Readers :
        /\ InOrder(Stream(r))
        /\ \A n \in Range(Stream(r)) \cup missed[r] : Used(n)
        /\ reader[r] = "streaming" \/ r \in eof => HasFile(r, Stream(r))

LogInv == LogTypeOK /\ FileInv /\ ReaderInv /\ StreamInv

LEMMA BoundsTyped ==
    /\ MaxWrites \in Nat /\ Notice \in Nat /\ Notice = MaxWrites + 1
    /\ MaxLogBytes \in Nat /\ NoticeSize \in Nat /\ ReadSlack \in Nat /\ ChannelSize \in Nat
    /\ NoticeSize <= ReadSlack /\ \A bytes \in ChunkSizes : bytes \in Nat
    /\ Numbers \subseteq Nat /\ (\A n \in Numbers : n >= 1 /\ n <= Notice)
BY LogAssumption DEF Notice, Numbers

LEMMA LogInitCorrect == Init => LogInv
<1> SUFFICES ASSUME Init PROVE LogInv
  OBVIOUS
<1>1. LogTypeOK /\ FileInv /\ ReaderInv
  <2>1. LogTypeOK
    <3>1. 0 \in Nat /\ 0 \in 0 .. MaxWrites
      BY BoundsTyped
    <3>2. <<>> \in Seq(Numbers) /\ <<>> \in Seq([number : Numbers, end : Nat])
      BY EmptySeq
    <3>3. QED
      BY <3>1, <3>2 DEF Init, LogTypeOK
  <2>2. FileInv
    BY BoundsTyped DEF Init, FileInv
  <2>3. ReaderInv
    BY DEF Init, ReaderInv
  <2>4. QED
    BY <2>1, <2>2, <2>3
<1>2. ASSUME NEW r \in Readers
      PROVE  Stream(r) = <<>>
  BY <1>2, ConcatEmptySeq, EmptySeq DEF Init, Stream, Given
<1>3. StreamInv
  BY <1>2 DEF Init, StreamInv, InOrder, HasFile, Range
<1>4. QED
  BY <1>1, <1>3 DEF LogInv

LEMMA ChunkTyped ==
    ASSUME LogTypeOK, NEW k \in DOMAIN file
    PROVE  file[k] \in [number : Numbers, end : Nat]
BY ElementOfSeq, LenProperties DEF LogTypeOK

-----------------------------------------------------------------------------
(* Streams *)

(* A stream goes on with a number that comes after all of its numbers. *)
LEMMA AppendKeepsOrder ==
    ASSUME NEW s \in Seq(Numbers), InOrder(s), NEW n \in Numbers, \A m \in Range(s) : m < n
    PROVE  InOrder(Append(s, n)) /\ Range(Append(s, n)) = Range(s) \cup {n}
<1>1. /\ Len(Append(s, n)) = Len(s) + 1 /\ Append(s, n)[Len(s) + 1] = n
      /\ \A i \in 1 .. Len(s) : Append(s, n)[i] = s[i] /\ s[i] \in Range(s)
      /\ DOMAIN Append(s, n) = 1 .. Len(s) + 1 /\ DOMAIN s = 1 .. Len(s) /\ Len(s) \in Nat
  BY AppendProperties DEF Range
<1>2. InOrder(Append(s, n))
  <2> SUFFICES ASSUME NEW i \in 1 .. Len(s) + 1, NEW k \in 1 .. Len(s) + 1, i < k
               PROVE  Append(s, n)[i] < Append(s, n)[k]
    BY <1>1 DEF InOrder
  <2>1. CASE k = Len(s) + 1
    BY <1>1, <2>1
  <2>2. CASE k # Len(s) + 1
    BY <1>1, <2>2 DEF InOrder
  <2>3. QED
    BY <2>1, <2>2
<1>3. Range(Append(s, n)) = Range(s) \cup {n}
  BY <1>1 DEF Range
<1>4. QED
  BY <1>2, <1>3

LEMMA Regroup ==
    ASSUME NEW s \in Seq(Numbers), NEW t \in Seq(Numbers), NEW u \in Seq(Numbers)
    PROVE  (s \o t) \o u = s \o (t \o u)
BY ConcatAssociative

(* Sending puts a number at the end of a stream; receiving leaves it as it is. *)
LEMMA StreamOfSend ==
    ASSUME NEW h \in Seq(Numbers), NEW g \in Seq(Numbers), NEW c \in Seq(Numbers), NEW n \in Numbers
    PROVE  (h \o g) \o Append(c, n) = Append((h \o g) \o c, n)
<1>1. h \o g \in Seq(Numbers) /\ (h \o g) \o c \in Seq(Numbers) /\ <<n>> \in Seq(Numbers)
  BY ConcatProperties
<1>2. (h \o g) \o (c \o <<n>>) = ((h \o g) \o c) \o <<n>>
  BY <1>1, ConcatAssociative
<1>3. QED
  BY <1>1, <1>2, AppendIsConcat

LEMMA StreamOfReceive ==
    ASSUME NEW h \in Seq(Numbers), NEW g \in Seq(Numbers), NEW c \in Seq(Numbers), c # <<>>
    PROVE  (h \o Append(g, Head(c))) \o Tail(c) = (h \o g) \o c
<1>1. /\ Head(c) \in Numbers /\ Tail(c) \in Seq(Numbers) /\ <<Head(c)>> \in Seq(Numbers)
      /\ h \o g \in Seq(Numbers)
  BY HeadTailProperties, ConcatProperties
<1>2. h \o Append(g, Head(c)) = (h \o g) \o <<Head(c)>>
  BY <1>1, AppendIsConcat, ConcatAssociative
<1>3. c = <<Head(c)>> \o Tail(c)
  <2>1. /\ Len(<<Head(c)>> \o Tail(c)) = 1 + Len(Tail(c)) /\ <<Head(c)>> \o Tail(c) \in Seq(Numbers)
        /\ \A i \in 1 .. 1 + Len(Tail(c)) :
              (<<Head(c)>> \o Tail(c))[i] = IF i <= 1 THEN Head(c) ELSE Tail(c)[i - 1]
    BY <1>1, ConcatProperties
  <2>2. /\ Len(c) \in Nat /\ Len(Tail(c)) = Len(c) - 1 /\ Head(c) = c[1]
        /\ \A i \in 1 .. Len(Tail(c)) : Tail(c)[i] = c[i + 1]
    BY HeadTailProperties, LenProperties
  <2>3. \A i \in 1 .. Len(c) : c[i] = (<<Head(c)>> \o Tail(c))[i]
    BY <2>1, <2>2
  <2>4. QED
    BY <2>1, <2>2, <2>3, SeqEqual
<1>4. ((h \o g) \o <<Head(c)>>) \o Tail(c) = (h \o g) \o (<<Head(c)>> \o Tail(c))
  <2>1. ASSUME NEW s \in Seq(Numbers), NEW t \in Seq(Numbers), NEW u \in Seq(Numbers),
               s = h \o g, t = <<Head(c)>>, u = Tail(c)
        PROVE  (s \o t) \o u = s \o (t \o u)
    BY Regroup
  <2>2. QED
    BY <1>1, <2>1
<1>5. QED
  BY <1>2, <1>3, <1>4

LEMMA StreamTyped ==
    ASSUME LogTypeOK, NEW r \in Readers
    PROVE  /\ history[r] \in Seq(Numbers) /\ got[r] \in Seq(Numbers) /\ channel[r] \in Seq(Numbers)
           /\ Given(r) \in Seq(Numbers) /\ Stream(r) \in Seq(Numbers)
           /\ Range(Stream(r)) \subseteq Numbers /\ missed[r] \subseteq Numbers
<1>1. history[r] \in Seq(Numbers) /\ got[r] \in Seq(Numbers) /\ channel[r] \in Seq(Numbers)
      /\ missed[r] \subseteq Numbers
  BY DEF LogTypeOK
<1>2. Given(r) \in Seq(Numbers) /\ Stream(r) \in Seq(Numbers)
  BY <1>1, ConcatProperties DEF Given, Stream
<1>3. QED
  BY <1>1, <1>2, RangeOfSeq

-----------------------------------------------------------------------------
(* The build's side *)

(* What a write does to the file and to the streams, with a number that     *)
(* comes after all that have been used.                                     *)
LEMMA WriteKeeps ==
    ASSUME LogInv, NEW n \in Numbers, NEW bytes \in Nat, ~closed, Store(n, bytes), Send(n),
           \A m \in Numbers : Used(m) => m < n, \A m \in Numbers : Used(m) \/ m = n => Used(m)',
           UNCHANGED <<closed, listeners, ended, reader, history, got, eof>>
    PROVE  /\ file' \in Seq([number : Numbers, end : Nat])
           /\ channel' \in [Readers -> Seq(Numbers)] /\ missed' \in [Readers -> SUBSET Numbers]
           /\ \A k \in DOMAIN file' : \/ k \in DOMAIN file /\ file'[k] = file[k]
                                      \/ file'[k] = [number |-> n, end |-> size + bytes]
           /\ \A i, k \in DOMAIN file' : i < k => file'[i].number < file'[k].number
           /\ ReaderInv' /\ StreamInv'
<1>0. /\ file \in Seq([number : Numbers, end : Nat]) /\ size \in Nat
      /\ channel \in [Readers -> Seq(Numbers)] /\ missed \in [Readers -> SUBSET Numbers]
      /\ Numbers \subseteq Nat /\ listeners \subseteq Readers
  BY BoundsTyped DEF LogInv, LogTypeOK
<1> DEFINE chunk == [number |-> n, end |-> size + bytes]
<1>1. /\ file' \in Seq([number : Numbers, end : Nat])
      /\ \A k \in DOMAIN file' : \/ k \in DOMAIN file /\ file'[k] = file[k]
                                 \/ file'[k] = chunk
      /\ \A i, k \in DOMAIN file' : i < k => file'[i].number < file'[k].number
  <2>0. \A k \in DOMAIN file : file[k].number \in Numbers /\ file[k].number < n
    BY <1>0, ChunkTyped DEF LogInv, FileInv
  <2>1. CASE bytes = 0
    BY <1>0, <2>1 DEF Store, LogInv, FileInv
  <2>2. CASE bytes # 0
    <3>1. chunk \in [number : Numbers, end : Nat] /\ file' = Append(file, chunk)
      BY <1>0, <2>2 DEF Store
    <3>2. /\ file' \in Seq([number : Numbers, end : Nat]) /\ Len(file) \in Nat
          /\ DOMAIN file = 1 .. Len(file) /\ DOMAIN file' = 1 .. Len(file) + 1
          /\ \A k \in 1 .. Len(file) : file'[k] = file[k]
          /\ file'[Len(file) + 1] = chunk
      <4> HIDE DEF chunk
      <4> QED
        BY <1>0, <3>1, AppendProperties, LenProperties
    <3>3. \A i, k \in DOMAIN file' : i < k => file'[i].number < file'[k].number
      <4> SUFFICES ASSUME NEW i \in 1 .. Len(file) + 1, NEW k \in 1 .. Len(file) + 1, i < k
                   PROVE  file'[i].number < file'[k].number
        BY <3>2
      <4>1. i \in DOMAIN file /\ file'[i] = file[i]
        BY <3>2
      <4>2. CASE k = Len(file) + 1
        BY <2>0, <3>2, <4>1, <4>2
      <4>3. CASE k # Len(file) + 1
        BY <3>2, <4>1, <4>3 DEF LogInv, FileInv
      <4>4. QED
        BY <4>2, <4>3
    <3>4. QED
      BY <3>2, <3>3
  <2>3. QED
    BY <2>1, <2>2
<1>2. ASSUME NEW r \in Readers
      PROVE  \/ /\ r \in listeners /\ channel'[r] = Append(channel[r], n)
                /\ missed'[r] = missed[r]
             \/ /\ r \in listeners /\ channel'[r] = channel[r]
                /\ missed'[r] = missed[r] \cup {n}
             \/ r \notin listeners /\ channel'[r] = channel[r] /\ missed'[r] = missed[r]
  BY <1>0, <1>2 DEF Send
<1>3. channel' \in [Readers -> Seq(Numbers)] /\ missed' \in [Readers -> SUBSET Numbers]
  <2>1. ASSUME NEW r \in Readers
        PROVE  channel'[r] \in Seq(Numbers) /\ missed'[r] \in SUBSET Numbers
    <3>1. /\ channel[r] \in Seq(Numbers) /\ missed[r] \in SUBSET Numbers
          /\ missed[r] \cup {n} \in SUBSET Numbers
      BY <1>0
    <3>2. Append(channel[r], n) \in Seq(Numbers)
      BY <3>1, AppendProperties
    <3>3. QED
      BY <1>2, <3>1, <3>2
  <2>2. channel' = [r \in Readers |-> channel'[r]] /\ missed' = [r \in Readers |-> missed'[r]]
    BY DEF Send
  <2>3. QED
    BY <2>1, <2>2
<1>4. ReaderInv'
  <2>1. ~panicked'
    BY DEF Send, LogInv, ReaderInv
  <2>2. QED
    BY <1>2, <2>1 DEF LogInv, ReaderInv
<1>5. StreamInv'
  <2> SUFFICES ASSUME NEW r \in Readers
               PROVE  /\ InOrder(Stream(r)')
                      /\ \A m \in Range(Stream(r)') \cup missed'[r] : Used(m)'
                      /\ reader[r] = "streaming" \/ r \in eof => HasFile(r, Stream(r))'
    BY DEF StreamInv, InOrder, Range
  <2>1. /\ Stream(r) \in Seq(Numbers) /\ Range(Stream(r)) \subseteq Numbers
        /\ missed[r] \subseteq Numbers
        /\ history[r] \in Seq(Numbers) /\ got[r] \in Seq(Numbers) /\ channel[r] \in Seq(Numbers)
    BY StreamTyped DEF LogInv
  <2>2. /\ InOrder(Stream(r)) /\ \A m \in Range(Stream(r)) \cup missed[r] : Used(m)
        /\ reader[r] = "streaming" \/ r \in eof => HasFile(r, Stream(r))
    BY DEF LogInv, StreamInv
  <2>3. \/ /\ Stream(r)' = Append(Stream(r), n) /\ missed'[r] = missed[r]
           /\ InOrder(Stream(r)') /\ Range(Stream(r)') = Range(Stream(r)) \cup {n}
        \/ /\ Stream(r)' = Stream(r) /\ missed'[r] = missed[r] \cup {n} /\ r \in listeners
        \/ Stream(r)' = Stream(r) /\ missed'[r] = missed[r] /\ r \notin listeners
    <3>1. CASE channel'[r] = Append(channel[r], n) /\ missed'[r] = missed[r]
      <4>1. Stream(r)' = (history[r] \o got[r]) \o Append(channel[r], n)
        BY <3>1 DEF Stream, Given
      <4>0. Stream(r)' = Append(Stream(r), n)
        BY <2>1, <4>1, StreamOfSend DEF Stream, Given
      <4>2. InOrder(Append(Stream(r), n)) /\ Range(Append(Stream(r), n)) = Range(Stream(r)) \cup {n}
        BY <2>1, <2>2, AppendKeepsOrder
      <4>3. QED
        BY <3>1, <4>0, <4>2
    <3>2. CASE channel'[r] = channel[r]
      <4>1. Stream(r)' = Stream(r)
        BY <3>2 DEF Stream, Given
      <4>2. QED
        BY <1>2, <3>1, <3>2, <4>1
    <3>3. QED
      BY <1>2, <3>1, <3>2
  <2>4. InOrder(Stream(r)') /\ \A m \in Range(Stream(r)') \cup missed'[r] : Used(m)'
    BY <2>1, <2>2, <2>3
  <2>5. ASSUME reader[r] = "streaming" \/ r \in eof
        PROVE  HasFile(r, Stream(r))'
    <3>1. r \in listeners /\ HasFile(r, Stream(r))
      BY <2>2, <2>5 DEF LogInv, ReaderInv
    <3>2. n \notin missed[r] /\ n \notin Range(Stream(r))
      BY <1>0, <2>1, <2>2
    <3>3. \A k \in DOMAIN file : file[k].number # n
      BY <1>0 DEF LogInv, FileInv
    <3>4. \A k \in DOMAIN file' :
             file'[k].number = n \/ (k \in DOMAIN file /\ file'[k] = file[k])
      BY <1>1
    <3>5. QED
      BY <2>3, <3>1, <3>2, <3>3, <3>4 DEF HasFile
  <2>6. QED
    BY <2>4, <2>5
<1>6. QED
  BY <1>1, <1>3, <1>4, <1>5

LEMMA WriteChunkKeeps ==
    ASSUME LogInv, NEW bytes \in ChunkSizes, WriteChunk(bytes)
    PROVE  LogInv'
<1>1. PICK taken \in 0 .. bytes : Store(written + 1, taken) /\ size' = size + taken
  BY DEF WriteChunk
<1>2. /\ taken \in Nat /\ taken <= bytes /\ bytes \in Nat
      /\ written \in Nat /\ written + 1 \in Numbers /\ written + 1 <= MaxWrites
      /\ size \in Nat /\ size + bytes <= MaxLogBytes /\ ~closed /\ ~truncated
  BY BoundsTyped DEF WriteChunk, Fits, Numbers, LogInv, LogTypeOK
<1>3. /\ UNCHANGED <<truncated, closed, listeners, ended, reader, history, got, eof>>
      /\ Send(written + 1) /\ written' = written + 1
  BY DEF WriteChunk, readers
<1>4. /\ \A m \in Numbers : Used(m) => m < written + 1
      /\ \A m \in Numbers : Used(m) \/ m = written + 1 => Used(m)'
  BY <1>2, <1>3, BoundsTyped DEF Used, UsedBy
<1>5. /\ file' \in Seq([number : Numbers, end : Nat])
      /\ channel' \in [Readers -> Seq(Numbers)] /\ missed' \in [Readers -> SUBSET Numbers]
      /\ \A k \in DOMAIN file' : \/ k \in DOMAIN file /\ file'[k] = file[k]
                                 \/ file'[k] = [number |-> written + 1, end |-> size + taken]
      /\ \A i, k \in DOMAIN file' : i < k => file'[i].number < file'[k].number
      /\ ReaderInv' /\ StreamInv'
  BY <1>1, <1>2, <1>3, <1>4, WriteKeeps
<1>6. LogTypeOK'
  BY <1>1, <1>2, <1>3, <1>5, BoundsTyped DEF LogInv, LogTypeOK
<1>7. FileInv'
  <2>1. size' <= MaxLogBytes
    BY <1>1, <1>2, BoundsTyped
  <2>2. ASSUME NEW k \in DOMAIN file'
        PROVE  /\ UsedBy(file'[k].number, written', truncated')
               /\ file'[k].end <= IF file'[k].number = Notice THEN size' + NoticeSize ELSE size'
    <3>1. CASE k \in DOMAIN file /\ file'[k] = file[k]
      <4>1. /\ Used(file[k].number) /\ file[k] \in [number : Numbers, end : Nat]
            /\ file[k].end <= IF file[k].number = Notice THEN size + NoticeSize ELSE size
        BY <3>1, ChunkTyped DEF LogInv, FileInv
      <4>2. /\ file[k].number \in Nat /\ file[k].end \in Nat
            /\ file'[k].number = file[k].number /\ file'[k].end = file[k].end
        BY <3>1, <4>1, BoundsTyped
      <4>3. UsedBy(file[k].number, written', truncated')
        BY <1>1, <1>2, <1>3, <4>1, <4>2 DEF Used, UsedBy
      <4>4. file[k].end <= IF file[k].number = Notice THEN size' + NoticeSize ELSE size'
        BY <1>1, <1>2, <1>3, <4>1, <4>2, BoundsTyped
      <4>5. QED
        BY <4>2, <4>3, <4>4
    <3>2. CASE file'[k] = [number |-> written + 1, end |-> size + taken]
      BY <1>1, <1>2, <1>3, <3>2, BoundsTyped DEF UsedBy
    <3>3. QED
      BY <1>5, <3>1, <3>2
  <2>3. QED
    BY <1>5, <2>1, <2>2 DEF FileInv, Used
<1>8. QED
  BY <1>5, <1>6, <1>7 DEF LogInv

LEMMA WriteNoticeKeeps ==
    ASSUME LogInv, NEW bytes \in ChunkSizes, WriteNotice(bytes)
    PROVE  LogInv'
<1>1. PICK taken \in 0 .. NoticeSize : Store(Notice, taken)
  BY DEF WriteNotice
<1>2. /\ taken \in Nat /\ taken <= NoticeSize /\ written \in Nat /\ written < MaxWrites
      /\ Notice \in Numbers /\ size \in Nat /\ ~closed /\ ~truncated
  BY BoundsTyped DEF WriteNotice, Numbers, LogInv, LogTypeOK
<1>3. /\ UNCHANGED <<size, closed, listeners, ended, reader, history, got, eof>>
      /\ Send(Notice) /\ written' = written + 1 /\ truncated' = TRUE
  BY DEF WriteNotice, readers
<1>4. /\ \A m \in Numbers : Used(m) => m < Notice
      /\ \A m \in Numbers : Used(m) \/ m = Notice => Used(m)'
  BY <1>2, <1>3, BoundsTyped DEF Used, UsedBy
<1>5. /\ file' \in Seq([number : Numbers, end : Nat])
      /\ channel' \in [Readers -> Seq(Numbers)] /\ missed' \in [Readers -> SUBSET Numbers]
      /\ \A k \in DOMAIN file' : \/ k \in DOMAIN file /\ file'[k] = file[k]
                                 \/ file'[k] = [number |-> Notice, end |-> size + taken]
      /\ \A i, k \in DOMAIN file' : i < k => file'[i].number < file'[k].number
      /\ ReaderInv' /\ StreamInv'
  BY <1>1, <1>2, <1>3, <1>4, WriteKeeps
<1>6. LogTypeOK'
  BY <1>2, <1>3, <1>5, BoundsTyped DEF LogInv, LogTypeOK
<1>7. FileInv'
  <2>1. ASSUME NEW k \in DOMAIN file'
        PROVE  /\ UsedBy(file'[k].number, written', truncated')
               /\ file'[k].end <= IF file'[k].number = Notice THEN size' + NoticeSize ELSE size'
    <3>1. CASE k \in DOMAIN file /\ file'[k] = file[k]
      <4>1. /\ Used(file[k].number) /\ file[k] \in [number : Numbers, end : Nat]
            /\ file[k].end <= IF file[k].number = Notice THEN size + NoticeSize ELSE size
        BY <3>1, ChunkTyped DEF LogInv, FileInv
      <4>2. /\ file[k].number \in Nat /\ file[k].end \in Nat
            /\ file'[k].number = file[k].number /\ file'[k].end = file[k].end
        BY <3>1, <4>1, BoundsTyped
      <4>3. UsedBy(file[k].number, written', truncated')
        BY <1>2, <1>3, <4>1, <4>2 DEF Used, UsedBy
      <4>4. file[k].end <= IF file[k].number = Notice THEN size' + NoticeSize ELSE size'
        BY <1>2, <1>3, <4>1, <4>2, BoundsTyped
      <4>5. QED
        BY <4>2, <4>3, <4>4
    <3>2. CASE file'[k] = [number |-> Notice, end |-> size + taken]
      BY <1>2, <1>3, <3>2, BoundsTyped DEF UsedBy
    <3>3. QED
      BY <1>5, <3>1, <3>2
  <2>2. QED
    BY <1>3, <1>5, <2>1 DEF FileInv, LogInv, Used
<1>8. QED
  BY <1>5, <1>6, <1>7 DEF LogInv

-----------------------------------------------------------------------------
(* The end of the log, and its readers *)

(* Steps that leave the file and the streams as they are. *)
LEMMA QuietKeeps ==
    ASSUME LogInv, UNCHANGED <<file, size, truncated, written, missed>>,
           \A r \in Readers : Stream(r)' = Stream(r),
           \A r \in Readers : reader'[r] = "streaming" \/ r \in eof' => reader[r] = "streaming" \/ r \in eof
    PROVE  FileInv' /\ StreamInv'
<1>1. FileInv'
  BY DEF LogInv, FileInv, Used, UsedBy
<1>2. StreamInv'
  <2> SUFFICES ASSUME NEW r \in Readers
               PROVE  /\ InOrder(Stream(r)')
                      /\ \A n \in Range(Stream(r)') \cup missed'[r] : Used(n)'
                      /\ reader'[r] = "streaming" \/ r \in eof' => HasFile(r, Stream(r))'
    BY DEF StreamInv, InOrder, Range
  <2>1. /\ InOrder(Stream(r)) /\ \A n \in Range(Stream(r)) \cup missed[r] : Used(n)
        /\ reader[r] = "streaming" \/ r \in eof => HasFile(r, Stream(r))
    BY DEF LogInv, StreamInv
  <2>2. Stream(r)' = Stream(r)
    OBVIOUS
  <2>3. /\ InOrder(Stream(r)')
        /\ \A n \in Range(Stream(r)') \cup missed'[r] : Used(n)'
    BY <2>1, <2>2 DEF Used, UsedBy
  <2>4. HasFile(r, Stream(r)) => HasFile(r, Stream(r))'
    BY <2>2 DEF HasFile
  <2>5. QED
    BY <2>1, <2>3, <2>4
<1>3. QED
  BY <1>1, <1>2

LEMMA CloseKeeps ==
    ASSUME LogInv, Close
    PROVE  LogInv'
<1>1. LogTypeOK'
  BY DEF Close, readers, LogInv, LogTypeOK
<1>2. ReaderInv'
  BY DEF Close, readers, LogInv, ReaderInv, LogTypeOK
<1>3. FileInv' /\ StreamInv'
  <2>1. \A r \in Readers : Stream(r)' = Stream(r)
    BY DEF Close, readers, Stream, Given
  <2>2. QED
    BY <2>1, QuietKeeps DEF Close, readers
<1>4. QED
  BY <1>1, <1>2, <1>3 DEF LogInv

(* The limit of readLog is never reached: a reader is given the whole file. *)
LEMMA WholeFileIsRead ==
    ASSUME LogInv
    PROVE  /\ DOMAIN file = 1 .. Len(file) /\ Len(file) \in Nat
           /\ ReadLog = [k \in 1 .. Len(file) |-> file[k].number]
           /\ ReadLog \in Seq(Numbers)
<1>1. DOMAIN file = 1 .. Len(file) /\ Len(file) \in Nat
  BY LenProperties DEF LogInv, LogTypeOK
<1>2. ASSUME NEW k \in 0 .. Len(file)
      PROVE  End(k) <= Limit
  <2>1. CASE k = 0
    BY <2>1, BoundsTyped DEF End, Limit
  <2>2. CASE k # 0
    <3>1. k \in DOMAIN file
      BY <1>1, <2>2
    <3>2. file[k].end \in Nat /\ size \in Nat /\ size <= MaxLogBytes
      BY <3>1, ChunkTyped DEF LogInv, LogTypeOK, FileInv
    <3>3. file[k].end <= size + NoticeSize
      BY <3>1, <3>2, BoundsTyped DEF LogInv, FileInv
    <3>4. QED
      BY <2>2, <3>2, <3>3, BoundsTyped DEF End, Limit
  <2>3. QED
    BY <2>1, <2>2
<1>3. ASSUME NEW last \in 0 .. Len(file), End(last) <= Limit, last < Len(file) => End(last + 1) > Limit
      PROVE  last = Len(file)
  <2>1. ASSUME last < Len(file) PROVE FALSE
    <3>1. last + 1 \in 0 .. Len(file) /\ last + 1 # 0
      BY <1>1, <2>1
    <3>2. last + 1 \in DOMAIN file /\ End(last + 1) \in Nat
      BY <1>1, <3>1, ChunkTyped DEF End, LogInv
    <3>3. End(last + 1) > Limit /\ End(last + 1) <= Limit
      BY <1>2, <1>3, <2>1, <3>1
    <3>4. QED
      BY <3>2, <3>3, BoundsTyped DEF Limit
  <2>2. last \in Nat /\ last <= Len(file) /\ Len(file) \in Nat
    BY <1>1
  <2>3. QED
    BY <2>1, <2>2
<1>4. (CHOOSE k \in 0 .. Len(file) : End(k) <= Limit /\ (k < Len(file) => End(k + 1) > Limit))
         = Len(file)
  <2>1. /\ Len(file) \in 0 .. Len(file) /\ End(Len(file)) <= Limit
        /\ Len(file) < Len(file) => End(Len(file) + 1) > Limit
    BY <1>1, <1>2
  <2>2. QED
    BY <1>3, <2>1
<1>5. ReadLog = [k \in 1 .. Len(file) |-> file[k].number]
  BY <1>4 DEF ReadLog
<1>6. \A k \in 1 .. Len(file) : file[k].number \in Numbers
  BY <1>1, ChunkTyped DEF LogInv
<1>7. QED
  BY <1>1, <1>5, <1>6, SeqDef

LEMMA SubscribeKeeps ==
    ASSUME LogInv, NEW r \in Readers, Subscribe(r)
    PROVE  LogInv'
<1>0. /\ ReadLog \in Seq(Numbers) /\ DOMAIN file = 1 .. Len(file)
      /\ ReadLog = [k \in 1 .. Len(file) |-> file[k].number]
  BY WholeFileIsRead
<1>1. /\ reader[r] = "idle" /\ reader' = [reader EXCEPT ![r] = "streaming"]
      /\ history' = [history EXCEPT ![r] = ReadLog]
      /\ UNCHANGED <<file, size, truncated, closed, written, channel, got, missed, eof, panicked>>
      /\ \/ closed /\ ended' = ended \cup {r} /\ listeners' = listeners
         \/ ~closed /\ listeners' = listeners \cup {r} /\ ended' = ended
  BY DEF Subscribe, log
<1>2. /\ r \notin listeners \cup ended \cup eof
      /\ history[r] = <<>> /\ got[r] = <<>> /\ channel[r] = <<>> /\ missed[r] = {}
  BY <1>1 DEF LogInv, ReaderInv
<1>3. LogTypeOK'
  <2>1. reader' \in [Readers -> {"idle", "streaming", "leaving", "gone"}]
    BY <1>1 DEF LogInv, LogTypeOK
  <2>2. history' \in [Readers -> Seq(Numbers)]
    BY <1>0, <1>1 DEF LogInv, LogTypeOK
  <2>3. QED
    BY <1>1, <2>1, <2>2 DEF LogInv, LogTypeOK
<1>4. ReaderInv'
  BY <1>1, <1>2 DEF LogInv, ReaderInv, LogTypeOK
<1>5. FileInv'
  BY <1>1 DEF LogInv, FileInv, Used, UsedBy
<1>6. StreamInv'
  <2> SUFFICES ASSUME NEW q \in Readers
               PROVE  /\ InOrder(Stream(q)')
                      /\ \A n \in Range(Stream(q)') \cup missed'[q] : Used(n)'
                      /\ reader'[q] = "streaming" \/ q \in eof' => HasFile(q, Stream(q))'
    BY DEF StreamInv, InOrder, Range
  <2>1. CASE q = r
    <3>1. Stream(r)' = ReadLog
      <4>1. history'[r] = ReadLog /\ got'[r] = <<>> /\ channel'[r] = <<>>
        BY <1>1, <1>2 DEF LogInv, LogTypeOK
      <4>2. Stream(r)' = (ReadLog \o <<>>) \o <<>>
        BY <4>1 DEF Stream, Given
      <4>3. QED
        BY <1>0, <4>2, ConcatEmptySeq
    <3>2. InOrder(ReadLog)
      BY <1>0 DEF InOrder, LogInv, FileInv
    <3>3. \A n \in Range(ReadLog) : Used(n)
      BY <1>0 DEF Range, LogInv, FileInv
    <3>4. \A k \in DOMAIN file : file[k].number \in Range(ReadLog)
      BY <1>0 DEF Range
    <3>5. \A n \in Range(Stream(r)') \cup missed'[r] : Used(n)'
      BY <1>1, <1>2, <3>1, <3>3 DEF Used, UsedBy
    <3>6. HasFile(r, Stream(r))'
      BY <1>1, <1>2, <3>1, <3>4 DEF HasFile
    <3>7. QED
      BY <2>1, <3>1, <3>2, <3>5, <3>6
  <2>2. CASE q # r
    <3>1. Stream(q)' = Stream(q) /\ reader'[q] = reader[q]
      BY <1>1, <2>2 DEF Stream, Given, LogInv, LogTypeOK
    <3>2. /\ InOrder(Stream(q)) /\ \A n \in Range(Stream(q)) \cup missed[q] : Used(n)
          /\ reader[q] = "streaming" \/ q \in eof => HasFile(q, Stream(q))
      BY DEF LogInv, StreamInv
    <3>3. InOrder(Stream(q)') /\ \A n \in Range(Stream(q)') \cup missed'[q] : Used(n)'
      BY <1>1, <3>1, <3>2 DEF Used, UsedBy
    <3>4. HasFile(q, Stream(q)) => HasFile(q, Stream(q))'
      BY <1>1, <3>1 DEF HasFile
    <3>5. QED
      BY <1>1, <3>1, <3>2, <3>3, <3>4
  <2>3. QED
    BY <2>1, <2>2
<1>7. QED
  BY <1>3, <1>4, <1>5, <1>6 DEF LogInv

LEMMA ReceiveKeeps ==
    ASSUME LogInv, NEW r \in Readers, Receive(r)
    PROVE  LogInv'
<1>1. /\ reader[r] = "streaming" /\ channel[r] # <<>>
      /\ channel' = [channel EXCEPT ![r] = Tail(channel[r])]
      /\ got' = [got EXCEPT ![r] = Append(got[r], Head(channel[r]))]
      /\ UNCHANGED <<file, size, truncated, closed, written, listeners, reader, history, ended,
                     missed, eof, panicked>>
  BY DEF Receive, log
<1>2. /\ history[r] \in Seq(Numbers) /\ got[r] \in Seq(Numbers) /\ channel[r] \in Seq(Numbers)
      /\ Tail(channel[r]) \in Seq(Numbers) /\ Head(channel[r]) \in Numbers
      /\ Append(got[r], Head(channel[r])) \in Seq(Numbers)
  BY <1>1, StreamTyped, HeadTailProperties, AppendProperties DEF LogInv
<1>3. LogTypeOK'
  <2>1. channel' \in [Readers -> Seq(Numbers)] /\ got' \in [Readers -> Seq(Numbers)]
    BY <1>1, <1>2 DEF LogInv, LogTypeOK
  <2>2. QED
    BY <1>1, <2>1 DEF LogInv, LogTypeOK
<1>4. ReaderInv'
  BY <1>1 DEF LogInv, ReaderInv, LogTypeOK
<1>5. FileInv' /\ StreamInv'
  <2>1. ASSUME NEW q \in Readers
        PROVE  Stream(q)' = Stream(q)
    <3>1. CASE q = r
      <4>1. /\ history'[r] = history[r] /\ channel'[r] = Tail(channel[r])
            /\ got'[r] = Append(got[r], Head(channel[r]))
        BY <1>1 DEF LogInv, LogTypeOK
      <4>2. Stream(r)' = (history[r] \o Append(got[r], Head(channel[r]))) \o Tail(channel[r])
        BY <4>1 DEF Stream, Given
      <4>3. QED
        BY <1>1, <1>2, <3>1, <4>2, StreamOfReceive DEF Stream, Given
    <3>2. CASE q # r
      BY <1>1, <3>2 DEF Stream, Given, LogInv, LogTypeOK
    <3>3. QED
      BY <3>1, <3>2
  <2>2. QED
    BY <1>1, <2>1, QuietKeeps
<1>6. QED
  BY <1>3, <1>4, <1>5 DEF LogInv

(* A handler that goes on without touching its stream. *)
LEMMA LeavingKeeps ==
    ASSUME LogInv, NEW r \in Readers, SendDone(r) \/ Disconnect(r) \/ Unsubscribe(r)
    PROVE  LogInv'
<1>1. LogTypeOK'
  BY DEF SendDone, Disconnect, Unsubscribe, log, LogInv, LogTypeOK
<1>2. ReaderInv'
  <2>1. CASE SendDone(r)
    BY <2>1 DEF SendDone, log, LogInv, ReaderInv, LogTypeOK
  <2>2. CASE Disconnect(r)
    BY <2>2 DEF Disconnect, log, LogInv, ReaderInv, LogTypeOK
  <2>3. CASE Unsubscribe(r)
    BY <2>3 DEF Unsubscribe, log, LogInv, ReaderInv, LogTypeOK
  <2>4. QED
    BY <2>1, <2>2, <2>3
<1>3. FileInv' /\ StreamInv'
  <2>1. \A q \in Readers : Stream(q)' = Stream(q)
    BY DEF SendDone, Disconnect, Unsubscribe, Stream, Given
  <2>2. UNCHANGED <<file, size, truncated, written, missed>>
    BY DEF SendDone, Disconnect, Unsubscribe, log
  <2>3. \A q \in Readers :
           reader'[q] = "streaming" \/ q \in eof' => reader[q] = "streaming" \/ q \in eof
    BY DEF SendDone, Disconnect, Unsubscribe, LogInv, LogTypeOK
  <2>4. QED
    BY <2>1, <2>2, <2>3, QuietKeeps
<1>4. QED
  BY <1>1, <1>2, <1>3 DEF LogInv

LEMMA LogStep ==
    ASSUME LogInv, [Next]_vars
    PROVE  LogInv'
<1>1. CASE UNCHANGED vars
  <2>1. \A r \in Readers : Stream(r)' = Stream(r)
    BY <1>1 DEF vars, Stream, Given
  <2>2. FileInv' /\ StreamInv'
    BY <1>1, <2>1, QuietKeeps DEF vars
  <2>3. LogTypeOK' /\ ReaderInv'
    BY <1>1 DEF vars, LogInv, LogTypeOK, ReaderInv
  <2>4. QED
    BY <2>2, <2>3 DEF LogInv
<1>2. CASE \E bytes \in ChunkSizes : WriteChunk(bytes) \/ WriteNotice(bytes)
  BY <1>2, WriteChunkKeeps, WriteNoticeKeeps
<1>3. CASE Close
  BY <1>3, CloseKeeps
<1>4. CASE \E r \in Readers : Reader(r)
  BY <1>4, SubscribeKeeps, ReceiveKeeps, LeavingKeeps DEF Reader
<1>5. QED
  BY <1>1, <1>2, <1>3, <1>4 DEF Next

(* LogInv is an invariant of the log, for any number of readers.            *)
THEOREM LogCorrect == Spec => []LogInv
<1>1. Init => LogInv
  BY LogInitCorrect
<1>2. LogInv /\ [Next]_vars => LogInv'
  BY LogStep
<1>3. QED
  BY <1>1, <1>2, PTL DEF Spec

(* SubscribeWithHistory takes its snapshot and registers under one lock:    *)
(* history and live stream together are the file, but for what a full       *)
(* channel lost.                                                            *)
THEOREM StreamsMatchFile == Spec => []StreamMatchesFile
<1>1. LogInv => StreamMatchesFile
  BY DEF LogInv, StreamInv, Stream, StreamMatchesFile
<1>2. QED
  BY <1>1, LogCorrect, PTL

(* Who is told that the log is at its end has been sent all of it.          *)
THEOREM EofAfterAll == Spec => []EofMeansComplete
<1>1. ASSUME LogInv, NEW r \in eof
      PROVE  Given(r) = Stream(r) /\ InOrder(Stream(r)) /\ HasFile(r, Stream(r))
  <2>1. r \in Readers /\ channel[r] = <<>>
    BY <1>1 DEF LogInv, LogTypeOK, ReaderInv
  <2>2. Given(r) \in Seq(Numbers)
    BY <1>1, <2>1, StreamTyped DEF LogInv
  <2>3. Given(r) = Stream(r)
    BY <2>1, <2>2, ConcatEmptySeq DEF Stream
  <2>4. QED
    BY <1>1, <2>1, <2>3 DEF LogInv, StreamInv
<1>2. LogInv => EofMeansComplete
  BY <1>1 DEF EofMeansComplete
<1>3. QED
  BY <1>2, LogCorrect, PTL

(* The file keeps to its limit plus one notice, which is its last chunk.    *)
THEOREM FileBounded == Spec => []FileIsBounded
<1>1. ASSUME LogInv
      PROVE  FileIsBounded
  <2>1. DOMAIN file = 1 .. Len(file) /\ Len(file) \in Nat /\ size \in Nat /\ size <= MaxLogBytes
    BY <1>1, WholeFileIsRead DEF LogInv, LogTypeOK, FileInv
  <2>2. ASSUME NEW k \in DOMAIN file
        PROVE  /\ file[k].number \in Numbers /\ file[k].end \in Nat
               /\ file[k].end <= IF file[k].number = Notice THEN size + NoticeSize ELSE size
    BY <1>1, <2>2, ChunkTyped DEF LogInv, FileInv
  <2>3. End(Len(file)) <= MaxLogBytes + NoticeSize
    BY <2>1, <2>2, BoundsTyped DEF End
  <2>4. ASSUME NEW k \in DOMAIN file, file[k].number = Notice
        PROVE  k = Len(file)
    <3> SUFFICES ASSUME k < Len(file) PROVE FALSE
      BY <2>1
    <3>1. Len(file) \in DOMAIN file /\ file[k].number < file[Len(file)].number
      BY <1>1, <2>1 DEF LogInv, FileInv
    <3>2. file[Len(file)].number \in Nat /\ file[Len(file)].number <= Notice /\ Notice \in Nat
      BY <2>2, <3>1, BoundsTyped
    <3>3. QED
      BY <2>4, <3>1, <3>2
  <2>5. ASSUME NEW k \in DOMAIN file, file[k].number # Notice
        PROVE  End(k) <= MaxLogBytes
    BY <2>1, <2>2, <2>5, BoundsTyped DEF End
  <2>6. QED
    BY <2>3, <2>4, <2>5 DEF FileIsBounded
<1>2. QED
  BY <1>1, LogCorrect, PTL

(* No interleaving of writes, the close and handlers that come and go sends *)
(* on a closed channel or closes one twice.                                 *)
THEOREM NeverPanics == Spec => []NoPanic
<1>1. LogInv => NoPanic
  BY DEF LogInv, ReaderInv, NoPanic
<1>2. QED
  BY <1>1, LogCorrect, PTL
=============================================================================
