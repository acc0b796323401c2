--------------------------- MODULE ConsoleProofs ---------------------------
(***************************************************************************)
(* Theorems about Console for any set of commands, any size of the write   *)
(* channel and any length of the log.                                      *)
(***************************************************************************)
EXTENDS Console, SequenceTheorems, TLAPS

-----------------------------------------------------------------------------
(***************************************************************************)
(* The inductive invariant: the log on its way to the client.              *)
(***************************************************************************)
LogOf(s) == LogBefore(s, Len(s) + 1)
LogPart(m) == {m} \cap LogMessages

\* The messages of s are in place when prior has come before them.
InOrder(prior, s, read) ==
    \A i \in 1..Len(s) : InPlace(s[i], prior \cup LogBefore(s, i), read)

\* What the client has got of the log, what the writer is writing of it, and
\* what is in the channel.
Got == LogOf(received)
Held == IF writer = "writing" THEN LogPart(msg) ELSE {}
Sent == Got \cup Held \cup LogOf(writeCh)

\* All that was read has been sent, with or without the end of the stream,
\* or the last chunk is still to be sent or was given up (streamPodLogs).
SentSoFar ==
    \/ Sent = FirstChunks(chunks) /\ logs # "sending"
    \/ Sent = FirstChunks(chunks - 1) /\ chunks > 0 /\ logs \in {"sending", "done"}
    \/ Sent = FirstChunks(chunks) \cup {Message("stream_ended")} /\ logs = "done"

\* While messages can still arrive, the next ones continue what has arrived.
Flowing ==
    client = "live" /\ writer # "done" =>
        /\ writer = "writing" => InPlace(msg, Got, chunks)
        /\ InOrder(Got \cup Held, writeCh, chunks)
        /\ SentSoFar

\* A client that was told of the end had it from a streamer that has returned.
EndIsFinal == Message("stream_ended") \in Got => logs = "done"

\* The log is not looked at before the handler starts the streamer; the channel
\* is closed only when nothing can arrive any more (handleConsole).
Ordering ==
    /\ main = "upgraded" => logs = "unstarted"
    /\ ~connOpen => writer = "done"
    /\ main \in {"cleanup", "done"} => client = "gone" \/ writer = "done"
    /\ chClosed => main = "done"
    /\ logs = "sending" => chunks > 0

IInv == TypeOK /\ Ordering /\ LogsInOrder /\ Flowing /\ EndIsFinal

-----------------------------------------------------------------------------
(***************************************************************************)
(* Messages.                                                               *)
(***************************************************************************)
Ended == Message("stream_ended")

\* The messages the log does not consist of.
Others == {Message(t) : t \in {"connected", "output", "error"}}

\* A message is a chunk, the end of the stream, or has nothing to do with it.
LEMMA MessageKinds ==
    /\ \A m \in Messages : \/ m \in Others
                           \/ m = Ended
                           \/ \E n \in 1..MaxChunks : m = Chunk(n)
    /\ Others \subseteq Messages /\ Ended \in Messages
    /\ \A n \in 1..MaxChunks : Chunk(n) \in Messages
  BY DEF Messages, Others, Ended

\* Each kind is told from the others by its type.
LEMMA KindsDiffer ==
    /\ IsEnd(Ended) /\ ~IsChunk(Ended)
    /\ \A m \in Others : ~IsEnd(m) /\ ~IsChunk(m)
    /\ \A n : IsChunk(Chunk(n)) /\ ~IsEnd(Chunk(n)) /\ Chunk(n).n = n
  BY DEF IsEnd, IsChunk, Ended, Others, Message, Chunk

\* No end is among chunks, and nothing else is in the log.
LEMMA LogParts ==
    /\ \A n : Ended \notin FirstChunks(n)
    /\ \A m \in Others : LogPart(m) = {}
    /\ LogPart(Ended) = {Ended}
    /\ \A n \in 1..MaxChunks : LogPart(Chunk(n)) = {Chunk(n)}
  <1>1. \A n : Ended \notin FirstChunks(n)
    BY KindsDiffer DEF FirstChunks
  <1>2. LogMessages = FirstChunks(MaxChunks) \cup {Ended}
    BY DEF LogMessages, Ended
  <1>3. \A m \in Others : m \notin LogMessages
    BY <1>2, KindsDiffer DEF FirstChunks
  <1>4. \A n \in 1..MaxChunks : Chunk(n) \in LogMessages
    BY <1>2 DEF FirstChunks
  <1> QED
    BY <1>1, <1>2, <1>3, <1>4 DEF LogPart

\* One more chunk.
LEMMA OneMoreChunk ==
    ASSUME NEW n \in Nat, n > 0
    PROVE  FirstChunks(n) = FirstChunks(n - 1) \cup {Chunk(n)}
  <1>1. 1..n = 1..(n - 1) \cup {n}
    OBVIOUS
  <1> QED
    BY <1>1 DEF FirstChunks

-----------------------------------------------------------------------------
(***************************************************************************)
(* Sequences of messages.                                                  *)
(***************************************************************************)
\* A message sent last.
LEMMA AppendOrder ==
    ASSUME NEW s \in Seq(Messages), NEW m \in Messages, NEW prior, NEW read,
           InOrder(prior, s, read), InPlace(m, prior \cup LogOf(s), read)
    PROVE  /\ InOrder(prior, Append(s, m), read)
           /\ LogOf(Append(s, m)) = LogOf(s) \cup LogPart(m)
  <1> DEFINE t == Append(s, m)
             len == Len(s)
  <1>1. /\ len \in Nat /\ Len(t) = len + 1 /\ t[len + 1] = m
        /\ \A i \in 1..len : t[i] = s[i]
    BY AppendProperties, LenProperties
  <1> HIDE DEF t, len
  <1>2. ASSUME NEW i \in 1..(len + 1) PROVE LogBefore(t, i) = LogBefore(s, i)
    <2>1. \A j \in 1..(i - 1) : j \in 1..len
      BY <1>1
    <2> QED
      BY <1>1, <2>1 DEF LogBefore
  <1>3. LogBefore(t, len + 2) = LogBefore(s, len + 1) \cup LogPart(m)
    <2>1. /\ (len + 2) - 1 = len + 1 /\ (len + 1) - 1 = len
          /\ 1..(len + 1) = 1..len \cup {len + 1}
      BY <1>1
    <2> QED
      BY <1>1, <2>1 DEF LogBefore, LogPart
  <1>4. LogOf(s) = LogBefore(s, len + 1) /\ LogOf(t) = LogBefore(t, len + 2)
    <2>1. (len + 1) + 1 = len + 2
      BY <1>1
    <2> QED
      BY <1>1, <2>1 DEF LogOf, len
  <1>5. InOrder(prior, t, read)
    <2> SUFFICES ASSUME NEW i \in 1..(len + 1)
                 PROVE  InPlace(t[i], prior \cup LogBefore(t, i), read)
      BY <1>1 DEF InOrder
    <2>1. CASE i = len + 1
      BY <1>1, <1>2, <1>4, <2>1
    <2>2. CASE i # len + 1
      <3>1. i \in 1..len
        BY <1>1, <2>2
      <3>2. InPlace(s[i], prior \cup LogBefore(s, i), read)
        BY <3>1 DEF InOrder, len
      <3> QED
        BY <1>1, <1>2, <3>1, <3>2
    <2> QED
      BY <2>1, <2>2
  <1> QED
    BY <1>3, <1>4, <1>5 DEF t

\* The message taken first.
LEMMA HeadOrder ==
    ASSUME NEW s \in Seq(Messages), s # <<>>, NEW prior, NEW read,
           InOrder(prior, s, read)
    PROVE  /\ InPlace(Head(s), prior, read)
           /\ InOrder(prior \cup LogPart(Head(s)), Tail(s), read)
           /\ LogOf(s) = LogPart(Head(s)) \cup LogOf(Tail(s))
  <1> DEFINE t == Tail(s)
             len == Len(t)
             m == Head(s)
  <1>1. /\ len \in Nat /\ Len(s) = len + 1 /\ s[1] = m
        /\ \A i \in 1..len : t[i] = s[i + 1]
    BY HeadTailProperties, LenProperties
  <1> HIDE DEF t, len, m
  <1>2. ASSUME NEW i \in 1..(len + 1)
        PROVE  LogBefore(s, i + 1) = LogPart(m) \cup LogBefore(t, i)
    <2>1. (i + 1) - 1 = i /\ 1 \in 1..i
      BY <1>1
    <2>2. \A j \in 1..(i - 1) : j \in 1..len /\ j + 1 \in 1..i
      BY <1>1
    <2>3. \A j \in 1..i : j = 1 \/ (j - 1 \in 1..(i - 1) /\ j = (j - 1) + 1)
      BY <1>1
    <2>4. LogBefore(s, i + 1) = {x \in LogMessages : \E j \in 1..i : s[j] = x}
      BY <2>1 DEF LogBefore
    <2>5. ASSUME NEW x \in LogMessages
          PROVE  (\E j \in 1..i : s[j] = x) <=> x = m \/ \E j \in 1..(i - 1) : t[j] = x
      <3>1. ASSUME NEW j \in 1..i, s[j] = x
            PROVE  x = m \/ \E k \in 1..(i - 1) : t[k] = x
        <4>1. CASE j = 1
          BY <1>1, <3>1, <4>1
        <4>2. CASE j - 1 \in 1..(i - 1) /\ j = (j - 1) + 1
          <5>1. t[j - 1] = s[(j - 1) + 1]
            BY <1>1, <2>2, <4>2
          <5> QED
            BY <3>1, <4>2, <5>1
        <4> QED
          BY <2>3, <4>1, <4>2
      <3>2. x = m => \E j \in 1..i : s[j] = x
        BY <1>1, <2>1
      <3>3. ASSUME NEW j \in 1..(i - 1), t[j] = x
            PROVE  \E k \in 1..i : s[k] = x
        BY <1>1, <2>2, <3>3
      <3> QED
        BY <3>1, <3>2, <3>3
    <2> QED
      BY <2>4, <2>5 DEF LogBefore, LogPart
  <1>3. LogBefore(s, 1) = {}
    BY DEF LogBefore
  <1>4. InPlace(m, prior, read)
    <2>1. 1 \in 1..Len(s) /\ prior \cup {} = prior
      BY <1>1
    <2>2. InPlace(s[1], prior \cup LogBefore(s, 1), read)
      BY <2>1 DEF InOrder
    <2> QED
      BY <1>1, <1>3, <2>1, <2>2
  <1>5. InOrder(prior \cup LogPart(m), t, read)
    <2> SUFFICES ASSUME NEW i \in 1..len
                 PROVE  InPlace(t[i], (prior \cup LogPart(m)) \cup LogBefore(t, i), read)
      BY DEF InOrder, len
    <2>1. i + 1 \in 1..Len(s) /\ i \in 1..(len + 1)
      BY <1>1
    <2>2. InPlace(s[i + 1], prior \cup LogBefore(s, i + 1), read)
      BY <2>1 DEF InOrder
    <2>3. prior \cup LogBefore(s, i + 1) = (prior \cup LogPart(m)) \cup LogBefore(t, i)
      BY <1>2, <2>1
    <2> QED
      BY <1>1, <2>2, <2>3
  <1>6. LogOf(s) = LogPart(m) \cup LogOf(t)
    <2>1. len + 1 \in 1..(len + 1)
      BY <1>1
    <2> QED
      BY <1>1, <1>2, <2>1 DEF LogOf, len
  <1> QED
    BY <1>4, <1>5, <1>6 DEF t, m

\* While the end of the stream is not among the messages, it does not matter
\* how many chunks have been read.
LEMMA ReadOnOrder ==
    ASSUME NEW s \in Seq(Messages), NEW prior, NEW read, NEW more,
           InOrder(prior, s, read), Ended \notin LogOf(s)
    PROVE  InOrder(prior, s, more)
  <1> SUFFICES ASSUME NEW i \in 1..Len(s)
               PROVE  InPlace(s[i], prior \cup LogBefore(s, i), more)
    BY DEF InOrder
  <1>1. InPlace(s[i], prior \cup LogBefore(s, i), read)
    BY DEF InOrder
  <1>2. s[i] \in Messages /\ Len(s) \in Nat
    BY LenProperties, ElementOfSeq
  <1>3. s[i] # Ended
    <2>1. i \in 1..((Len(s) + 1) - 1)
      BY <1>2
    <2>2. Ended \in LogMessages
      BY DEF LogMessages, Ended
    <2> QED
      BY <2>1, <2>2 DEF LogOf, LogBefore
  <1>4. ~IsEnd(s[i])
    BY <1>2, <1>3, MessageKinds, KindsDiffer
  <1> QED
    BY <1>1, <1>4 DEF InPlace

-----------------------------------------------------------------------------
(***************************************************************************)
(* The goroutines.                                                         *)
(***************************************************************************)
\* The channel takes a message while there is room, and is closed otherwise.
LEMMA TrySendType ==
    ASSUME TypeOK, NEW m \in Messages, TrySend(m)
    PROVE  /\ writeCh' \in Seq(Messages) /\ Len(writeCh') <= WriteChannelSize
           /\ panic' \in {"none", "concurrent write", "send on closed channel"}
           /\ writeCh' = writeCh \/ writeCh' = Append(writeCh, m)
           /\ ~chClosed /\ HasRoom => writeCh' = Append(writeCh, m)
  <1>1. /\ writeCh \in Seq(Messages) /\ Len(writeCh) \in Nat
        /\ Len(writeCh) <= WriteChannelSize /\ WriteChannelSize \in Nat
    BY LenProperties, ConsoleAssumption DEF TypeOK
  <1>2. /\ Append(writeCh, m) \in Seq(Messages)
        /\ Len(Append(writeCh, m)) = Len(writeCh) + 1
    BY <1>1, AppendProperties
  <1>3. HasRoom => Len(Append(writeCh, m)) <= WriteChannelSize
    BY <1>1, <1>2 DEF HasRoom
  <1>4. writeCh' = writeCh \/ (HasRoom /\ writeCh' = Append(writeCh, m))
    BY DEF TrySend
  <1>5. panic' \in {"none", "concurrent write", "send on closed channel"}
    BY DEF TrySend, TypeOK
  <1>6. ~chClosed /\ HasRoom => writeCh' = Append(writeCh, m)
    BY DEF TrySend
  <1> QED
    BY <1>1, <1>2, <1>3, <1>4, <1>5, <1>6

\* What the handler and the goroutines send besides the log.
LEMMA SentMessages ==
    /\ {Message("connected"), Message("output"), Message("error")} \subseteq Others
    /\ Message("stream_ended") = Ended
  BY DEF Others, Ended

\* The steps of the handler keep the types.
LEMMA HandlerType ==
    ASSUME TypeOK, Handler \/ \E c \in Commands : ReadCommand(c)
    PROVE  TypeOK'
  <1>1. CASE SendConnected
    <2>1. /\ writeCh' \in Seq(Messages) /\ Len(writeCh') <= WriteChannelSize
          /\ panic' \in {"none", "concurrent write", "send on closed channel"}
      BY <1>1, TrySendType, SentMessages, MessageKinds DEF SendConnected
    <2> QED
      BY <1>1, <2>1 DEF SendConnected, TypeOK, clientVars, writerVars
  <1>2. CASE ReadFails \/ CloseWriteCh \/ \E c \in Commands : ReadCommand(c)
    BY <1>2 DEF ReadFails, CloseWriteCh, ReadCommand, TypeOK, clientVars, writerVars,
                logVars
  <1> QED
    BY <1>1, <1>2 DEF Handler

\* So do those of the pinger, of the client and none at all.
LEMMA PingerType ==
    ASSUME TypeOK, Pinger \/ ClientLeaves \/ UNCHANGED vars
    PROVE  TypeOK'
  <1>1. CASE Pinger
    BY <1>1 DEF Pinger, PingTick, PingWritten, PingStops, BeginWrite, TypeOK,
                pingerOnly, clientVars, writerVars, logVars
  <1>2. CASE ClientLeaves \/ UNCHANGED vars
    <2>1. /\ client' \in {"live", "gone"}
          /\ UNCHANGED <<connOpen, ctxDone, writeCh, chClosed, main, pinger,
                         writer, msg, logs, chunks, cmd, received, panic>>
      BY <1>2 DEF ClientLeaves, TypeOK, vars, writerVars, logVars
    <2>2. UNCHANGED writeCh => Len(writeCh') <= WriteChannelSize
      BY DEF TypeOK
    <2>3. writeCh' \in Seq(Messages) /\ received' \in Seq(Messages) /\ msg' \in Messages
      BY <2>1 DEF TypeOK
    <2>4. cmd' \in [Commands -> {"unsent", "exec", "stdout", "stderr", "done"}]
      BY <2>1 DEF TypeOK
    <2>5. chunks' \in 0..MaxChunks
      BY <2>1 DEF TypeOK
    <2>6. connOpen' \in BOOLEAN /\ ctxDone' \in BOOLEAN /\ chClosed' \in BOOLEAN
      BY <2>1 DEF TypeOK
    <2>7. UNCHANGED <<main, pinger, writer, logs, panic, writeCh>>
      BY <2>1
    <2> QED
      BY <2>1, <2>2, <2>3, <2>4, <2>5, <2>6, <2>7, Zenon DEF TypeOK
  <1> QED
    BY <1>1, <1>2

\* Those of the writer.
LEMMA WriterType ==
    ASSUME TypeOK, Writer
    PROVE  TypeOK'
  <1>1. /\ writeCh \in Seq(Messages) /\ received \in Seq(Messages)
        /\ Len(writeCh) <= WriteChannelSize /\ msg \in Messages
        /\ Len(writeCh) \in Nat /\ WriteChannelSize \in Nat
    BY LenProperties, ConsoleAssumption DEF TypeOK
  <1>2. CASE WriterReceives
    <2>1. /\ writeCh' \in Seq(Messages) /\ Len(writeCh') <= WriteChannelSize
          /\ msg' \in Messages
      <3>1. CASE writeCh # <<>> /\ msg' = Head(writeCh) /\ writeCh' = Tail(writeCh)
        <4>1. Len(Tail(writeCh)) = Len(writeCh) - 1 /\ Tail(writeCh) \in Seq(Messages)
              /\ Head(writeCh) \in Messages
          BY <1>1, <3>1, HeadTailProperties
        <4>2. Len(Tail(writeCh)) <= WriteChannelSize
          BY <1>1, <4>1
        <4> QED
          BY <3>1, <4>1, <4>2
      <3>2. CASE UNCHANGED <<msg, writeCh>>
        BY <1>1, <3>2
      <3> QED
        BY <1>2, <3>1, <3>2 DEF WriterReceives
    <2>2. /\ writer' \in {"waiting", "writing", "closing", "done"}
          /\ panic' \in {"none", "concurrent write", "send on closed channel"}
      <3>1. writer' \in {"writing", "closing"} /\ BeginWrite(pinger)
        BY <1>2 DEF WriterReceives
      <3>2. panic \in {"none", "concurrent write", "send on closed channel"}
        BY DEF TypeOK
      <3> QED
        BY <3>1, <3>2 DEF BeginWrite
    <2>3. UNCHANGED <<writerOnly, connOpen, received>>
      BY <1>2 DEF WriterReceives
    <2> QED
      BY <2>1, <2>2, <2>3 DEF TypeOK, writerOnly, logVars
  <1>3. CASE WriterWritten
    <2>1. received' \in Seq(Messages)
      <3>1. Append(received, msg) \in Seq(Messages)
        BY <1>1, AppendProperties
      <3>2. received' = received \/ received' = Append(received, msg)
        BY <1>3 DEF WriterWritten
      <3> QED
        BY <1>1, <3>1, <3>2
    <2>2. /\ writer' \in {"waiting", "writing", "closing", "done"}
          /\ connOpen' \in BOOLEAN
      BY <1>3 DEF WriterWritten, TypeOK
    <2>3. UNCHANGED <<client, ctxDone, chClosed, main, pinger, logs, chunks, cmd,
                      msg, writeCh, panic>>
      BY <1>3 DEF WriterWritten, writerOnly, logVars
    <2>4. /\ writeCh' \in Seq(Messages) /\ Len(writeCh') <= WriteChannelSize
          /\ msg' \in Messages /\ chunks' \in 0..MaxChunks
      BY <2>3 DEF TypeOK
    <2>5. cmd' \in [Commands -> {"unsent", "exec", "stdout", "stderr", "done"}]
      BY <2>3 DEF TypeOK
    <2>6. ctxDone' \in BOOLEAN /\ chClosed' \in BOOLEAN
      BY <2>3 DEF TypeOK
    <2>7. UNCHANGED <<client, main, pinger, logs, panic>>
      BY <2>3
    <2> QED
      BY <2>1, <2>2, <2>4, <2>5, <2>6, <2>7, Zenon DEF TypeOK
  <1>4. CASE WriterStops
    <2>1. received' \in Seq(Messages)
      BY <1>1, <1>4 DEF WriterStops
    <2>2. /\ writer' \in {"waiting", "writing", "closing", "done"}
          /\ connOpen' \in BOOLEAN
      BY <1>4 DEF WriterStops
    <2>3. UNCHANGED <<client, ctxDone, chClosed, main, pinger, logs, chunks, cmd,
                      msg, writeCh, panic>>
      BY <1>4 DEF WriterStops, writerOnly, logVars
    <2>4. /\ writeCh' \in Seq(Messages) /\ Len(writeCh') <= WriteChannelSize
          /\ msg' \in Messages /\ chunks' \in 0..MaxChunks
      BY <2>3 DEF TypeOK
    <2>5. cmd' \in [Commands -> {"unsent", "exec", "stdout", "stderr", "done"}]
      BY <2>3 DEF TypeOK
    <2>6. ctxDone' \in BOOLEAN /\ chClosed' \in BOOLEAN
      BY <2>3 DEF TypeOK
    <2>7. UNCHANGED <<client, main, pinger, logs, panic>>
      BY <2>3
    <2> QED
      BY <2>1, <2>2, <2>4, <2>5, <2>6, <2>7, Zenon DEF TypeOK
  <1> QED
    BY <1>2, <1>3, <1>4 DEF Writer

\* Those of the log streamer.
LEMMA StreamType ==
    ASSUME TypeOK, Ordering, StreamPodLogs
    PROVE  TypeOK'
  <1>0. chunks \in 0..MaxChunks /\ MaxChunks \in Nat
    BY ConsoleAssumption DEF TypeOK
  <1>1. /\ writeCh \in Seq(Messages) /\ Len(writeCh) <= WriteChannelSize
        /\ panic \in {"none", "concurrent write", "send on closed channel"}
    BY DEF TypeOK
  <1>2. CASE ReadChunk
    <2>1. chunks' \in 0..MaxChunks
      <3>1. chunks' = chunks + 1 /\ chunks < MaxChunks
        BY <1>2, Zenon DEF ReadChunk
      <3> QED
        BY <1>0, <3>1
    <2>2. UNCHANGED <<client, received, connOpen, ctxDone, chClosed, main, pinger,
                      writer, msg, cmd, writeCh, panic>>
      BY <1>2 DEF ReadChunk, logsOnly, clientVars, writerVars
    <2>3. writeCh' \in Seq(Messages) /\ received' \in Seq(Messages) /\ msg' \in Messages
      BY <2>2 DEF TypeOK
    <2>4. cmd' \in [Commands -> {"unsent", "exec", "stdout", "stderr", "done"}]
      BY <2>2 DEF TypeOK
    <2>5. connOpen' \in BOOLEAN /\ ctxDone' \in BOOLEAN /\ chClosed' \in BOOLEAN
      BY <2>2 DEF TypeOK
    <2>6. Len(writeCh') <= WriteChannelSize
      BY <2>2 DEF TypeOK
    <2>7. UNCHANGED <<client, main, pinger, writer, panic>>
      BY <2>2
    <2>8. logs' \in {"unstarted", "opening", "reading", "sending", "ending", "done"}
      BY <1>2 DEF ReadChunk
    <2> QED
      BY <2>1, <2>3, <2>4, <2>5, <2>6, <2>7, <2>8, Zenon DEF TypeOK
  <1>3. CASE OpenStream \/ StreamEnds \/ SendChunk \/ SendEnded
    <2>1. \/ UNCHANGED <<writeCh, panic>>
          \/ \E m \in Messages : TrySend(m)
      <3>1. CASE SendChunk /\ ~(UNCHANGED <<writeCh, panic>>)
        <4>1. chunks > 0
          BY <3>1 DEF SendChunk, Ordering
        <4>2. chunks \in 1..MaxChunks
          BY <1>0, <4>1
        <4>3. Chunk(chunks) \in Messages
          BY <4>2, MessageKinds
        <4> QED
          BY <3>1, <4>3 DEF SendChunk
      <3> QED
        BY <1>3, <3>1, SentMessages, MessageKinds DEF OpenStream, StreamEnds, SendEnded
    <2>2. /\ writeCh' \in Seq(Messages) /\ Len(writeCh') <= WriteChannelSize
          /\ panic' \in {"none", "concurrent write", "send on closed channel"}
      BY <1>1, <2>1, TrySendType
    <2>3. /\ logs' \in {"unstarted", "opening", "reading", "sending", "ending", "done"}
          /\ UNCHANGED <<logsOnly, chunks>>
      BY <1>3 DEF OpenStream, StreamEnds, SendChunk, SendEnded
    <2> QED
      BY <2>2, <2>3 DEF TypeOK, logsOnly, clientVars, writerVars
  <1> QED
    BY <1>2, <1>3 DEF StreamPodLogs

\* Those of a command.
LEMMA CommandType ==
    ASSUME TypeOK, NEW c \in Commands, ExecCommand(c)
    PROVE  TypeOK'
  <1>1. cmd' \in [Commands -> {"unsent", "exec", "stdout", "stderr", "done"}]
    BY DEF ExecCommand, ExecEnds, SendOutput, SendError, TypeOK
  <1>2. \/ UNCHANGED <<writeCh, panic>>
        \/ \E m \in Messages : TrySend(m)
    BY SentMessages, MessageKinds DEF ExecCommand, ExecEnds, SendOutput, SendError
  <1>3. /\ writeCh' \in Seq(Messages) /\ Len(writeCh') <= WriteChannelSize
        /\ panic' \in {"none", "concurrent write", "send on closed channel"}
    BY <1>2, TrySendType DEF TypeOK
  <1>4. UNCHANGED <<client, connOpen, ctxDone, chClosed, main, pinger, writer, msg,
                    logs, chunks, received>>
    BY DEF ExecCommand, ExecEnds, SendOutput, SendError, cmdOnly, clientVars,
           writerVars, logVars
  <1>5. received' \in Seq(Messages) /\ msg' \in Messages /\ chunks' \in 0..MaxChunks
    BY <1>4 DEF TypeOK
  <1>6. connOpen' \in BOOLEAN /\ ctxDone' \in BOOLEAN /\ chClosed' \in BOOLEAN
    BY <1>4 DEF TypeOK
  <1>7. UNCHANGED <<client, main, pinger, writer, logs>>
    BY <1>4
  <1> QED
    BY <1>1, <1>3, <1>5, <1>6, <1>7, Zenon DEF TypeOK

\* Every step keeps the types.
LEMMA NextType ==
    ASSUME TypeOK, Ordering, [Next]_vars
    PROVE  TypeOK'
  BY HandlerType, PingerType, WriterType, StreamType, CommandType DEF Next

\* The goroutines start and end in order: the handler closes the channel after
\* the connection has failed, the writer closes the connection when it returns.
LEMMA NextOrdering ==
    ASSUME TypeOK, Ordering, [Next]_vars
    PROVE  Ordering'
  <1>1. CASE Handler \/ \E c \in Commands : ReadCommand(c)
    <2>1. CASE SendConnected
      BY <2>1 DEF Ordering, SendConnected, clientVars, writerVars
    <2>2. CASE ReadFails
      BY <2>2 DEF Ordering, ReadFails, clientVars, writerVars, logVars
    <2>3. CASE CloseWriteCh
      BY <2>3 DEF Ordering, CloseWriteCh, clientVars, writerVars, logVars
    <2>4. ASSUME NEW c \in Commands, ReadCommand(c) PROVE Ordering'
      BY <2>4 DEF Ordering, ReadCommand, clientVars, writerVars, logVars
    <2> QED
      BY <1>1, <2>1, <2>2, <2>3, <2>4 DEF Handler
  <1>2. CASE Pinger
    BY <1>2 DEF Ordering, Pinger, PingTick, PingWritten, PingStops, pingerOnly,
                clientVars, writerVars, logVars
  <1>3. CASE ClientLeaves \/ UNCHANGED vars
    BY <1>3 DEF Ordering, ClientLeaves, vars, writerVars, logVars
  <1>4. CASE Writer
    BY <1>4 DEF Ordering, Writer, WriterReceives, WriterWritten, WriterStops,
                writerOnly, logVars
  <1>5. CASE StreamPodLogs
    <2>1. UNCHANGED <<main, connOpen, writer, client, chClosed>> /\ logs # "unstarted"
      BY <1>5 DEF StreamPodLogs, OpenStream, ReadChunk, StreamEnds, SendChunk,
                  SendEnded, logsOnly, clientVars, writerVars
    <2>2. logs' = "sending" => chunks' = chunks + 1
      BY <1>5 DEF StreamPodLogs, OpenStream, ReadChunk, StreamEnds, SendChunk, SendEnded
    <2>3. chunks \in 0..MaxChunks
      BY DEF TypeOK
    <2>4. chunks + 1 > 0
      BY <2>3, ConsoleAssumption
    <2> QED
      BY <2>1, <2>2, <2>4 DEF Ordering
  <1>6. ASSUME NEW c \in Commands, ExecCommand(c) PROVE Ordering'
    BY <1>6 DEF Ordering, ExecCommand, ExecEnds, SendOutput, SendError, cmdOnly,
                clientVars, writerVars, logVars
  <1> QED
    BY <1>1, <1>2, <1>3, <1>4, <1>5, <1>6 DEF Next

-----------------------------------------------------------------------------
(***************************************************************************)
(* The log on its way.                                                     *)
(***************************************************************************)
LogInv == LogsInOrder /\ Flowing /\ EndIsFinal

\* What the client has got is in order from the start.
LEMMA ReceivedOrder ==
    ASSUME NEW s, NEW read
    PROVE  InOrder({}, s, read)
             <=> \A i \in 1..Len(s) : InPlace(s[i], LogBefore(s, i), read)
  <1>1. \A i : {} \cup LogBefore(s, i) = LogBefore(s, i)
    OBVIOUS
  <1> QED
    BY <1>1 DEF InOrder

\* Once the end is on its way the streamer has returned.
LEMMA EndSent ==
    ASSUME SentSoFar, Ended \in Sent
    PROVE  logs = "done"
  BY LogParts DEF SentSoFar

\* Nothing arrives any more: what has arrived stays in order as long as the
\* streamer does not go on after the end.
LEMMA StoppedKeeps ==
    ASSUME IInv, UNCHANGED received, client' = "gone" \/ writer' = "done",
           logs = "done" => UNCHANGED <<logs, chunks>>
    PROVE  LogInv'
  <1>1. Got' = Got
    BY DEF Got
  <1>2. EndIsFinal'
    BY <1>1 DEF IInv, EndIsFinal
  <1>3. Flowing'
    BY DEF Flowing
  <1>4. LogsInOrder'
    <2>1. CASE UNCHANGED chunks
      BY <2>1 DEF IInv, LogsInOrder
    <2>2. CASE logs # "done"
      <3>1. Ended \notin LogOf(received)
        BY <2>2 DEF IInv, EndIsFinal, Got, Ended
      <3>2. received \in Seq(Messages) /\ InOrder({}, received, chunks)
        BY ReceivedOrder DEF IInv, TypeOK, LogsInOrder
      <3>3. InOrder({}, received, chunks')
        BY <3>1, <3>2, ReadOnOrder
      <3> QED
        BY <3>3, ReceivedOrder DEF LogsInOrder
    <2> QED
      BY <2>1, <2>2
  <1> QED
    BY <1>2, <1>3, <1>4 DEF LogInv

\* Messages that are not of the log make no difference, nor do steps of the
\* streamer that send none.
LEMMA OthersKeep ==
    ASSUME IInv, UNCHANGED <<received, writer, msg, chunks>>,
           client' = client,
           \/ UNCHANGED writeCh
           \/ \E m \in Others : writeCh' = Append(writeCh, m),
           \/ UNCHANGED logs
           \/ logs \notin {"sending", "done"} /\ logs' # "sending"
           \/ logs = "sending" /\ logs' = "done"
    PROVE  LogInv'
  <1>1. Got' = Got /\ Held' = Held
    BY DEF Got, Held
  <1>2. EndIsFinal'
    BY <1>1 DEF IInv, EndIsFinal
  <1>3. LogsInOrder'
    BY DEF IInv, LogsInOrder
  <1>4. ASSUME InOrder(Got \cup Held, writeCh, chunks)
        PROVE  /\ InOrder(Got \cup Held, writeCh', chunks)
               /\ LogOf(writeCh') = LogOf(writeCh)
    <2>1. ASSUME NEW m \in Others, writeCh' = Append(writeCh, m)
          PROVE  /\ InOrder(Got \cup Held, writeCh', chunks)
                 /\ LogOf(writeCh') = LogOf(writeCh)
      <3>1. InPlace(m, (Got \cup Held) \cup LogOf(writeCh), chunks)
        BY KindsDiffer DEF InPlace
      <3>2. m \in Messages /\ LogPart(m) = {} /\ writeCh \in Seq(Messages)
        BY MessageKinds, LogParts DEF IInv, TypeOK
      <3> QED
        BY <1>4, <2>1, <3>1, <3>2, AppendOrder
    <2> QED
      BY <1>4, <2>1
  <1>5. Flowing'
    <2> SUFFICES ASSUME client = "live", writer # "done"
                 PROVE  /\ writer' = "writing" => InPlace(msg, Got, chunks)'
                        /\ InOrder(Got \cup Held, writeCh, chunks)'
                        /\ SentSoFar'
      BY DEF Flowing
    <2>1. /\ writer = "writing" => InPlace(msg, Got, chunks)
          /\ InOrder(Got \cup Held, writeCh, chunks)
          /\ SentSoFar
      BY DEF IInv, Flowing
    <2>2. Sent' = Sent
      BY <1>1, <1>4, <2>1 DEF Sent
    <2>3. SentSoFar'
      BY <2>1, <2>2 DEF SentSoFar
    <2>4. InOrder(Got \cup Held, writeCh, chunks)'
      BY <1>1, <1>4, <2>1
    <2>5. writer' = "writing" => InPlace(msg, Got, chunks)'
      BY <1>1, <2>1
    <2> QED
      BY <2>3, <2>4, <2>5
  <1> QED
    BY <1>2, <1>3, <1>5 DEF LogInv

\* The writer takes a message from the channel (the writer goroutine).
LEMMA ReceiveKeeps ==
    ASSUME IInv, WriterReceives
    PROVE  LogInv'
  <1>1. /\ UNCHANGED <<received, client, chunks, logs>> /\ writer = "waiting"
        /\ writeCh \in Seq(Messages)
    BY DEF WriterReceives, writerOnly, logVars, IInv, TypeOK
  <1>2. Got' = Got /\ Held = {}
    BY <1>1 DEF Got, Held
  <1>3. LogsInOrder' /\ EndIsFinal'
    BY <1>1, <1>2 DEF IInv, LogsInOrder, EndIsFinal
  <1>4. ASSUME client = "live"
        PROVE  /\ writer' = "writing" => InPlace(msg, Got, chunks)'
               /\ InOrder(Got \cup Held, writeCh, chunks)'
               /\ SentSoFar'
    <2>1. InOrder(Got, writeCh, chunks) /\ SentSoFar
      <3>1. Got \cup Held = Got
        BY <1>2
      <3> QED
        BY <1>1, <1>4, <3>1 DEF IInv, Flowing
    <2>2. CASE writeCh # <<>> /\ msg' = Head(writeCh) /\ writeCh' = Tail(writeCh)
               /\ writer' = "writing"
      <3>1. Held' = LogPart(Head(writeCh))
        BY <2>2 DEF Held
      <3>2. /\ InPlace(Head(writeCh), Got, chunks)
            /\ InOrder(Got \cup LogPart(Head(writeCh)), Tail(writeCh), chunks)
            /\ LogOf(writeCh) = LogPart(Head(writeCh)) \cup LogOf(Tail(writeCh))
        BY <1>1, <2>1, <2>2, HeadOrder
      <3>3. Sent' = Sent
        BY <1>2, <2>2, <3>1, <3>2 DEF Sent
      <3>4. SentSoFar'
        BY <1>1, <2>1, <3>3 DEF SentSoFar
      <3> QED
        BY <1>1, <1>2, <2>2, <3>1, <3>2, <3>4
    <2>3. CASE UNCHANGED <<msg, writeCh>> /\ writer' = "closing"
      <3>1. Held' = {}
        BY <2>3 DEF Held
      <3>2. Sent' = Sent
        BY <1>2, <2>3, <3>1 DEF Sent
      <3>3. SentSoFar'
        BY <1>1, <2>1, <3>2 DEF SentSoFar
      <3>4. InOrder(Got \cup Held, writeCh, chunks)'
        <4>1. Got \cup {} = Got
          OBVIOUS
        <4> QED
          BY <1>1, <1>2, <2>1, <2>3, <3>1, <4>1
      <3> QED
        BY <2>3, <3>3, <3>4
    <2> QED
      BY <2>2, <2>3 DEF WriterReceives
  <1>5. Flowing'
    BY <1>1, <1>4 DEF Flowing
  <1> QED
    BY <1>3, <1>5 DEF LogInv

\* The message reaches the client, or is lost with the connection.
LEMMA WrittenKeeps ==
    ASSUME IInv, WriterWritten
    PROVE  LogInv'
  <1>1. /\ UNCHANGED <<client, chunks, logs, writeCh, msg>> /\ writer = "writing"
        /\ received \in Seq(Messages) /\ msg \in Messages
        /\ client \in {"live", "gone"}
    BY DEF WriterWritten, writerOnly, logVars, IInv, TypeOK
  <1>2. CASE client = "gone" \/ writer' = "done"
    <2>1. UNCHANGED received
      BY <1>2 DEF WriterWritten
    <2> QED
      BY <1>1, <1>2, <2>1, StoppedKeeps
  <1>3. CASE client = "live" /\ writer' # "done"
    <2>1. received' = Append(received, msg) /\ writer' = "waiting"
      BY <1>3 DEF WriterWritten
    <2>2. /\ InPlace(msg, Got, chunks)
          /\ InOrder(Got \cup Held, writeCh, chunks)
          /\ SentSoFar
      BY <1>1, <1>3 DEF IInv, Flowing
    <2>3. Held = LogPart(msg) /\ Held' = {}
      BY <1>1, <2>1 DEF Held
    <2>4. InOrder({}, received', chunks) /\ Got' = Got \cup Held
      <3>1. InOrder({}, received, chunks)
        BY ReceivedOrder DEF IInv, LogsInOrder
      <3>2. {} \cup LogOf(received) = Got
        BY DEF Got
      <3> QED
        BY <1>1, <2>1, <2>2, <2>3, <3>1, <3>2, AppendOrder DEF Got
    <2>5. LogsInOrder'
      BY <1>1, <2>4, ReceivedOrder DEF LogsInOrder
    <2>6. Got' \cup Held' = Got \cup Held /\ Sent' = Sent
      BY <1>1, <2>3, <2>4 DEF Sent
    <2>7. SentSoFar'
      BY <1>1, <2>2, <2>6 DEF SentSoFar
    <2>8. EndIsFinal'
      <3>1. Ended \in Got' => Ended \in Sent
        BY <2>4 DEF Sent
      <3> QED
        BY <1>1, <2>2, <3>1, EndSent DEF EndIsFinal, Ended
    <2>9. InOrder(Got \cup Held, writeCh, chunks)'
      BY <1>1, <2>2, <2>6
    <2> QED
      BY <2>1, <2>5, <2>7, <2>8, <2>9 DEF LogInv, Flowing
  <1> QED
    BY <1>1, <1>2, <1>3

\* A chunk is read from the log (streamPodLogs).
LEMMA ReadKeeps ==
    ASSUME IInv, ReadChunk
    PROVE  LogInv'
  <1>1. /\ UNCHANGED <<received, client, writer, msg, writeCh>>
        /\ logs = "reading" /\ logs' = "sending" /\ chunks' = chunks + 1
        /\ writeCh \in Seq(Messages) /\ msg \in Messages
        /\ client \in {"live", "gone"}
    BY DEF ReadChunk, logsOnly, clientVars, writerVars, IInv, TypeOK
  <1>2. CASE client = "gone" \/ writer = "done"
    BY <1>1, <1>2, StoppedKeeps
  <1>3. CASE client = "live" /\ writer # "done"
    <2>1. /\ writer = "writing" => InPlace(msg, Got, chunks)
          /\ InOrder(Got \cup Held, writeCh, chunks)
          /\ SentSoFar
      BY <1>3 DEF IInv, Flowing
    <2>2. Sent = FirstChunks(chunks) /\ Ended \notin Sent
      BY <1>1, <2>1, EndSent DEF SentSoFar
    <2>3. Got' = Got /\ Held' = Held /\ Sent' = Sent
      BY <1>1 DEF Got, Held, Sent
    <2>4. LogsInOrder'
      <3>1. received \in Seq(Messages) /\ InOrder({}, received, chunks)
        BY ReceivedOrder DEF IInv, TypeOK, LogsInOrder
      <3>2. Ended \notin LogOf(received)
        BY <2>2 DEF Sent, Got
      <3>3. InOrder({}, received, chunks')
        BY <3>1, <3>2, ReadOnOrder
      <3> QED
        BY <1>1, <3>3, ReceivedOrder DEF LogsInOrder
    <2>5. InOrder(Got \cup Held, writeCh, chunks')
      <3>1. Ended \notin LogOf(writeCh)
        BY <2>2 DEF Sent
      <3> QED
        BY <1>1, <2>1, <3>1, ReadOnOrder
    <2>6. writer = "writing" => InPlace(msg, Got, chunks')
      <3> SUFFICES ASSUME writer = "writing" PROVE InPlace(msg, Got, chunks')
        OBVIOUS
      <3>1. Ended \notin LogPart(msg)
        BY <2>2 DEF Sent, Held
      <3>2. ~IsEnd(msg)
        BY <1>1, <3>1, MessageKinds, KindsDiffer, LogParts
      <3> QED
        BY <2>1, <3>2 DEF InPlace
    <2>7. SentSoFar'
      <3>1. chunks \in 0..MaxChunks
        BY DEF IInv, TypeOK
      <3>2. chunks' > 0 /\ chunks' - 1 = chunks
        BY <1>1, <3>1, ConsoleAssumption
      <3> QED
        BY <1>1, <2>2, <2>3, <3>2 DEF SentSoFar
    <2>8. EndIsFinal'
      BY <2>2, <2>3 DEF EndIsFinal, Ended, Sent
    <2> QED
      BY <1>1, <2>3, <2>4, <2>5, <2>6, <2>7, <2>8 DEF LogInv, Flowing
  <1> QED
    BY <1>1, <1>2, <1>3

\* The log's next message goes into the channel, while messages can arrive.
LEMMA SendKeeps ==
    ASSUME IInv, UNCHANGED <<received, client, writer, msg, chunks>>,
           client = "live", writer # "done",
           NEW m \in Messages, writeCh' = Append(writeCh, m),
           InPlace(m, Sent, chunks)
    PROVE  /\ Sent' = Sent \cup LogPart(m)
           /\ SentSoFar' /\ EndIsFinal' => LogInv'
  <1>1. Got' = Got /\ Held' = Held
    BY DEF Got, Held
  <1>2. /\ writer = "writing" => InPlace(msg, Got, chunks)
        /\ InOrder(Got \cup Held, writeCh, chunks)
        /\ writeCh \in Seq(Messages)
    BY DEF IInv, Flowing, TypeOK
  <1>3. /\ InOrder(Got \cup Held, writeCh', chunks)
        /\ LogOf(writeCh') = LogOf(writeCh) \cup LogPart(m)
    BY <1>2, AppendOrder DEF Sent
  <1>4. Sent' = Sent \cup LogPart(m)
    BY <1>1, <1>3 DEF Sent
  <1>5. LogsInOrder'
    BY DEF IInv, LogsInOrder
  <1>6. InOrder(Got \cup Held, writeCh, chunks)'
    BY <1>1, <1>3
  <1>7. writer' = "writing" => InPlace(msg, Got, chunks)'
    BY <1>1, <1>2
  <1> QED
    BY <1>4, <1>5, <1>6, <1>7 DEF LogInv, Flowing

\* A chunk is sent, or given up when the context is done (streamPodLogs).
LEMMA ChunkKeeps ==
    ASSUME IInv, SendChunk
    PROVE  LogInv'
  <1>1. /\ UNCHANGED <<received, client, writer, msg, chunks>>
        /\ logs = "sending" /\ client \in {"live", "gone"} /\ TypeOK
    BY DEF SendChunk, logsOnly, clientVars, writerVars, IInv, TypeOK
  <1>2. CASE client = "gone" \/ writer = "done"
    BY <1>1, <1>2, StoppedKeeps
  <1>3. CASE client = "live" /\ logs' = "done" /\ UNCHANGED writeCh
    BY <1>1, <1>3, OthersKeep
  <1>4. CASE /\ client = "live" /\ writer # "done"
             /\ chClosed \/ HasRoom
             /\ TrySend(Chunk(chunks))
             /\ logs' = "reading"
    <2>1. ~chClosed
      BY <1>4 DEF IInv, Ordering
    <2>2. chunks \in 1..MaxChunks /\ chunks \in Nat /\ chunks > 0
      <3>1. chunks \in 0..MaxChunks /\ chunks > 0
        BY <1>1 DEF TypeOK, IInv, Ordering
      <3> QED
        BY <3>1, ConsoleAssumption
    <2>3. Chunk(chunks) \in Messages /\ LogPart(Chunk(chunks)) = {Chunk(chunks)}
      BY <2>2, MessageKinds, LogParts
    <2>4. writeCh' = Append(writeCh, Chunk(chunks))
      BY <1>1, <1>4, <2>1, <2>3, TrySendType
    <2>5. Sent = FirstChunks(chunks - 1)
      BY <1>1, <1>4 DEF IInv, Flowing, SentSoFar
    <2>6. InPlace(Chunk(chunks), Sent, chunks)
      BY <2>5, KindsDiffer DEF InPlace
    <2>7. /\ Sent' = Sent \cup {Chunk(chunks)}
          /\ SentSoFar' /\ EndIsFinal' => LogInv'
      BY <1>1, <1>4, <2>3, <2>4, <2>6, SendKeeps
    <2>8. Sent' = FirstChunks(chunks')
      BY <1>1, <2>2, <2>5, <2>7, OneMoreChunk
    <2>9. SentSoFar'
      BY <1>4, <2>8 DEF SentSoFar
    <2>10. EndIsFinal'
      <3>1. Got' = Got /\ Ended \notin Got
        BY <1>1, <2>5, LogParts DEF Got, Sent
      <3> QED
        BY <3>1 DEF EndIsFinal, Ended
    <2> QED
      BY <2>7, <2>9, <2>10
  <1> QED
    BY <1>1, <1>2, <1>3, <1>4 DEF SendChunk

\* The client is told that the stream has ended, unless the channel is full.
LEMMA EndKeeps ==
    ASSUME IInv, SendEnded
    PROVE  LogInv'
  <1>1. /\ UNCHANGED <<received, client, writer, msg, chunks>>
        /\ logs = "ending" /\ logs' = "done" /\ client \in {"live", "gone"} /\ TypeOK
    BY DEF SendEnded, logsOnly, clientVars, writerVars, IInv, TypeOK
  <1>2. CASE client = "gone" \/ writer = "done"
    BY <1>1, <1>2, StoppedKeeps
  <1>3. CASE UNCHANGED writeCh
    BY <1>1, <1>3, OthersKeep
  <1>4. CASE client = "live" /\ writer # "done" /\ writeCh' = Append(writeCh, Ended)
    <2>1. Sent = FirstChunks(chunks)
      BY <1>1, <1>4 DEF IInv, Flowing, SentSoFar
    <2>2. InPlace(Ended, Sent, chunks) /\ Ended \in Messages
      BY <2>1, KindsDiffer, MessageKinds DEF InPlace
    <2>3. /\ Sent' = Sent \cup {Ended}
          /\ SentSoFar' /\ EndIsFinal' => LogInv'
      BY <1>1, <1>4, <2>2, SendKeeps, LogParts
    <2>4. SentSoFar' /\ EndIsFinal'
      BY <1>1, <2>1, <2>3 DEF SentSoFar, EndIsFinal, Ended
    <2> QED
      BY <2>3, <2>4
  <1>5. writeCh' = writeCh \/ writeCh' = Append(writeCh, Ended)
    <2>1. TrySend(Ended) /\ Ended \in Messages
      BY MessageKinds DEF SendEnded, Ended
    <2> QED
      BY <1>1, <2>1, TrySendType
  <1> QED
    BY <1>1, <1>2, <1>3, <1>4, <1>5

\* Every step keeps the log in order on its way.
LEMMA NextLog ==
    ASSUME IInv, [Next]_vars
    PROVE  LogInv'
  <1>1. TypeOK /\ Ordering
    BY DEF IInv
  <1>2. ASSUME NEW m \in Others, TrySend(m)
        PROVE  UNCHANGED writeCh \/ \E o \in Others : writeCh' = Append(writeCh, o)
    BY <1>1, <1>2, MessageKinds, TrySendType
  <1>3. CASE SendConnected
    <2>1. /\ UNCHANGED <<received, client, writer, msg, chunks>>
          /\ logs = "unstarted" /\ logs' = "opening"
          /\ UNCHANGED writeCh \/ \E o \in Others : writeCh' = Append(writeCh, o)
      BY <1>1, <1>2, <1>3, SentMessages
      DEF SendConnected, Ordering, clientVars, writerVars
    <2> QED
      BY <2>1, OthersKeep
  <1>4. CASE OpenStream
    <2>1. /\ UNCHANGED <<received, client, writer, msg, chunks>>
          /\ logs = "opening" /\ logs' # "sending"
          /\ UNCHANGED writeCh \/ \E o \in Others : writeCh' = Append(writeCh, o)
      BY <1>2, <1>4, SentMessages DEF OpenStream, logsOnly, clientVars, writerVars
    <2> QED
      BY <2>1, OthersKeep
  <1>5. CASE StreamEnds
    <2>1. /\ UNCHANGED <<received, client, writer, msg, chunks, writeCh>>
          /\ logs = "reading" /\ logs' = "ending"
      BY <1>5 DEF StreamEnds, logsOnly, clientVars, writerVars
    <2> QED
      BY <2>1, OthersKeep
  <1>6. ASSUME NEW c \in Commands, ExecCommand(c)
        PROVE  LogInv'
    <2>1. /\ UNCHANGED <<received, client, writer, msg, chunks, logs>>
          /\ UNCHANGED writeCh \/ \E o \in Others : writeCh' = Append(writeCh, o)
      BY <1>2, <1>6, SentMessages
      DEF ExecCommand, ExecEnds, SendOutput, SendError, cmdOnly, clientVars,
          writerVars, logVars
    <2> QED
      BY <2>1, OthersKeep
  <1>7. CASE \/ ReadFails \/ CloseWriteCh \/ Pinger \/ UNCHANGED vars
             \/ \E c \in Commands : ReadCommand(c)
    <2>1. UNCHANGED <<received, client, writer, msg, chunks, logs, writeCh>>
      BY <1>7 DEF ReadFails, CloseWriteCh, Pinger, PingTick, PingWritten, PingStops,
                  ReadCommand, vars, pingerOnly, clientVars, writerVars, logVars
    <2> QED
      BY <2>1, OthersKeep
  <1>8. CASE WriterStops
    <2>1. UNCHANGED <<received, chunks, logs>> /\ writer' = "done"
      BY <1>8 DEF WriterStops, writerOnly, logVars
    <2> QED
      BY <2>1, StoppedKeeps
  <1>9. CASE ClientLeaves
    <2>1. UNCHANGED <<received, chunks, logs>> /\ client' = "gone"
      BY <1>9 DEF ClientLeaves, writerVars, logVars
    <2> QED
      BY <2>1, StoppedKeeps
  <1> QED
    BY <1>3, <1>4, <1>5, <1>6, <1>7, <1>8, <1>9, ReceiveKeeps, WrittenKeeps,
       ReadKeeps, ChunkKeeps, EndKeeps
    DEF Next, Handler, Writer, StreamPodLogs

-----------------------------------------------------------------------------
(***************************************************************************)
(* Theorems.                                                               *)
(***************************************************************************)
\* At the start nothing has been read, sent or received.
LEMMA InitInv == Init => IInv
  <1> SUFFICES ASSUME Init PROVE IInv
    OBVIOUS
  <1>1. /\ received = <<>> /\ writeCh = <<>> /\ writer = "waiting" /\ chunks = 0
        /\ logs = "unstarted" /\ main = "upgraded"
    BY DEF Init
  <1>2. \A i \in 1..Len(<<>>) : FALSE
    OBVIOUS
  <1>3. LogOf(<<>>) = {} /\ FirstChunks(0) = {}
    BY DEF LogOf, LogBefore, FirstChunks
  <1>4. TypeOK
    <2>1. msg \in Messages
      BY SentMessages, MessageKinds DEF Init
    <2>2. /\ writeCh \in Seq(Messages) /\ received \in Seq(Messages)
          /\ Len(writeCh) <= WriteChannelSize
      BY <1>1, ConsoleAssumption
    <2>3. chunks \in 0..MaxChunks
      BY <1>1, ConsoleAssumption
    <2> QED
      BY <2>1, <2>2, <2>3 DEF Init, TypeOK
  <1>5. Ordering
    BY DEF Init, Ordering
  <1>6. LogsInOrder
    BY <1>1, <1>2 DEF LogsInOrder
  <1>7. Got = {} /\ Held = {} /\ Sent = {}
    BY <1>1, <1>3 DEF Got, Held, Sent
  <1>8. Flowing
    BY <1>1, <1>2, <1>3, <1>7 DEF Flowing, InOrder, SentSoFar
  <1>9. EndIsFinal
    BY <1>7 DEF EndIsFinal
  <1> QED
    BY <1>4, <1>5, <1>6, <1>8, <1>9 DEF IInv

\* The invariant holds always: every goroutine of the session keeps it.
THEOREM ConsoleInvariance == Spec => []IInv
  <1>1. Init => IInv
    BY InitInv
  <1>2. IInv /\ [Next]_vars => IInv'
    BY NextType, NextOrdering, NextLog DEF IInv, LogInv
  <1> QED
    BY <1>1, <1>2, PTL DEF Spec

\* The session's state is always of its type; the channel never holds more than
\* its buffer, whoever sends on it (handleConsole, streamPodLogs, execCommand).
THEOREM ConsoleTypeCorrect == Spec => []TypeOK
  <1>1. IInv => TypeOK
    BY DEF IInv
  <1> QED
    BY <1>1, ConsoleInvariance, PTL

\* The client sees the log whole and in order, for any number of chunks, any
\* size of the channel and any number of commands that send in between
\* (streamPodLogs, execCommand).
THEOREM LogWhole == Spec => []LogsInOrder
  <1>1. IInv => LogsInOrder
    BY DEF IInv
  <1> QED
    BY <1>1, ConsoleInvariance, PTL
=============================================================================
