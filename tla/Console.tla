------------------------------ MODULE Console ------------------------------
(***************************************************************************)
(* One console session, internal/api/handlers_console.go: the goroutines   *)
(* around a WebSocket.  The handler itself reads commands; a pinger, a     *)
(* writer, a log streamer and one goroutine per command run beside it and  *)
(* talk through the buffered channel writeCh and the shared context.       *)
(*                                                                         *)
(* A goroutine's step ends where another one can see what it did: at a     *)
(* channel operation, at cancel or close, at the start and the end of a    *)
(* write to the connection.  A panic in any of them ends the process, for  *)
(* none of them recovers: no step follows it.                              *)
(***************************************************************************)
EXTENDS Naturals, Sequences

CONSTANTS
    Commands,          \* commands the client sends in the session
    WriteChannelSize,  \* writeChannelSize, the buffer of writeCh
    MaxChunks          \* bound: chunks the Pod's log has

ASSUME ConsoleAssumption ==
    /\ WriteChannelSize \in Nat \ {0}
    /\ MaxChunks \in Nat

VARIABLES
    client,    \* "live", or "gone": closed, or silent past the read deadline
    connOpen,  \* the server has not closed the connection
    ctxDone,   \* the session's context is cancelled
    writeCh,   \* messages in the channel
    chClosed,  \* the channel is closed
    main,      \* handleConsole and readCommands
    pinger,    \* the ping goroutine
    writer,    \* the writer goroutine
    msg,       \* the message it took from the channel
    logs,      \* streamPodLogs
    chunks,    \* chunks read from the log so far
    cmd,       \* execCommand of each command
    received,  \* what the client got
    panic      \* "none", or why the process died

vars == <<client, connOpen, ctxDone, writeCh, chClosed, main, pinger, writer,
          msg, logs, chunks, cmd, received, panic>>

\* A chunk of the log is its number; every other message is its type.
Message(type) == [type |-> type, n |-> 0]
Chunk(n) == [type |-> "log", n |-> n]

Messages ==
    {Message(t) : t \in {"connected", "output", "error", "stream_ended"}}
        \cup {Chunk(n) : n \in 1..MaxChunks}

-----------------------------------------------------------------------------
(***************************************************************************)
(* The channel.                                                            *)
(***************************************************************************)
HasRoom == Len(writeCh) < WriteChannelSize

\* select { case writeCh <- m: default: }.  A send on a closed channel
\* panics, default or not; a full channel drops the message.
TrySend(m) ==
    IF chClosed
    THEN /\ panic' = "send on closed channel"
         /\ UNCHANGED writeCh
    ELSE /\ writeCh' = IF HasRoom THEN Append(writeCh, m) ELSE writeCh
         /\ UNCHANGED panic

-----------------------------------------------------------------------------
(***************************************************************************)
(* The connection.  It takes one writer at a time: a write that starts     *)
(* while another is under way panics.                                      *)
(***************************************************************************)
Writing(goroutine) == goroutine \in {"writing", "closing"}

BeginWrite(other) ==
    panic' = IF Writing(other) THEN "concurrent write" ELSE panic

\* A write fails once the server closed the connection, and may fail, or vanish
\* in a buffer, once the client is gone.
CanFail == ~connOpen \/ client = "gone"

-----------------------------------------------------------------------------
(***************************************************************************)
(* handleConsole after the upgrade.                                        *)
(***************************************************************************)
clientVars == <<client, received>>
writerVars == <<writer, msg>>
logVars == <<logs, chunks>>

\* The connected message; then the log streamer is started.
SendConnected ==
    /\ main = "upgraded"
    /\ TrySend(Message("connected"))
    /\ main' = "reading"
    /\ logs' = "opening"
    /\ UNCHANGED <<clientVars, connOpen, ctxDone, chClosed, pinger, writerVars,
                   chunks, cmd>>

\* readCommands starts a goroutine for a command; whatever else it reads it skips.
ReadCommand(c) ==
    /\ main = "reading"
    /\ connOpen
    /\ client = "live"
    /\ cmd[c] = "unsent"
    /\ cmd' = [cmd EXCEPT ![c] = "exec"]
    /\ UNCHANGED <<clientVars, connOpen, ctxDone, writeCh, chClosed, main,
                   pinger, writerVars, logVars, panic>>

\* Fault: the context is not cancelled.
ReadFailsWithoutCancel ==
    /\ main = "reading"
    /\ ~connOpen \/ client = "gone"
    /\ main' = "cleanup"
    /\ UNCHANGED <<clientVars, connOpen, ctxDone, writeCh, chClosed, pinger,
                   writerVars, logVars, cmd, panic>>

\* The read ends with an error and readCommands returns, cancelling the context
\* (the handler's own cancel after it changes nothing).
ReadFails ==
    /\ main = "reading"
    /\ ~connOpen \/ client = "gone"
    /\ ctxDone' = TRUE
    /\ main' = "cleanup"
    /\ UNCHANGED <<clientVars, connOpen, writeCh, chClosed, pinger, writerVars,
                   logVars, cmd, panic>>

CloseWriteCh ==
    /\ main = "cleanup"
    /\ chClosed' = TRUE
    /\ main' = "done"
    /\ UNCHANGED <<clientVars, connOpen, ctxDone, writeCh, pinger, writerVars,
                   logVars, cmd, panic>>

-----------------------------------------------------------------------------
(***************************************************************************)
(* The ping goroutine.                                                     *)
(***************************************************************************)
pingerOnly == <<clientVars, connOpen, ctxDone, writeCh, chClosed, main,
                writerVars, logVars, cmd>>

PingTick ==
    /\ pinger = "waiting"
    /\ pinger' = "writing"
    /\ BeginWrite(writer)
    /\ UNCHANGED pingerOnly

PingWritten ==
    /\ pinger = "writing"
    /\ \/ connOpen /\ pinger' = "waiting"
       \/ CanFail /\ pinger' = "done"
    /\ UNCHANGED <<pingerOnly, panic>>

PingStops ==
    /\ pinger = "waiting"
    /\ ctxDone
    /\ pinger' = "done"
    /\ UNCHANGED <<pingerOnly, panic>>

-----------------------------------------------------------------------------
(***************************************************************************)
(* The writer goroutine; conn.Close is deferred.                           *)
(***************************************************************************)
writerOnly == <<client, ctxDone, chClosed, main, pinger, logVars, cmd>>

\* A message leaves the channel, or the closed and empty channel says so, and
\* the writer starts to write: the message, or a close message.
WriterReceives ==
    /\ writer = "waiting"
    /\ \/ /\ writeCh # <<>>
          /\ msg' = Head(writeCh)
          /\ writeCh' = Tail(writeCh)
          /\ writer' = "writing"
       \/ /\ writeCh = <<>>
          /\ chClosed
          /\ writer' = "closing"
          /\ UNCHANGED <<msg, writeCh>>
    /\ BeginWrite(pinger)
    /\ UNCHANGED <<writerOnly, connOpen, received>>

\* The message arrives, or is lost with the connection.
WriterWritten ==
    /\ writer = "writing"
    /\ \/ /\ connOpen
          /\ writer' = "waiting"
          /\ received' = IF client = "live" THEN Append(received, msg)
                         ELSE received
          /\ UNCHANGED connOpen
       \/ /\ CanFail
          /\ writer' = "done"
          /\ connOpen' = FALSE
          /\ UNCHANGED received
    /\ UNCHANGED <<writerOnly, msg, writeCh, panic>>

\* The writer returns: the close message has been written (or not), or the
\* context is done.
WriterStops ==
    /\ \/ writer = "closing"
       \/ writer = "waiting" /\ ctxDone
    /\ writer' = "done"
    /\ connOpen' = FALSE
    /\ UNCHANGED <<writerOnly, msg, writeCh, received, panic>>

-----------------------------------------------------------------------------
(***************************************************************************)
(* streamPodLogs.                                                          *)
(***************************************************************************)
logsOnly == <<clientVars, connOpen, ctxDone, chClosed, main, pinger,
              writerVars, cmd>>

\* The stream opens, or an error message is sent.
OpenStream ==
    /\ logs = "opening"
    /\ \/ logs' = "reading" /\ UNCHANGED <<writeCh, panic>>
       \/ logs' = "done" /\ TrySend(Message("error"))
    /\ UNCHANGED <<logsOnly, chunks>>

ReadChunk ==
    /\ logs = "reading"
    /\ chunks < MaxChunks
    /\ chunks' = chunks + 1
    /\ logs' = "sending"
    /\ UNCHANGED <<logsOnly, writeCh, panic>>

\* Fault: what the read returned is sent without looking at n, a chunk or not.
StreamEndsSendingAnyway ==
    /\ logs = "reading"
    /\ logs' = "sending"
    /\ UNCHANGED <<logsOnly, chunks, writeCh, panic>>

\* The read returns an error: the Pod ended, the stream broke or the context is
\* cancelled.
StreamEnds ==
    /\ logs = "reading"
    /\ logs' = "ending"
    /\ UNCHANGED <<logsOnly, chunks, writeCh, panic>>

\* Fault: a chunk is dropped when the channel is full.
SendChunkOrDrop ==
    /\ logs = "sending"
    /\ logs' = "reading"
    /\ TrySend(Chunk(chunks))
    /\ UNCHANGED <<logsOnly, chunks>>

\* select { case writeCh <- data: case <-ctx.Done(): return }.  With both ready
\* the choice is random, and a closed channel is ready: the send panics.
SendChunk ==
    /\ logs = "sending"
    /\ \/ /\ chClosed \/ HasRoom
          /\ TrySend(Chunk(chunks))
          /\ logs' = "reading"
       \/ /\ ctxDone
          /\ logs' = "done"
          /\ UNCHANGED <<writeCh, panic>>
    /\ UNCHANGED <<logsOnly, chunks>>

\* Fault: the end of the log cancels the session.
SendEndedAndCancel ==
    /\ logs = "ending"
    /\ TrySend(Message("stream_ended"))
    /\ logs' = "done"
    /\ ctxDone' = TRUE
    /\ UNCHANGED <<clientVars, connOpen, chClosed, main, pinger, writerVars,
                   cmd, chunks>>

SendEnded ==
    /\ logs = "ending"
    /\ TrySend(Message("stream_ended"))
    /\ logs' = "done"
    /\ UNCHANGED <<logsOnly, chunks>>

-----------------------------------------------------------------------------
(***************************************************************************)
(* execCommand.                                                            *)
(***************************************************************************)
cmdOnly == <<clientVars, connOpen, ctxDone, chClosed, main, pinger,
             writerVars, logVars>>

\* The command ran in the Pod, with or without output, or failed.
ExecEnds(c) ==
    /\ cmd[c] = "exec"
    /\ \E next \in {"stdout", "stderr", "done"} : cmd' = [cmd EXCEPT ![c] = next]
    /\ UNCHANGED <<cmdOnly, writeCh, panic>>

SendOutput(c) ==
    /\ cmd[c] = "stdout"
    /\ TrySend(Message("output"))
    /\ \E next \in {"stderr", "done"} : cmd' = [cmd EXCEPT ![c] = next]
    /\ UNCHANGED cmdOnly

\* The error of the execution, or what the command wrote to stderr.
SendError(c) ==
    /\ cmd[c] = "stderr"
    /\ TrySend(Message("error"))
    /\ cmd' = [cmd EXCEPT ![c] = "done"]
    /\ UNCHANGED cmdOnly

-----------------------------------------------------------------------------
\* The client closes the connection, or is not heard of any more.
ClientLeaves ==
    /\ client = "live"
    /\ client' = "gone"
    /\ UNCHANGED <<connOpen, ctxDone, writeCh, chClosed, main, pinger,
                   writerVars, logVars, cmd, received, panic>>

Init ==
    /\ client = "live"
    /\ connOpen = TRUE
    /\ ctxDone = FALSE
    /\ writeCh = <<>>
    /\ chClosed = FALSE
    /\ main = "upgraded"
    /\ pinger = "waiting"
    /\ writer = "waiting"
    /\ msg = Message("connected")
    /\ logs = "unstarted"
    /\ chunks = 0
    /\ cmd = [c \in Commands |-> "unsent"]
    /\ received = <<>>
    /\ panic = "none"

Handler == SendConnected \/ ReadFails \/ CloseWriteCh
Pinger == PingTick \/ PingWritten \/ PingStops
Writer == WriterReceives \/ WriterWritten \/ WriterStops
StreamPodLogs == OpenStream \/ ReadChunk \/ StreamEnds \/ SendChunk \/ SendEnded
ExecCommand(c) == ExecEnds(c) \/ SendOutput(c) \/ SendError(c)

Next ==
    /\ panic = "none"
    /\ \/ Handler \/ Pinger \/ Writer \/ StreamPodLogs
       \/ \E c \in Commands : ReadCommand(c) \/ ExecCommand(c)
       \/ ClientLeaves

Spec == Init /\ [][Next]_vars

Running(A) == panic = "none" /\ A

\* The Go scheduler runs every goroutine that can run, writes end (they have a
\* deadline), a read fails on a dead connection (it has one, too), and a request
\* to the Kubernetes API returns once its context is cancelled.  Nothing makes
\* the log produce or end, a command return, or the client leave.
Fairness ==
    /\ WF_vars(Running(Handler))
    /\ WF_vars(Running(PingWritten \/ PingStops))
    /\ WF_vars(Running(Writer))
    /\ WF_vars(Running(SendChunk \/ SendEnded))
    /\ WF_vars(Running(ctxDone /\ (OpenStream \/ StreamEnds)))
    /\ \A c \in Commands :
          /\ WF_vars(Running(SendOutput(c) \/ SendError(c)))
          /\ WF_vars(Running(ctxDone /\ ExecEnds(c)))

FairSpec == Spec /\ Fairness

-----------------------------------------------------------------------------
\* The session's state has its type; in particular the channel never holds more
\* than its buffer.
TypeOK ==
    /\ client \in {"live", "gone"}
    /\ connOpen \in BOOLEAN
    /\ ctxDone \in BOOLEAN
    /\ writeCh \in Seq(Messages)
    /\ Len(writeCh) <= WriteChannelSize
    /\ chClosed \in BOOLEAN
    /\ main \in {"upgraded", "reading", "cleanup", "done"}
    /\ pinger \in {"waiting", "writing", "done"}
    /\ writer \in {"waiting", "writing", "closing", "done"}
    /\ msg \in Messages
    /\ logs \in {"unstarted", "opening", "reading", "sending", "ending", "done"}
    /\ chunks \in 0..MaxChunks
    /\ cmd \in [Commands -> {"unsent", "exec", "stdout", "stderr", "done"}]
    /\ received \in Seq(Messages)
    /\ panic \in {"none", "concurrent write", "send on closed channel"}

-----------------------------------------------------------------------------
IsChunk(m) == m.type = "log"
IsEnd(m) == m.type = "stream_ended"

FirstChunks(n) == {Chunk(k) : k \in 1..n}
LogMessages == FirstChunks(MaxChunks) \cup {Message("stream_ended")}

\* What of the log comes before place i of the sequence s.
LogBefore(s, i) == {m \in LogMessages : \E j \in 1..(i - 1) : s[j] = m}

\* Message m is in place after what came before: a chunk after those read
\* before it and nothing else, the end of the stream after all that were read.
InPlace(m, before, read) ==
    /\ IsChunk(m) => before = FirstChunks(m.n - 1)
    /\ IsEnd(m) => before = FirstChunks(read)

\* Although command output is dropped when the channel is full and other
\* goroutines send in between, the client sees the log itself whole: the chunks
\* it got are the first ones read, in order and once each, and when it is told
\* that the stream ended it has got every one (streamPodLogs).
LogsInOrder ==
    \A i \in 1..Len(received) :
        InPlace(received[i], LogBefore(received, i), chunks)

\* A chunk that was read reaches a client that stays, however full the channel
\* was, also when the log has ended since.
LogsDelivered ==
    \A n \in 1..MaxChunks :
        chunks >= n ~> \/ \E i \in 1..Len(received) : received[i] = Chunk(n)
                       \/ client = "gone"
                       \/ panic # "none"

\* No goroutine outlives the session: once the client is gone all of them
\* return, whatever they were blocked on, unless the process dies.
SessionEnds ==
    client = "gone" ~> \/ panic # "none"
                       \/ /\ main = "done" /\ pinger = "done" /\ writer = "done"
                          /\ logs = "done" /\ ~connOpen
                          /\ \A c \in Commands : cmd[c] \in {"unsent", "done"}

-----------------------------------------------------------------------------
(***************************************************************************)
(* What the comments say of the writes, and the code does not do.          *)
(***************************************************************************)
\* handlers_console.go: "single goroutine owns all writes to the WebSocket".  The
\* ping goroutine writes to it as well, without going through the channel.
SingleWriter == ~(Writing(pinger) /\ Writing(writer))

\* 07-01-PLAN.md: writeCh is closed "to stop the writer goroutine".  The log
\* streamer and the commands may still send on it.
CloseStopsOnlyTheWriter == panic # "send on closed channel"
=============================================================================
