--------------------------- MODULE BackupPipeline ---------------------------
(***************************************************************************)
(* performBackup of internal/controller/backup_controller.go: a goroutine  *)
(* runs tar in the Pod and writes its output through gzip into an io.Pipe; *)
(* the reconciler's goroutine uploads what it reads from the pipe to S3    *)
(* and then waits for the error of the first.                              *)
(*                                                                         *)
(* A write to the pipe blocks until the reader has taken it, and nobody    *)
(* ever closes the reading end.  The archive's bytes are left out: what    *)
(* matters is whether tar ended well before the pipe was closed.           *)
(***************************************************************************)
EXTENDS Naturals

CONSTANT
    Keys  \* S3 keys: one per second a backup may start in

VARIABLES
    pipe,  \* the two goroutines, the pipe and the channel between them
    s3     \* the bucket: what is stored under a key

(***************************************************************************)
(* exec    the goroutine: it copies tar's output into the pipe, closes     *)
(*         gzip after a failure, closes gzip at the end, or is done        *)
(* pw      the writing end: open, closed, closed with an error             *)
(* errCh   the channel for the result of tar                               *)
(* up      PutObject: it reads the pipe and sends parts to S3, or has      *)
(*         returned                                                        *)
(***************************************************************************)
Pipes ==
    [exec : {"streaming", "failing", "flushing", "done"},
     pw : {"open", "eof", "error"},
     errCh : {"empty", "nil", "err"},
     up : {"idle", "active", "ok", "err"}]

Contents == {"none", "whole", "truncated"}

NoPipe == [exec |-> "done", pw |-> "open", errCh |-> "empty", up |-> "idle"]

\* io.Pipe, the channel, go func and the call of PutObject.
NewPipe == [exec |-> "streaming", pw |-> "open", errCh |-> "empty",
            up |-> "active"]

-----------------------------------------------------------------------------
(***************************************************************************)
(* The goroutine that runs tar.                                            *)
(***************************************************************************)
\* The stream ends without an error: the result goes to the channel, which
\* has room for it, before the deferred calls close gzip and the pipe.
ExecReturns ==
    /\ pipe.exec = "streaming"
    /\ pipe' = [pipe EXCEPT !.exec = "flushing", !.errCh = "nil"]
    /\ UNCHANGED s3

\* The exec cannot be set up, the connection breaks, tar exits with an error,
\* or backupTimeout has passed: StreamWithContext returns, even when the
\* copy of its output is blocked.
ExecFails ==
    /\ pipe.exec = "streaming"
    /\ pipe' = [pipe EXCEPT !.exec = "failing"]
    /\ UNCHANGED s3

\* Fault: pw.Close() in place of pw.CloseWithError(err).
CloseWithoutError ==
    /\ pipe.exec = "failing"
    /\ pipe.up = "active"
    /\ pipe' = [pipe EXCEPT !.exec = "done", !.pw = "eof", !.errCh = "err"]
    /\ UNCHANGED s3

\* gzWriter.Close() writes what gzip holds, which takes a reader; then
\* CloseWithError and the send to the channel.
CloseAfterFailure ==
    /\ pipe.exec = "failing"
    /\ pipe.up = "active"
    /\ pipe' = [pipe EXCEPT !.exec = "done", !.pw = "error", !.errCh = "err"]
    /\ UNCHANGED s3

\* The deferred calls: gzWriter.Close(), which writes too, and pw.Close().
CloseAtEnd ==
    /\ pipe.exec = "flushing"
    /\ pipe.up = "active"
    /\ pipe' = [pipe EXCEPT !.exec = "done", !.pw = "eof"]
    /\ UNCHANGED s3

-----------------------------------------------------------------------------
(***************************************************************************)
(* PutObject, in the reconciler's goroutine.                               *)
(***************************************************************************)
\* What the bucket holds under k once S3 has put the parts together.
Put(k) ==
    s3' = [s3 EXCEPT ![k] = IF pipe.errCh = "nil" THEN "whole" ELSE "truncated"]

\* The end of the pipe ends the upload.
CompleteUpload(k) ==
    /\ pipe.up = "active"
    /\ pipe.pw = "eof"
    /\ pipe' = [pipe EXCEPT !.up = "ok"]
    /\ Put(k)

\* An error from the pipe aborts it.
AbortUpload ==
    /\ pipe.up = "active"
    /\ pipe.pw = "error"
    /\ pipe' = [pipe EXCEPT !.up = "err"]
    /\ UNCHANGED s3

\* S3 refuses the upload or a part, the connection breaks or the context
\* expires: PutObject returns and reads no more.  When it was the last
\* request only its answer may have been lost.
UploadFails(k) ==
    /\ pipe.up = "active"
    /\ pipe' = [pipe EXCEPT !.up = "err"]
    /\ \/ UNCHANGED s3
       \/ pipe.pw = "eof" /\ Put(k)

-----------------------------------------------------------------------------
\* PutObject has returned and the channel holds a result: performBackup
\* returns.
Returned == pipe.up \in {"ok", "err"} /\ pipe.errCh # "empty"

\* Fault: the error of the upload is not looked at.
UploadErrorIgnored == pipe.errCh = "nil"

\* Neither of the two failed.
Succeeded == pipe.up = "ok" /\ pipe.errCh = "nil"

\* PutObject has returned before tar: nobody reads the pipe any more, and
\* performBackup waits for the channel.
UploadAborted == pipe.up = "err" /\ pipe.errCh = "empty"

\* What goes on in the goroutines while key k is uploaded, but for S3's
\* failures.
Transfer(k) ==
    \/ ExecReturns \/ ExecFails \/ CloseAfterFailure \/ CloseAtEnd
    \/ CompleteUpload(k) \/ AbortUpload

\* A goroutine that can go on does.
TransferAdvances(k) ==
    \/ CloseAfterFailure \/ CloseAtEnd
    \/ CompleteUpload(k) \/ AbortUpload
=============================================================================
