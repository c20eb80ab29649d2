--------------------------- MODULE RuntimeLaunch ---------------------------
(***************************************************************************)
(* Launching one generation of the runtime process                         *)
(* (internal/runtimeclient): ProcessSupervisor.Start makes a verified copy *)
(* of the executable at a path, or hands on a sealed memory file, launches *)
(* it over six pipes, performs the hello handshake, and drains the         *)
(* process's diagnostic output until it exits.  Every descriptor, the      *)
(* directory of the copy and the child are released by deferred calls and  *)
(* by explicit ones on the error paths; the executable may be rewritten    *)
(* while it is read.  Linux: a fixed path goes through os/exec, a sealed   *)
(* file through clone3 and a pidfd.                                        *)
(***************************************************************************)
EXTENDS Integers, FiniteSets

CONSTANTS
    Modes,       \* subset of {"path", "sealed"}: how the executable is given
    Burst,       \* scanPipe: burstBytes
    Rate,        \* bytesPerSecond
    Generation,  \* generationBytes, over both streams
    Chunk,       \* bufferBytes: the most one read returns
    MaxStarts    \* bound: calls of Start

VARIABLES
    mode,
    source,      \* the executable's bytes now: "good", "bad", or "grown"
    seals,       \* the memory file can no longer change
    start,       \* stage of Start, "idle" when none runs
    starts,
    read,        \* bytes read while copying or hashing, as seen chunk by chunk
    copy,        \* the verified directory: "none", "empty", or the bytes in it
    fds,         \* descriptors the Host has open for the runtime
    deferred,    \* those a deferred close of the running function will close
    child,       \* "none", "setup", "running", "zombie"
    image,       \* the bytes the child executes
    process,     \* ProcessSupervisor.process is set
    ready,
    readers,     \* diagnostic streams being drained
    tokens,      \* available, per stream
    accepted,    \* diagnosticBytes
    hello,       \* the handshake's reader: "none", "waiting", "done", "lost"
    lost         \* what launches returned without: "child", "pidfd"

vars == <<mode, source, seals, start, starts, read, copy, fds, deferred, child,
          image, process, ready, readers, tokens, accepted, hello, lost>>

Streams == {"stdout", "stderr"}
Parent == {"ipc", "control", "stdout", "stderr"}   \* the Host's pipe ends

TypeOK ==
    /\ mode \in Modes /\ source \in {"good", "bad", "grown"}
    /\ seals \in BOOLEAN /\ process \in BOOLEAN /\ ready \in BOOLEAN
    /\ copy \in {"none", "empty", "good", "bad"}
    /\ child \in {"none", "setup", "running", "zombie"}
    /\ deferred \subseteq fds /\ readers \subseteq Streams
    /\ accepted \in Nat /\ lost \subseteq {"child", "pidfd"}

Init ==
    /\ mode \in Modes /\ source \in {"good", "bad"}
    /\ seals \in (IF mode = "sealed" THEN BOOLEAN ELSE {FALSE})
    /\ start = "idle" /\ starts = 0 /\ read = {} /\ copy = "none"
    /\ fds = {} /\ deferred = {} /\ child = "none" /\ image = "none"
    /\ process = FALSE /\ ready = FALSE
    /\ readers = {} /\ tokens = [s \in Streams |-> Burst] /\ accepted = 0
    /\ hello = "none" /\ lost = {}

\* Someone rewrites the executable; a sealed file refuses.
Rewrite ==
    /\ ~seals
    /\ \E to \in {"good", "bad", "grown"} : source' = to
    /\ UNCHANGED <<mode, seals, start, starts, read, copy, fds, deferred, child, image,
                   process, ready, readers, tokens, accepted, hello>>

(***************************************************************************)
(* Steps of Start.  `Keep' is what the launch does not touch.              *)
(***************************************************************************)
Keep == UNCHANGED <<mode, source, seals, starts>>
Quiet == UNCHANGED <<readers, tokens, accepted, hello>>

\* Start returns before a process exists: its deferred clean-up removes the
\* verified directory, the launch's deferred closes run.
Abort ==
    /\ start' = "idle" /\ copy' = "none" /\ read' = {}
    /\ fds' = fds \ deferred /\ deferred' = {}
    /\ Keep /\ Quiet
    /\ UNCHANGED <<child, image, process, ready>>

Goes(at) ==
    /\ start' = at
    /\ Keep /\ Quiet
    /\ UNCHANGED <<process, ready>>

Start ==
    /\ start = "idle" /\ starts < MaxStarts /\ ~process
    /\ starts' = starts + 1
    /\ start' = (IF mode = "path" THEN "open" ELSE "hash")
    /\ UNCHANGED <<mode, source, seals, read, copy, fds, deferred, child, image,
                   process, ready, readers, tokens, accepted, hello>>

\* prepareRuntimeExecutable: open, MkdirTemp, OpenFile; the first two failures
\* leave nothing, the third removes the directory.
prepareRuntimeExecutable ==
    /\ start = "open"
    /\ \/ Abort
       \/ /\ Goes("copying")
          /\ copy' = "empty" /\ read' = {}
          /\ fds' = fds \cup {"source"} /\ deferred' = deferred \cup {"source"}
          /\ UNCHANGED <<child, image>>

\* copyBoundedRuntimeExecutable, one chunk of the open file at a time, into the
\* copy and the hash; a file that grew, an error or the context ends it.
copyBoundedRuntimeExecutable ==
    /\ start = "copying"
    /\ \/ Abort
       \/ /\ source # "grown"
          /\ read' = read \cup {source}
          /\ start' \in {"copying", "copied"}
          /\ Keep /\ Quiet
          /\ UNCHANGED <<copy, fds, deferred, child, image, process, ready>>

\* Both the copy and the digest hold the bytes that were read.
Bytes == IF read = {"good"} THEN "good" ELSE "bad"

\* Close, the digest of what was copied, Chmod; prepareRuntimeExecutable returns
\* and its deferred close of the source runs.
VerifyCopy ==
    /\ start = "copied"
    /\ IF Bytes = "good"
       THEN \/ Abort
            \/ /\ Goes("launch")
               /\ copy' = Bytes
               /\ fds' = fds \ deferred /\ deferred' = {}
               /\ UNCHANGED <<read, child, image>>
       ELSE Abort

\* verifyRuntimeExecutableFile in launchContainedRuntimeProcess, by ReadAt, and
\* the seals it must have after the digest matched.
verifyRuntimeExecutableFile ==
    /\ start = "hash"
    /\ \/ Abort
       \/ /\ source # "grown"
          /\ read' = read \cup {source}
          /\ start' \in {"hash", "hashed"}
          /\ Keep /\ Quiet
          /\ UNCHANGED <<copy, fds, deferred, child, image, process, ready>>

\* Mutant: the digest is taken for enough.
SealsAssumed == TRUE

SealsComplete == seals

CheckSeals ==
    /\ start = "hashed"
    /\ IF Bytes = "good" /\ SealsComplete
       THEN \/ Abort
            \/ Goes("launch") /\ UNCHANGED <<read, copy, fds, deferred, child, image>>
       ELSE Abort

\* openRuntimePipes: a pipe that cannot be opened closes those that were.  The
\* Host's ends are closed by a deferred call when the launch fails.
openRuntimePipes ==
    /\ start = "launch"
    /\ \/ Abort
       \/ /\ Goes(IF mode = "path" THEN "exec" ELSE "dup")
          /\ fds' = fds \cup Parent \cup {"child"}
          /\ deferred' = deferred \cup Parent \cup (IF mode = "path" THEN {"child"} ELSE {})
          /\ UNCHANGED <<read, copy, child, image>>

\* launchFixedPathRuntimeProcess after the pipes: cmd.Start of the verified path.
ExecPath ==
    /\ start = "exec"
    /\ \/ Abort
       \/ /\ Goes("launched")
          /\ child' = "running" /\ image' = copy
          /\ fds' = (fds \ {"child"}) \cup {"pidfd"} /\ deferred' = {}
          /\ UNCHANGED <<read, copy>>

\* Mutant: a failed duplication leaves the child's ends to the deferred closes.
duplicateUnclosed ==
    /\ start = "dup"
    /\ \/ Abort
       \/ /\ Goes("handles")
          /\ fds' = (fds \ {"child"}) \cup {"dups"} /\ deferred' = deferred \cup {"dups"}
          /\ UNCHANGED <<read, copy, child, image>>

\* duplicateRuntimeChildFiles: the child's ends are closed by hand either way.
duplicateRuntimeChildFiles ==
    /\ start = "dup"
    /\ \/ /\ start' = "idle" /\ copy' = "none" /\ read' = {}
          /\ fds' = (fds \ {"child"}) \ deferred /\ deferred' = {}
          /\ Keep /\ Quiet
          /\ UNCHANGED <<child, image, process, ready>>
       \/ /\ Goes("handles")
          /\ fds' = (fds \ {"child"}) \cup {"dups"} /\ deferred' = deferred \cup {"dups"}
          /\ UNCHANGED <<read, copy, child, image>>

\* The executable, the execution root, the pipe for a set-up error and its
\* duplicate, each with its deferred close.
DuplicateHandles ==
    /\ start = "handles"
    /\ LET missing == {"executable", "root", "error"} \ fds IN
       \/ Abort
       \/ \E h \in missing :
             /\ Goes(IF missing = {h} THEN "clone" ELSE "handles")
             /\ fds' = fds \cup {h} /\ deferred' = deferred \cup {h}
             /\ UNCHANGED <<read, copy, child, image>>

\* rawRuntimeClone3: the child runs a fixed sequence of calls and executes the
\* file, or reports one errno.  Without a pidfd the launch returns and leaves the
\* child to itself.
rawRuntimeClone3 ==
    /\ start = "clone"
    /\ \/ Abort /\ lost' \in {lost, lost \cup {"child"}}
       \/ /\ Goes("setup")
          /\ child' = "setup"
          /\ fds' = fds \cup {"pidfd"}
          /\ UNCHANGED <<read, copy, image, deferred, lost>>

\* The child gets to execveat, or fails and exits.
ChildExec ==
    /\ child = "setup"
    /\ \/ child' = "running" /\ image' = source
       \/ child' = "zombie" /\ UNCHANGED image
    /\ UNCHANGED <<mode, source, seals, start, starts, read, copy, fds, deferred,
                   process, ready, readers, tokens, accepted, hello>>

\* The launch returns an error after the clone: it kills the child, waits for it
\* and closes the pidfd, but for what it leaves.
LaunchFails(left) ==
    /\ start' = "idle" /\ copy' = "none" /\ read' = {}
    /\ fds' = (fds \ deferred) \ {"pidfd"} /\ deferred' = {}
    /\ child' = "none" /\ image' = "none"
    /\ lost' = lost \cup left
    /\ Keep /\ Quiet
    /\ UNCHANGED <<process, ready>>

\* The set-up descriptor is closed and readRuntimeChildSetupError reads the other
\* end: end of file is success, whether the child executed or died silently.
readRuntimeChildSetupError ==
    /\ start = "setup"
    /\ \/ LaunchFails({})
       \/ /\ child \in {"running", "zombie"}
          /\ Goes("verify")
          /\ UNCHANGED <<read, copy, fds, deferred, child, image>>

\* A pidfd that cannot be verified ends the child.  The executable's Fstat that
\* fails after it does not: the launch returns, and the child and its pidfd stay.
verifyRuntimePIDFD ==
    /\ start = "verify"
    /\ \/ LaunchFails({}) \/ LaunchFails({"child", "pidfd"})
       \/ /\ Goes("launched")
          /\ fds' = fds \ (deferred \ Parent) /\ deferred' = {}
          /\ UNCHANGED <<read, copy, child, image, lost>>

\* Start publishes the process and starts its readers and its waiter.
Publish ==
    /\ start = "launched"
    /\ start' = "handshake" /\ process' = TRUE
    /\ readers' = Streams /\ hello' = "waiting"
    /\ tokens' = [s \in Streams |-> Burst] /\ accepted' = 0
    /\ Keep /\ UNCHANGED <<read, copy, fds, deferred, child, image, ready>>

\* performHandshake and validateHelloAck: the frame, wire, platform, target and
\* digest, nonce, limits and containment evidence must all be as expected.
HelloReady ==
    /\ start = "handshake" /\ child \in {"running", "zombie"}
    /\ start' = "idle" /\ copy' = "none" /\ read' = {}
    /\ ready' = TRUE
    /\ Keep /\ Quiet
    /\ UNCHANGED <<fds, deferred, child, image, process>>

\* The acknowledgement of a process the waiter has reaped meanwhile: Start returns
\* without a reader, and the waiter waits for one from then on.
HelloLost ==
    /\ start = "handshake" /\ child = "none"
    /\ start' = "idle" /\ copy' = "none" /\ read' = {}
    /\ hello' = "lost"
    /\ Keep
    /\ UNCHANGED <<fds, deferred, child, image, process, ready, readers, tokens, accepted>>

\* A timeout, end of file or a wrong acknowledgement kills the process.
HelloFails ==
    /\ start = "handshake"
    /\ start' = "cleanup" /\ hello' = "done"
    /\ child' = (IF child = "running" THEN "zombie" ELSE child)
    /\ ready' = FALSE
    /\ Keep
    /\ UNCHANGED <<read, copy, fds, deferred, image, process, readers, tokens, accepted>>

\* Start waits for the waiter, three seconds at most, and returns the error.
HelloCleanup ==
    /\ start = "cleanup"
    /\ start' = "idle" /\ copy' = "none" /\ read' = {}
    /\ Keep /\ Quiet
    /\ UNCHANGED <<fds, deferred, child, image, process, ready>>

(***************************************************************************)
(* The running process.                                                    *)
(***************************************************************************)
Exit ==
    /\ child = "running" /\ process
    /\ child' = "zombie"
    /\ UNCHANGED <<mode, source, seals, start, starts, read, copy, fds, deferred,
                   image, process, ready, readers, tokens, accepted, hello>>

\* readIPCLoop ends with the stream, and the runtime is no longer ready.
ReaderEnds ==
    /\ child \in {"zombie", "none"} /\ hello = "waiting" /\ start # "handshake"
    /\ hello' = "done" /\ ready' = FALSE
    /\ UNCHANGED <<mode, source, seals, start, starts, read, copy, fds, deferred,
                   child, image, process, readers, tokens, accepted>>

\* scanPipe, one read of n bytes.  The bucket is the stream's own, the total is
\* shared by both; what does not fit kills the process and ends the stream.
Scan(s, n) ==
    LET allowed == n <= tokens[s] /\ accepted <= Generation - n
    IN /\ s \in readers /\ child = "running"
       /\ tokens' = [tokens EXCEPT ![s] = IF n <= @ THEN @ - n ELSE @]
       /\ accepted' = (IF allowed THEN accepted + n ELSE accepted)
       /\ child' = (IF allowed THEN child ELSE "zombie")
       /\ readers' = (IF allowed THEN readers ELSE readers \ {s})
       /\ fds' = (IF allowed THEN fds ELSE fds \ {s})
       /\ UNCHANGED <<mode, source, seals, start, starts, read, copy, deferred, image,
                      process, ready, hello>>

Refill(s) ==
    /\ s \in readers /\ tokens[s] < Burst
    /\ tokens' = [tokens EXCEPT ![s] = IF @ + Rate > Burst THEN Burst ELSE @ + Rate]
    /\ UNCHANGED <<mode, source, seals, start, starts, read, copy, fds, deferred, child,
                   image, process, ready, readers, accepted, hello>>

\* The stream ends: with the process, or before it, which kills the process.
ScanEnds(s) ==
    /\ s \in readers
    /\ child' = (IF child = "running" THEN "zombie" ELSE child)
    /\ readers' = readers \ {s} /\ fds' = fds \ {s}
    /\ UNCHANGED <<mode, source, seals, start, starts, read, copy, deferred, image,
                   process, ready, tokens, accepted, hello>>

\* wait: process.Wait reaps the child and closes the pidfd,
Reap ==
    /\ child = "zombie" /\ process
    /\ child' = "none" /\ image' = "none" /\ fds' = fds \ {"pidfd"}
    /\ UNCHANGED <<mode, source, seals, start, starts, read, copy, deferred, process,
                   ready, readers, tokens, accepted, hello>>

\* and once the readers are done the generation is forgotten and its control
\* pipes closed.  The IPC pipes are dropped for the collector to close.
WaitEnds ==
    /\ process /\ child = "none" /\ hello = "done" /\ readers = {}
    /\ process' = FALSE /\ ready' = FALSE
    /\ fds' = fds \ {"control", "ipc"} /\ hello' = "none"
    /\ UNCHANGED <<mode, source, seals, start, starts, read, copy, deferred, child,
                   image, readers, tokens, accepted>>

Next ==
    \/ rawRuntimeClone3 \/ verifyRuntimePIDFD
    \/ /\ UNCHANGED lost
       /\ \/ Rewrite \/ Start
          \/ prepareRuntimeExecutable \/ copyBoundedRuntimeExecutable \/ VerifyCopy
          \/ verifyRuntimeExecutableFile \/ CheckSeals
          \/ openRuntimePipes \/ ExecPath
          \/ duplicateRuntimeChildFiles \/ DuplicateHandles
          \/ ChildExec \/ readRuntimeChildSetupError
          \/ Publish \/ HelloReady \/ HelloLost \/ HelloFails \/ HelloCleanup
          \/ Exit \/ ReaderEnds \/ Reap \/ WaitEnds
          \/ \E s \in Streams :
                \/ \E n \in 1..Chunk : Scan(s, n)
                \/ Refill(s) \/ ScanEnds(s)

Spec == Init /\ [][Next]_vars

\* The process executes the bytes whose digest was checked, although the file
\* may be rewritten at any time: Start copies and hashes in one pass and
\* launches the copy, and a memory file must be sealed before it is hashed again.
RunsVerifiedBytes == child = "running" => image = "good"

\* When no Start runs and no process is published, nothing of an earlier one is
\* left: no descriptor, no verified directory, no child, whatever step failed.
\* The two returns of launchContainedRuntimeProcess that let go of a child (no
\* pidfd, a failed Fstat) are excepted: what they leave is in `lost', and only a
\* sealed executable is launched that way.
FailedStartLeavesNothing ==
    start = "idle" =>
        /\ copy = "none" /\ deferred = {}
        /\ ~process => fds = {} /\ child = "none" /\ ~ready
        /\ lost # {} => mode = "sealed" /\ seals

\* A process whose diagnostic output overran its limits does not stay ready: what
\* was accepted over both streams stays within the generation's bytes, and a
\* stream is given up only with the process.
OutputBounded ==
    /\ accepted <= Generation
    /\ process /\ readers # Streams => child # "running"
=============================================================================
