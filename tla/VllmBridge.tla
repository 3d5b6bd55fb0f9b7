----------------------------- MODULE VllmBridge -----------------------------
(***************************************************************************)
(* The bridge between the HF inference process (the parent) and the vLLM   *)
(* worker process it launches: recipe/part_seg/vllm_bridge, class          *)
(* PointVLLMProcess of ipc.py on the parent's side and run() of            *)
(* vllm_worker.py on the worker's, joined by a Unix socket pair.           *)
(*                                                                         *)
(* A generate frame crosses the socket in two chunks, as send_frame's      *)
(* sendall calls hand it over: the JSON ("generate") and the raw point     *)
(* embeddings ("raw"); a send that is given up half way leaves a "cut"     *)
(* chunk.  Answers carry no payload, so they are one chunk.  Payloads and  *)
(* token ids are abstracted: a frame is its type and its request id.       *)
(***************************************************************************)
EXTENDS Naturals, Sequences

CONSTANTS Threads,     \* threads of the parent sharing the PointVLLMProcess
          Main,        \* the one that builds it, owns it, and gets Ctrl-C
          NoThread,    \* the lock's holder when it is free
          MaxId,       \* bound on the request ids issued
          Capacity,    \* chunks the socket buffers in one direction
          HasTimeout   \* request_timeout is a number, not None

ASSUME ThreadsAssumption == /\ Main \in Threads
                            /\ NoThread \notin Threads
ASSUME BoundsAssumption == /\ MaxId \in Nat \ {0}
                           /\ Capacity \in Nat \ {0}
                           /\ HasTimeout \in BOOLEAN

VARIABLES
    \* The parent's memory.
    parent,         \* the parent process: running, ended by itself, or killed
    up,             \* PointVLLMProcess.__init__ has returned
    pc,             \* what each thread is doing
    why,            \* what made a thread run _force_cleanup
    outcome,        \* how each thread's last generate() ended
    myId,           \* the request id of each thread's current call
    reply,          \* the response a thread took from the socket
    lock,           \* _lock: the thread holding it
    nextRequestId,  \* _next_request_id
    closed,         \* _closed
    socket,         \* _socket is not None
    finalizer,      \* the weakref finalizer still owes its _force_cleanup
    \* The socket pair.
    parentOpen,     \* the parent's end is open
    toWorker,       \* chunks in flight to the worker
    toParent,       \* frames in flight to the parent
    \* The worker process.
    wpc,            \* what the worker is doing
    wid,            \* the request id it is working on
    sig,            \* the strongest signal its process group was sent
    served          \* the requests its engine has answered, in that order

procVars == <<parent, up>>
callVars == <<outcome, myId, reply>>
lockVars == <<lock, nextRequestId>>
bridgeVars == <<closed, socket, finalizer>>
parentVars == <<procVars, pc, why, callVars, lockVars, bridgeVars>>
streamVars == <<toWorker, toParent>>
workerVars == <<wpc, wid, served>>
vars == <<parentVars, parentOpen, streamVars, workerVars, sig>>

Chunk(kind, id) == [kind |-> kind, id |-> id]
Chunks == [kind : {"generate", "raw", "cut", "close"}, id : 0..MaxId]
Frame(type, id) == [type |-> type, id |-> id]
Frames == [type : {"ready", "misready", "error", "generation", "closed"},
           id : 0..MaxId]
NoReply == Frame("closed", 0)

CallPCs == {"head", "raw", "recv"}            \* inside _exchange
ClosePCs == {"csend", "crecv", "cwait"}       \* inside close()
CleanupPCs == {"term", "kill"}                \* inside _force_cleanup
PCs == {"boot", "idle", "lock", "check", "clock", "gone"}
         \cup CallPCs \cup ClosePCs \cup CleanupPCs

TypeOK ==
    /\ parent \in {"running", "ended", "killed"}
    /\ up \in BOOLEAN
    /\ pc \in [Threads -> PCs]
    /\ why \in [Threads -> {"boot", "abort", "close", "exit"}]
    /\ outcome \in [Threads -> {"none", "ok", "remote", "protocol", "aborted",
                                "refused"}]
    /\ myId \in [Threads -> 0..MaxId]
    /\ reply \in [Threads -> Frames]
    /\ lock \in Threads \cup {NoThread}
    /\ nextRequestId \in 1..(MaxId + 1)
    /\ closed \in BOOLEAN /\ socket \in BOOLEAN /\ finalizer \in BOOLEAN
    /\ parentOpen \in BOOLEAN
    /\ toWorker \in Seq(Chunks)
    /\ toParent \in Seq(Frames)
    /\ wpc \in {"load", "recv", "raw", "gen", "exiting", "dead"}
    /\ wid \in 0..MaxId
    /\ sig \in {"none", "term", "kill"}
    /\ served \in Seq(0..MaxId)

\* Popen has returned: the worker loads its engine, the parent waits for the
\* ready frame.
Init ==
    /\ parent = "running" /\ up = FALSE
    /\ pc = [t \in Threads |-> IF t = Main THEN "boot" ELSE "idle"]
    /\ why = [t \in Threads |-> "boot"]
    /\ outcome = [t \in Threads |-> "none"]
    /\ myId = [t \in Threads |-> 0]
    /\ reply = [t \in Threads |-> NoReply]
    /\ lock = NoThread
    /\ nextRequestId = 1
    /\ closed = FALSE /\ socket = FALSE /\ finalizer = FALSE
    /\ parentOpen = TRUE
    /\ toWorker = <<>> /\ toParent = <<>>
    /\ wpc = "load" /\ wid = 0 /\ sig = "none"
    /\ served = <<>>

Goto(t, l) == pc' = [pc EXCEPT ![t] = l]
Finish(t, o) == outcome' = [outcome EXCEPT ![t] = o]

-----------------------------------------------------------------------------
(* _force_cleanup: close the socket, SIGTERM, wait, SIGKILL, wait, give up. *)

CleanupSignals(t, w) ==
    /\ why' = [why EXCEPT ![t] = w]
    /\ parentOpen' = FALSE
    /\ sig' = IF wpc = "dead" \/ sig = "kill" THEN sig ELSE "term"

StartCleanup(t, w) ==
    /\ Goto(t, "term")
    /\ CleanupSignals(t, w)
    /\ UNCHANGED <<workerVars, toParent>>

\* Mutant: SIGTERM is sent again where SIGKILL is due.
TermAgain(t) ==
    /\ pc[t] = "term" /\ wpc # "dead"
    /\ Goto(t, "kill")
    /\ UNCHANGED <<procVars, lockVars, bridgeVars, callVars, streamVars,
                   workerVars, why, parentOpen, sig>>

CleanupKills(t) ==
    /\ pc[t] = "term" /\ wpc # "dead"
    /\ sig' = "kill"
    /\ Goto(t, "kill")
    /\ UNCHANGED <<procVars, lockVars, bridgeVars, callVars, streamVars,
                   workerVars, why, parentOpen>>

\* The process was reaped, or has not gone even after SIGKILL and is given up;
\* _force_cleanup returns to the code that called it.
CleanupReturns(t) ==
    /\ \/ pc[t] = "term" /\ wpc = "dead"
       \/ pc[t] = "kill"
    /\ Goto(t, IF why[t] \in {"boot", "exit"} THEN "gone" ELSE "idle")
    /\ parent' = IF why[t] \in {"boot", "exit"} THEN "ended" ELSE parent
    /\ outcome' = IF why[t] = "abort" THEN [outcome EXCEPT ![t] = "aborted"]
                                      ELSE outcome
    /\ myId' = [myId EXCEPT ![t] = 0]
    /\ socket' = IF why[t] = "abort" THEN FALSE ELSE socket
    /\ finalizer' = FALSE
    /\ lock' = IF lock = t THEN NoThread ELSE lock
    /\ UNCHANGED <<streamVars, workerVars, up, why, reply, nextRequestId,
                   closed, parentOpen, sig>>

-----------------------------------------------------------------------------
(* PointVLLMProcess.__init__, after Popen.                                  *)

BootReady ==
    /\ pc[Main] = "boot" /\ toParent # <<>>
    /\ Head(toParent).type = "ready"
    /\ toParent' = Tail(toParent)
    /\ Goto(Main, "idle")
    /\ up' = TRUE /\ socket' = TRUE /\ finalizer' = TRUE
    /\ UNCHANGED <<lockVars, callVars, workerVars, parent, why, closed,
                   parentOpen, toWorker, sig>>

\* An error frame, a model path other than the one asked for, the startup
\* timeout, EOF, or Ctrl-C.
BootFails ==
    /\ pc[Main] = "boot"
    /\ StartCleanup(Main, "boot")
    /\ UNCHANGED <<procVars, lockVars, bridgeVars, callVars, toWorker>>

-----------------------------------------------------------------------------
(* generate_raw and _exchange.                                              *)

CallGenerate(t) ==
    /\ parent = "running" /\ up /\ pc[t] = "idle" /\ nextRequestId <= MaxId
    /\ Goto(t, "lock")
    /\ Finish(t, "none")
    /\ UNCHANGED <<procVars, lockVars, bridgeVars, streamVars, workerVars, why,
                   myId, reply, parentOpen, sig>>

CanIssue(t) == pc[t] = "lock" /\ lock = NoThread /\ nextRequestId <= MaxId

\* Mutants: the id is not counted; _closed is not looked at.
IssueSameId(t) ==
    /\ CanIssue(t)
    /\ ~closed /\ socket
    /\ lock' = t
    /\ myId' = [myId EXCEPT ![t] = nextRequestId]
    /\ Goto(t, "head")
    /\ UNCHANGED <<procVars, bridgeVars, streamVars, workerVars, why, outcome,
                   reply, nextRequestId, parentOpen, sig>>

IssueClosed(t) ==
    /\ CanIssue(t)
    /\ socket
    /\ lock' = t
    /\ myId' = [myId EXCEPT ![t] = nextRequestId]
    /\ nextRequestId' = nextRequestId + 1
    /\ Goto(t, "head")
    /\ UNCHANGED <<procVars, bridgeVars, streamVars, workerVars, why, outcome,
                   reply, parentOpen, sig>>

\* With the lock held the request gets its id, and _exchange finds the worker
\* open.
Issue(t) ==
    /\ CanIssue(t)
    /\ ~closed /\ socket
    /\ lock' = t
    /\ myId' = [myId EXCEPT ![t] = nextRequestId]
    /\ nextRequestId' = nextRequestId + 1
    /\ Goto(t, "head")
    /\ UNCHANGED <<procVars, bridgeVars, streamVars, workerVars, why, outcome,
                   reply, parentOpen, sig>>

\* Mutant: a refused call uses up two ids.
IssueRefusedTwice(t, badSampling) ==
    /\ CanIssue(t)
    /\ badSampling \/ closed \/ ~socket
    /\ nextRequestId' = nextRequestId + 2
    /\ Goto(t, "idle")
    /\ Finish(t, "refused")
    /\ UNCHANGED <<procVars, bridgeVars, streamVars, workerVars, why, myId,
                   reply, lock, parentOpen, sig>>

\* max_tokens <= 0 (_sampling_payload), or the worker is closed (_exchange):
\* an exception, the lock is released, and the id stays used.
IssueRefused(t, badSampling) ==
    /\ CanIssue(t)
    /\ badSampling \/ closed \/ ~socket
    /\ nextRequestId' = nextRequestId + 1
    /\ Goto(t, "idle")
    /\ Finish(t, "refused")
    /\ UNCHANGED <<procVars, bridgeVars, streamVars, workerVars, why, myId,
                   reply, lock, parentOpen, sig>>

SendHead(t) ==
    /\ pc[t] = "head" /\ wpc # "dead" /\ Len(toWorker) < Capacity
    /\ toWorker' = Append(toWorker, Chunk("generate", myId[t]))
    /\ Goto(t, "raw")
    /\ UNCHANGED <<procVars, lockVars, bridgeVars, callVars, workerVars, why,
                   parentOpen, toParent, sig>>

SendRaw(t) ==
    /\ pc[t] = "raw" /\ wpc # "dead" /\ Len(toWorker) < Capacity
    /\ toWorker' = Append(toWorker, Chunk("raw", myId[t]))
    /\ Goto(t, "recv")
    /\ UNCHANGED <<procVars, lockVars, bridgeVars, callVars, workerVars, why,
                   parentOpen, toParent, sig>>

\* The response is read with the lock held; the lock is released before the
\* response's type and request id are looked at.
Receive(t) ==
    /\ pc[t] = "recv" /\ toParent # <<>>
    /\ reply' = [reply EXCEPT ![t] = Head(toParent)]
    /\ toParent' = Tail(toParent)
    /\ lock' = NoThread
    /\ Goto(t, "check")
    /\ UNCHANGED <<procVars, bridgeVars, workerVars, why, outcome, myId,
                   nextRequestId, parentOpen, toWorker, sig>>

Check(t) ==
    /\ pc[t] = "check"
    /\ Goto(t, "idle")
    /\ Finish(t, IF reply[t].type = "error" THEN "remote"
                 ELSE IF reply[t] = Frame("generation", myId[t]) THEN "ok"
                 ELSE "protocol")
    /\ myId' = [myId EXCEPT ![t] = 0]
    /\ reply' = [reply EXCEPT ![t] = NoReply]
    /\ UNCHANGED <<procVars, lockVars, bridgeVars, streamVars, workerVars, why,
                   parentOpen, sig>>

\* _abort: mark the bridge closed and clean up, still holding the lock.  A send
\* given up half way leaves part of its chunk in the socket.
Abort(t) ==
    /\ closed' = TRUE
    /\ StartCleanup(t, "abort")
    /\ \/ UNCHANGED toWorker
       \/ /\ pc[t] = "raw" /\ Len(toWorker) < Capacity
          /\ toWorker' = Append(toWorker, Chunk("cut", myId[t]))
    /\ UNCHANGED <<procVars, lockVars, callVars, socket, finalizer>>

\* Mutants: a timeout only ends the call, leaving the socket to the next one;
\* the timeout does not cover recv.
TimeOutReleases(t) ==
    /\ HasTimeout
    /\ \/ pc[t] = "recv" /\ toParent = <<>> /\ UNCHANGED toWorker
       \/ /\ pc[t] = "raw" /\ Len(toWorker) < Capacity
          /\ toWorker' = Append(toWorker, Chunk("cut", myId[t]))
    /\ Goto(t, "idle")
    /\ Finish(t, "aborted")
    /\ myId' = [myId EXCEPT ![t] = 0]
    /\ lock' = NoThread
    /\ UNCHANGED <<procVars, bridgeVars, workerVars, why, reply, nextRequestId,
                   parentOpen, toParent, sig>>

TimeOutSendOnly(t) ==
    /\ HasTimeout
    /\ pc[t] = "raw"
    /\ Abort(t)

\* The socket timeout fires in recv with nothing to read, or in the sendall of
\* a payload larger than the socket buffer.
TimeOut(t) ==
    /\ HasTimeout
    /\ \/ pc[t] = "recv" /\ toParent = <<>>
       \/ pc[t] = "raw"
    /\ Abort(t)

\* EPIPE while sending, EOF while receiving.
PeerGone(t) ==
    /\ wpc = "dead"
    /\ \/ pc[t] \in {"head", "raw"}
       \/ pc[t] = "recv" /\ toParent = <<>>
    /\ Abort(t)

\* Ctrl-C (main thread only), or a sampling value JSON cannot encode.
Interrupt(t) ==
    /\ \/ t = Main /\ pc[t] \in CallPCs
       \/ pc[t] = "head"
    /\ Abort(t)

-----------------------------------------------------------------------------
(* close().                                                                 *)

\* The check before the lock: close() of a closed bridge returns at once.
CallClose(t) ==
    /\ parent = "running" /\ up /\ pc[t] = "idle" /\ ~closed
    /\ Goto(t, "clock")
    /\ UNCHANGED <<procVars, lockVars, bridgeVars, callVars, streamVars,
                   workerVars, why, parentOpen, sig>>

\* With the lock: somebody else may have closed it meanwhile.
CloseAgain(t) ==
    /\ pc[t] = "clock" /\ lock = NoThread /\ closed
    /\ Goto(t, "idle")
    /\ UNCHANGED <<procVars, lockVars, bridgeVars, callVars, streamVars,
                   workerVars, why, parentOpen, sig>>

\* process.poll() decides whether there is a worker to say goodbye to.
CloseLocked(t) ==
    /\ pc[t] = "clock" /\ lock = NoThread /\ ~closed
    /\ lock' = t
    /\ closed' = TRUE
    /\ socket' = FALSE
    /\ Goto(t, IF wpc = "dead" THEN "cwait" ELSE "csend")
    /\ parentOpen' = (wpc # "dead")
    /\ UNCHANGED <<procVars, callVars, streamVars, workerVars, why,
                   nextRequestId, finalizer, sig>>

CloseSend(t) ==
    /\ pc[t] = "csend" /\ wpc # "dead" /\ Len(toWorker) < Capacity
    /\ toWorker' = Append(toWorker, Chunk("close", 0))
    /\ Goto(t, "crecv")
    /\ UNCHANGED <<procVars, lockVars, bridgeVars, callVars, workerVars, why,
                   parentOpen, toParent, sig>>

\* A confirmation, a frame that is none, EPIPE, EOF or close_timeout: the
\* socket is closed in every case.
CloseHearsOrFails(t) ==
    /\ \/ pc[t] = "crecv"
       \/ pc[t] = "csend" /\ wpc = "dead"
    /\ toParent' = IF toParent = <<>> THEN <<>> ELSE Tail(toParent)
    /\ parentOpen' = FALSE
    /\ Goto(t, "cwait")
    /\ UNCHANGED <<procVars, lockVars, bridgeVars, callVars, workerVars, why,
                   toWorker, sig>>

CloseReaped(t) ==
    /\ pc[t] = "cwait" /\ wpc = "dead"
    /\ finalizer' = FALSE
    /\ lock' = NoThread
    /\ Goto(t, "idle")
    /\ UNCHANGED <<procVars, callVars, streamVars, workerVars, why,
                   nextRequestId, closed, socket, parentOpen, sig>>

\* Mutant: a worker that is still there after close_timeout is let go.
CloseWaitLetsGo(t) ==
    /\ pc[t] = "cwait" /\ wpc # "dead"
    /\ finalizer' = FALSE
    /\ lock' = NoThread
    /\ Goto(t, "idle")
    /\ UNCHANGED <<procVars, callVars, streamVars, workerVars, why,
                   nextRequestId, closed, socket, parentOpen, sig>>

CloseWaitExpires(t) ==
    /\ pc[t] = "cwait" /\ wpc # "dead"
    /\ StartCleanup(t, "close")
    /\ UNCHANGED <<procVars, lockVars, bridgeVars, callVars, toWorker>>

-----------------------------------------------------------------------------
(* Ctrl-C outside _exchange, and the end of the parent.                     *)

\* In close(), the socket is still closed; in _force_cleanup it already is.
\* The lock is released and the finalizer stays attached.
InterruptCleanup ==
    /\ \/ pc[Main] \in ClosePCs
       \/ pc[Main] \in CleanupPCs /\ why[Main] \in {"abort", "close"}
    /\ Goto(Main, "idle")
    /\ lock' = NoThread
    /\ parentOpen' = FALSE
    /\ outcome' = IF myId[Main] # 0 THEN [outcome EXCEPT ![Main] = "aborted"]
                                    ELSE outcome
    /\ myId' = [myId EXCEPT ![Main] = 0]
    /\ UNCHANGED <<procVars, bridgeVars, streamVars, workerVars, why, reply,
                   nextRequestId, sig>>

InterruptWait ==
    /\ pc[Main] \in {"lock", "clock"}
    /\ Goto(Main, "idle")
    /\ UNCHANGED <<procVars, lockVars, bridgeVars, callVars, streamVars,
                   workerVars, why, parentOpen, sig>>

\* A second Ctrl-C in the _force_cleanup of a failed __init__, or in that of
\* the finalizer at exit: nobody is left to finish it, so the parent's end is
\* no better than a kill.
InterruptLastCleanup ==
    /\ pc[Main] \in CleanupPCs /\ why[Main] \in {"boot", "exit"}
    /\ parent' = "killed"
    /\ Goto(Main, "gone")
    /\ UNCHANGED <<lockVars, bridgeVars, callVars, streamVars, workerVars, up,
                   why, parentOpen, sig>>

\* The interpreter exits once its threads are through; a finalizer still
\* attached runs first.
Exit ==
    /\ parent = "running" /\ up /\ \A t \in Threads : pc[t] = "idle"
    /\ pc' = [t \in Threads |-> IF t = Main /\ finalizer THEN "term"
                                                        ELSE "gone"]
    /\ IF finalizer
       THEN CleanupSignals(Main, "exit") /\ UNCHANGED parent
       ELSE /\ parent' = "ended"
            /\ UNCHANGED <<why, parentOpen, sig>>
    /\ UNCHANGED <<lockVars, bridgeVars, callVars, streamVars, workerVars, up>>

\* The parent is killed: the kernel closes its end of the socket pair.
ParentDies ==
    /\ parent = "running"
    /\ parent' = "killed"
    /\ pc' = [t \in Threads |-> "gone"]
    /\ myId' = [t \in Threads |-> 0]
    /\ reply' = [t \in Threads |-> NoReply]
    /\ lock' = NoThread
    /\ parentOpen' = FALSE
    /\ UNCHANGED <<bridgeVars, streamVars, workerVars, up, why, outcome,
                   nextRequestId, sig>>

-----------------------------------------------------------------------------
(* The worker: run() of tools/vllm_worker.py.                               *)

\* send_frame to a parent that is gone raises; every such exception ends in
\* run()'s finally.
Answer(type, id, next) ==
    IF parentOpen
    THEN /\ Len(toParent) < Capacity
         /\ toParent' = Append(toParent, Frame(type, id))
         /\ wpc' = next
    ELSE wpc' = "exiting" /\ UNCHANGED toParent

\* A model view re-pointed while it loads makes the ready frame name another
\* path; an exception makes it an error frame.
WorkerLoads ==
    /\ wpc = "load"
    /\ \/ Answer("ready", 0, "recv")
       \/ Answer("misready", 0, "recv")
       \/ Answer("error", 0, "exiting")
    /\ UNCHANGED <<parentVars, parentOpen, toWorker, wid, served, sig>>

\* The first part of a generate frame.
WorkerReadsHead ==
    /\ wpc = "recv" /\ toWorker # <<>> /\ Head(toWorker).kind = "generate"
    /\ toWorker' = Tail(toWorker)
    /\ wpc' = "raw"
    /\ wid' = Head(toWorker).id
    /\ UNCHANGED <<parentVars, parentOpen, toParent, served, sig>>

\* A close frame is confirmed and ends the loop; so does a chunk that is not
\* the start of a frame (IPCProtocolError).
WorkerReadsClose ==
    /\ wpc = "recv" /\ toWorker # <<>> /\ Head(toWorker).kind # "generate"
    /\ toWorker' = Tail(toWorker)
    /\ IF Head(toWorker).kind = "close"
       THEN Answer("closed", 0, "exiting")
       ELSE wpc' = "exiting" /\ UNCHANGED toParent
    /\ UNCHANGED <<parentVars, parentOpen, wid, served, sig>>

\* The raw payload is read by its length: what is missing of a cut payload is
\* taken from whatever follows it.
PayloadComplete ==
    toWorker # <<>> /\ (Head(toWorker).kind = "cut" => Len(toWorker) > 1)

WorkerReadsRaw ==
    /\ wpc = "raw" /\ PayloadComplete
    /\ toWorker' = IF Head(toWorker).kind = "cut" THEN Tail(Tail(toWorker))
                                                  ELSE Tail(toWorker)
    /\ wpc' = "gen"
    /\ UNCHANGED <<parentVars, parentOpen, toParent, wid, served, sig>>

\* Mutant: EOF is only noticed between frames.
WorkerSeesEofBetween ==
    /\ ~parentOpen
    /\ wpc = "recv" /\ toWorker = <<>>
    /\ wpc' = "exiting"
    /\ UNCHANGED <<parentVars, streamVars, parentOpen, wid, served, sig>>

WorkerSeesEof ==
    /\ ~parentOpen
    /\ \/ wpc = "recv" /\ toWorker = <<>>
       \/ wpc = "raw" /\ ~PayloadComplete
    /\ wpc' = "exiting"
    /\ UNCHANGED <<parentVars, streamVars, parentOpen, wid, served, sig>>

EngineReturns ==
    /\ wpc = "gen"
    /\ Answer("generation", wid, "recv")
    /\ served' = Append(served, wid)
    /\ UNCHANGED <<parentVars, parentOpen, toWorker, wid, sig>>

\* An exception of the engine, or a request it does not accept, goes back as
\* an error frame and the worker stays up.
EngineRaises ==
    /\ wpc = "gen"
    /\ Answer("error", wid, "recv")
    /\ UNCHANGED <<parentVars, parentOpen, toWorker, wid, served, sig>>

WorkerExits ==
    /\ wpc = "exiting"
    /\ wpc' = "dead"
    /\ UNCHANGED <<parentVars, streamVars, parentOpen, wid, served, sig>>

\* SIGKILL takes effect.
WorkerKilled ==
    /\ wpc # "dead" /\ sig = "kill"
    /\ wpc' = "dead"
    /\ UNCHANGED <<parentVars, streamVars, parentOpen, wid, served, sig>>

\* The worker crashes, is killed for lack of memory, or obeys SIGTERM.
WorkerCrashes ==
    /\ wpc # "dead"
    /\ wpc' = "dead"
    /\ UNCHANGED <<parentVars, streamVars, parentOpen, wid, served, sig>>

-----------------------------------------------------------------------------
\* What thread t does without being made to: once begun, it goes on.
Continue(t) ==
    \/ Issue(t) \/ IssueRefused(t, FALSE)
    \/ SendHead(t) \/ SendRaw(t) \/ Receive(t) \/ Check(t)
    \/ TimeOut(t) \/ PeerGone(t)
    \/ CloseAgain(t) \/ CloseLocked(t) \/ CloseSend(t) \/ CloseHearsOrFails(t)
    \/ CloseReaped(t) \/ CloseWaitExpires(t)
    \/ CleanupKills(t) \/ CleanupReturns(t)

ThreadNext(t) == \/ Continue(t)
                 \/ CallGenerate(t) \/ CallClose(t)
                 \/ IssueRefused(t, TRUE)
                 \/ Interrupt(t)

WorkerReading == \/ WorkerReadsHead \/ WorkerReadsClose \/ WorkerReadsRaw
                 \/ WorkerSeesEof \/ WorkerExits

EngineDone == EngineReturns \/ EngineRaises

WorkerNext == WorkerLoads \/ WorkerReading \/ EngineDone \/ WorkerCrashes

\* Everything is over: nothing has to happen any more.
Over == parent # "running" /\ wpc = "dead" /\ UNCHANGED vars

Next == \/ BootReady \/ BootFails
        \/ \E t \in Threads : ThreadNext(t)
        \/ InterruptCleanup \/ InterruptLastCleanup \/ InterruptWait
        \/ Exit \/ ParentDies
        \/ WorkerNext \/ WorkerKilled
        \/ Over

Spec == Init /\ [][Next]_vars

(***************************************************************************)
(* Fairness: a thread that has begun a call is scheduled again, a timeout  *)
(* that runs does expire, and SIGKILL works.  Nothing is assumed of the    *)
(* worker: its engine, its load and its shutdown may hang for ever, and it *)
(* may ignore SIGTERM.                                                     *)
(***************************************************************************)
Fairness == /\ WF_vars(BootReady \/ BootFails)
            /\ \A t \in Threads : WF_vars(Continue(t))
            /\ WF_vars(WorkerKilled)

FairSpec == Spec /\ Fairness

-----------------------------------------------------------------------------
(* Safety.                                                                  *)

\* A response a thread has taken from the socket answers that thread's own
\* request: the comparison of request ids at the end of generate_raw never has
\* to save a caller, because a call that is given up (timeout, Ctrl-C) takes
\* the socket with it and no later call can meet its late answer.
ReplyIsOwn ==
    \A t \in Threads : pc[t] = "check" =>
        reply[t] \in {Frame("generation", myId[t]), Frame("error", myId[t])}

\* The worker's reader never loses the frame boundaries: between frames the
\* next thing it meets is the start of a frame, after a generate frame's JSON
\* it is that request's payload, and a payload cut short is followed by
\* nothing, so it is never completed with the bytes of another frame.
WorkerAligned ==
    /\ wpc = "recv" /\ toWorker # <<>> =>
         Head(toWorker).kind \in {"generate", "close"}
    /\ wpc = "raw" /\ toWorker # <<>> =>
         /\ Head(toWorker).kind \in {"raw", "cut"}
         /\ Head(toWorker).id = wid
         /\ Head(toWorker).kind = "cut" => Len(toWorker) = 1

\* However the bridge is closed, by close(), by a failed call, or by either of
\* them cut short by Ctrl-C, the finalizer is detached only once the worker is
\* dead or has been sent SIGKILL, and only then does the parent end: no path
\* leaves a worker nobody will stop.
FinalizerGuardsWorker ==
    (up /\ ~finalizer) \/ parent = "ended" => wpc = "dead" \/ sig = "kill"

\* Once the bridge is closed no generate frame enters the socket, whoever was
\* waiting for the lock when it was closed.
NoSendAfterClose ==
    [][closed => \A i \in DOMAIN toWorker' \ DOMAIN toWorker :
                    toWorker'[i].kind # "generate"]_vars

-----------------------------------------------------------------------------
(* Liveness.                                                                *)

\* The holder of the lock gives it up, whatever the worker does: a worker that
\* hangs in its engine is timed out and a dead one is noticed, so the threads
\* queueing for generate() and close() are not blocked for ever.
LockReleased ==
    \A t \in Threads : lock = t ~> lock # t

\* When the parent ends in an orderly way the worker is gone, even one that is
\* stuck and ignores SIGTERM.
OrderlyExitStopsWorker ==
    parent = "ended" ~> wpc = "dead"

\* When the parent is killed, nobody signals the worker: it goes away by
\* itself provided its engine comes back and its own steps are scheduled.
OrphanStops ==
    WF_vars(WorkerLoads) /\ WF_vars(WorkerReading) /\ WF_vars(EngineDone)
        => (parent = "killed" ~> wpc = "dead")

-----------------------------------------------------------------------------
(* Refinement.                                                              *)

Service == INSTANCE GenerationService WITH
    mode <- IF closed THEN "closed" ELSE "open",
    issued <- nextRequestId - 1,
    executed <- served,
    ticket <- myId,
    answer <- [t \in Threads |->
                 IF pc[t] = "check" /\ reply[t].type = "generation"
                 THEN reply[t].id ELSE 0]

\* The bridge implements GenerationService: every request is executed at most
\* once, and a thread is only given the answer computed for its own request,
\* while the bridge is open.
ServiceSpec == Service!Spec
=============================================================================
