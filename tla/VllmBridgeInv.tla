--------------------------- MODULE VllmBridgeInv ---------------------------
(***************************************************************************)
(* The inductive invariant behind the safety of VllmBridge.                *)
(***************************************************************************)
EXTENDS VllmBridge

InExchange(t) == \/ pc[t] \in CallPCs \cup ClosePCs
                 \/ pc[t] \in CleanupPCs /\ why[t] \in {"abort", "close"}

\* The lock is held exactly by the thread inside _exchange or close().
LockInv == \A t \in Threads : (lock = t) <=> InExchange(t)

\* Before __init__ returns only the main thread does anything; the finalizer
\* only ever runs when every other thread is through.
PhaseInv ==
    /\ ~up => /\ ~closed
              /\ \A t \in Threads : t # Main => pc[t] \in {"idle", "gone"}
              /\ pc[Main] \in {"boot", "term", "kill", "gone"}
              /\ why[Main] = "boot"
    /\ up => \A t \in Threads :
               /\ pc[t] # "boot"
               /\ pc[t] \in CleanupPCs => why[t] # "boot"
    /\ \A t \in Threads : pc[t] \in CleanupPCs /\ why[t] = "exit" =>
         /\ t = Main
         /\ \A u \in Threads : u # Main => pc[u] = "gone"
    /\ parent # "running" => \A t \in Threads : pc[t] \in {"idle", "gone"}
    /\ parent # "running" /\ up => \A t \in Threads : pc[t] = "gone"

\* A call that is on its way, or may begin, has an open socket; a close() has
\* set its flag.
OpenInv ==
    /\ \A t \in Threads : up /\ ~closed /\ pc[t] \in {"idle", "lock", "check", "clock"} =>
         parentOpen
    /\ pc[Main] = "boot" => parentOpen
    /\ \A t \in Threads : pc[t] \in CallPCs => parentOpen /\ ~closed
    /\ \A t \in Threads : InExchange(t) /\ pc[t] \notin CallPCs => closed
    /\ \A t \in Threads : pc[t] \in {"csend", "crecv"} => parentOpen

\* Nothing is in the socket and the worker waits for a frame.
Quiet == toWorker = <<>> /\ toParent = <<>> /\ wpc \in {"recv", "dead"}

Request(i) == Chunk("generate", i)
Payload(i) == Chunk("raw", i)

\* How far the request of a thread waiting for its answer can have got.
RequestInv(i) ==
    \/ /\ toWorker = <<Request(i), Payload(i)>> /\ toParent = <<>>
       /\ wpc \in {"recv", "dead"}
    \/ /\ toWorker = <<Payload(i)>> /\ toParent = <<>>
       /\ wpc = "dead" \/ (wpc = "raw" /\ wid = i)
    \/ /\ toWorker = <<>> /\ toParent = <<>>
       /\ wpc = "dead" \/ (wpc = "gen" /\ wid = i)
    \/ /\ toWorker = <<>> /\ wpc \in {"recv", "dead"}
       /\ toParent \in {<<Frame("generation", i)>>, <<Frame("error", i)>>}

BootStream ==
    ~up => /\ toWorker = <<>>
           /\ wpc \in {"load", "recv", "exiting", "dead"}
           /\ toParent \in {<<>>, <<Frame("ready", 0)>>,
                            <<Frame("misready", 0)>>, <<Frame("error", 0)>>}
           /\ wpc = "load" => toParent = <<>>
           /\ toParent = <<Frame("ready", 0)>> =>
                wpc \in {"recv", "dead"} \/ ~parentOpen

IdleStream == up /\ ~closed /\ parentOpen /\ lock = NoThread => Quiet

CallStream(t) ==
    /\ pc[t] \in {"head", "csend"} => Quiet
    /\ pc[t] = "raw" =>
         /\ toParent = <<>>
         /\ \/ toWorker = <<Request(myId[t])>> /\ wpc \in {"recv", "dead"}
            \/ toWorker = <<>> /\ wpc = "dead"
            \/ toWorker = <<>> /\ wpc = "raw" /\ wid = myId[t]
    /\ pc[t] = "recv" => RequestInv(myId[t])

StreamInv == /\ BootStream
             /\ IdleStream
             /\ \A t \in Threads : CallStream(t)

\* What the worker can find in front of it, whether or not its parent is
\* still there.
AlignInv ==
    /\ wpc = "load" => ~up
    /\ wpc = "recv" =>
         \/ toWorker = <<>>
         \/ toWorker = <<Chunk("close", 0)>>
         \/ \E i \in 0..MaxId :
              toWorker \in {<<Request(i)>>, <<Request(i), Payload(i)>>,
                            <<Request(i), Chunk("cut", i)>>}
    /\ wpc = "raw" => toWorker \in {<<>>, <<Payload(wid)>>,
                                    <<Chunk("cut", wid)>>}
    /\ wpc = "gen" => toWorker = <<>>

\* SIGKILL is never taken back, and a thread that has sent it has sent it.
SignalInv ==
    \A t \in Threads : pc[t] = "kill" => sig = "kill"

SafetyInv == /\ TypeOK
             /\ LockInv /\ PhaseInv /\ OpenInv /\ StreamInv /\ AlignInv
             /\ SignalInv
             /\ ReplyIsOwn
             /\ FinalizerGuardsWorker

\* The requests the engine has answered, those that have an id, and those it
\* may still be given.
Answered == {served[k] : k \in DOMAIN served}
Issued == 1..(nextRequestId - 1)
Pending == Issued \ Answered

\* A thread has a request id exactly while its call is on its way.
TicketInv ==
    \A t \in Threads :
        /\ myId[t] \in Issued \cup {0}
        /\ pc[t] \in CallPCs \cup {"check"} => myId[t] # 0
        /\ pc[t] \in {"boot", "idle", "lock", "clock"} \cup ClosePCs => myId[t] = 0

\* Every generation in the socket is of a request the engine has answered.
AnswersInv ==
    \A k \in DOMAIN toParent :
        toParent[k].type = "generation" => toParent[k].id \in Answered

\* Wherever a request is before its answer, it has not been answered yet.
FreshInv ==
    /\ Answered \subseteq Issued
    /\ \A t \in Threads : pc[t] = "head" => myId[t] \notin Answered
    /\ wpc = "recv" /\ toWorker # <<>> /\ Head(toWorker).kind = "generate" =>
         Head(toWorker).id \in Pending
    /\ wpc \in {"raw", "gen"} => wid \in Pending

\* What SafetyInv needs beside it for the refinement of GenerationService.
ServiceInv == SafetyInv /\ TicketInv /\ FreshInv /\ AnswersInv
=============================================================================
