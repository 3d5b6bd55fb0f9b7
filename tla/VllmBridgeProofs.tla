-------------------------- MODULE VllmBridgeProofs --------------------------
(***************************************************************************)
(* The safety of VllmBridge for every set of threads, every socket         *)
(* capacity and every number of requests.  SafetyInv (VllmBridgeInv) is    *)
(* inductive: one lemma per conjunct shows that a step preserves it, with  *)
(* one step per action; what the actions that move chunks and frames do to *)
(* the streams (AlignInv, StreamInv) has lemmas of its own.  ServiceInv    *)
(* adds what the refinement of GenerationService needs: which requests     *)
(* have an id, and which of them the engine may still be given.            *)
(***************************************************************************)
EXTENDS VllmBridgeInv, SequenceTheorems, TLAPS

\* The groups of variables in the UNCHANGED clauses are always expanded.
USE DEF procVars, callVars, lockVars, bridgeVars, parentVars, streamVars, workerVars

\* The head and the tail of a non-empty sequence have its element and sequence types.
LEMMA SeqTyping ==
    ASSUME NEW S, NEW s \in Seq(S), s # <<>>
    PROVE  Head(s) \in S /\ Tail(s) \in Seq(S)
  BY HeadTailProperties

\* Appending an element keeps a sequence's type.
LEMMA AppendTyping ==
    ASSUME NEW S, NEW s \in Seq(S), NEW e \in S
    PROVE  Append(s, e) \in Seq(S)
  OBVIOUS

\* What Head, Tail, Append and Len do to sequences of at most two elements: the
\* socket never holds more than two chunks.
LEMMA ShortSequences ==
    \A a, b : /\ <<a>> # <<>> /\ <<a, b>> # <<>>
             /\ Head(<<a>>) = a /\ Tail(<<a>>) = <<>>
             /\ Head(<<a, b>>) = a /\ Tail(<<a, b>>) = <<b>>
             /\ Append(<<>>, a) = <<a>> /\ Append(<<a>>, b) = <<a, b>>
             /\ Len(<<a>>) = 1 /\ Len(<<a, b>>) = 2
  <1> SUFFICES ASSUME NEW a, NEW b
               PROVE  /\ <<a>> # <<>> /\ <<a, b>> # <<>>
                      /\ Head(<<a>>) = a /\ Tail(<<a>>) = <<>>
                      /\ Head(<<a, b>>) = a /\ Tail(<<a, b>>) = <<b>>
                      /\ Append(<<>>, a) = <<a>> /\ Append(<<a>>, b) = <<a, b>>
                      /\ Len(<<a>>) = 1 /\ Len(<<a, b>>) = 2
    OBVIOUS
  <1> DEFINE S == {a, b}
  <1>1. Append(<<a>>, b) \in Seq(S) /\ <<a, b>> \in Seq(S)
    OBVIOUS
  <1>2. Len(Append(<<a>>, b)) = 2 /\ Len(<<a, b>>) = 2
    OBVIOUS
  <1>3. Append(<<a>>, b)[1] = a /\ Append(<<a>>, b)[2] = b
    OBVIOUS
  <1>4. \A i \in 1..2 : Append(<<a>>, b)[i] = <<a, b>>[i]
    BY <1>3
  <1> HIDE DEF S
  <1>5. Append(<<a>>, b) = <<a, b>>
    BY <1>1, <1>2, <1>4, SeqEqual
  <1>6. <<a>> # <<>> /\ <<a, b>> # <<>> /\ Len(<<a>>) = 1 /\ Len(<<a, b>>) = 2
    OBVIOUS
  <1>7. Head(<<a>>) = a /\ Head(<<a, b>>) = a
    OBVIOUS
  <1>8. Tail(<<a>>) = <<>>
    OBVIOUS
  <1>9. Tail(<<a, b>>) = <<b>>
    OBVIOUS
  <1>10. Append(<<>>, a) = <<a>>
    OBVIOUS
  <1>11. QED
    BY <1>5, <1>6, <1>7, <1>8, <1>9, <1>10

\* A sequence of more than one element has a tail that is not empty.
LEMMA ShortTail ==
    ASSUME NEW S, NEW s \in Seq(S), Len(s) > 1
    PROVE  s # <<>> /\ Tail(s) # <<>>
  <1>1. s # <<>>
    OBVIOUS
  <1>2. Tail(s) \in Seq(S) /\ Len(Tail(s)) = Len(s) - 1
    BY <1>1, HeadTailProperties
  <1>3. Tail(s) # <<>>
    <2> SUFFICES ASSUME Tail(s) = <<>> PROVE FALSE
      OBVIOUS
    <2>1. Len(<<>>) = 0
      OBVIOUS
    <2>2. Len(Tail(s)) # 0
      <3>1. Len(s) \in Nat
        OBVIOUS
      <3>2. \A n \in Nat : n > 1 => n - 1 # 0
        OBVIOUS
      <3>3. QED
        BY <1>2, <3>1, <3>2
    <2>3. QED
      BY <2>1, <2>2, Zenon
  <1>4. QED
    BY <1>1, <1>3

\* Dropping two elements keeps a sequence's type.
LEMMA TailTwiceTyping ==
    ASSUME NEW S, NEW s \in Seq(S), Len(s) > 1
    PROVE  Tail(Tail(s)) \in Seq(S)
  BY ShortTail, SeqTyping

\* The worker's answers are typed frames (send_frame in vllm_worker.py).
LEMMA AnswerTyping ==
    ASSUME TypeOK, NEW type \in {"ready", "misready", "error", "generation", "closed"},
           NEW id \in 0..MaxId, NEW next \in {"recv", "exiting"}, Answer(type, id, next)
    PROVE  toParent' \in Seq(Frames) /\ wpc' \in {"recv", "exiting"}
  <1>1. Frame(type, id) \in Frames
    BY DEF Frame, Frames
  <1>2. Append(toParent, Frame(type, id)) \in Seq(Frames)
    BY <1>1, AppendTyping DEF TypeOK
  <1>3. QED
    BY <1>2 DEF Answer, TypeOK

\* _abort keeps every variable's type.
LEMMA AbortTyping ==
    ASSUME TypeOK, NEW t \in Threads, Abort(t)
    PROVE  TypeOK'
  <1>1. Chunk("cut", myId[t]) \in Chunks
    BY DEF Chunk, Chunks, TypeOK
  <1>2. Append(toWorker, Chunk("cut", myId[t])) \in Seq(Chunks)
    BY <1>1, AppendTyping DEF TypeOK
  <1>3. toWorker' \in Seq(Chunks)
    BY <1>2 DEF Abort, TypeOK
  <1>4. pc' \in [Threads -> PCs]
    BY DEF Abort, StartCleanup, Goto, TypeOK, PCs, CleanupPCs
  <1>5. why' \in [Threads -> {"boot", "abort", "close", "exit"}]
    BY DEF Abort, StartCleanup, CleanupSignals, TypeOK
  <1>6. sig' \in {"none", "term", "kill"} /\ parentOpen' \in BOOLEAN /\ closed' \in BOOLEAN
    BY DEF Abort, StartCleanup, CleanupSignals, TypeOK
  <1>7. QED
    BY <1>3, <1>4, <1>5, <1>6 DEF Abort, StartCleanup, CleanupSignals, TypeOK

\* Every step keeps every variable's type.
LEMMA TypeInvariant == TypeOK /\ [Next]_vars => TypeOK'
  <1> SUFFICES ASSUME TypeOK, [Next]_vars PROVE TypeOK'
    OBVIOUS
  <1> USE ThreadsAssumption, BoundsAssumption
      DEF TypeOK, PCs, CallPCs, ClosePCs, CleanupPCs
  <1>a. /\ toWorker # <<>> => Head(toWorker) \in Chunks /\ Tail(toWorker) \in Seq(Chunks)
        /\ toParent # <<>> => Head(toParent) \in Frames /\ Tail(toParent) \in Seq(Frames)
    BY SeqTyping
  <1>c. \A kind, id : Chunk(kind, id) \in Chunks => Append(toWorker, Chunk(kind, id)) \in Seq(Chunks)
    BY AppendTyping
  <1>d. /\ \A id \in 0..MaxId : \A kind \in {"generate", "raw", "cut", "close"} : Chunk(kind, id) \in Chunks
        /\ NoReply \in Frames
    BY DEF Frame, Chunk, Frames, Chunks, NoReply

  <1>1. ASSUME NEW t \in Threads, CleanupKills(t) PROVE TypeOK'
    BY <1>1, <1>a, <1>c, <1>d DEF CleanupKills, Goto
  <1>2. ASSUME NEW t \in Threads, CleanupReturns(t) PROVE TypeOK'
    <2>1. pc' \in [Threads -> PCs]
      BY <1>2, <1>a, <1>d DEF CleanupReturns, Goto
    <2>2. parent' \in {"running", "ended", "killed"}
      BY <1>2, <1>a, <1>d DEF CleanupReturns, Goto
    <2>3. outcome' \in [Threads -> {"none", "ok", "remote", "protocol", "aborted", "refused"}]
      BY <1>2, <1>a, <1>d DEF CleanupReturns, Goto
    <2>4. myId' \in [Threads -> 0..MaxId]
      BY <1>2, <1>a, <1>d DEF CleanupReturns, Goto
    <2>5. socket' \in BOOLEAN
      BY <1>2, <1>a, <1>d DEF CleanupReturns, Goto
    <2>6. lock' \in Threads \cup {NoThread}
      BY <1>2, <1>a, <1>d DEF CleanupReturns, Goto
    <2>7. QED
      BY <1>2, <2>1, <2>2, <2>3, <2>4, <2>5, <2>6 DEF CleanupReturns
  <1>3. ASSUME NEW t \in Threads, CallGenerate(t) PROVE TypeOK'
    BY <1>3, <1>a, <1>c, <1>d DEF CallGenerate, Goto, Finish
  <1>4. ASSUME NEW t \in Threads, Issue(t) PROVE TypeOK'
    BY <1>4, <1>a, <1>c, <1>d DEF Issue, CanIssue, Goto
  <1>5. ASSUME NEW t \in Threads, NEW b \in BOOLEAN, IssueRefused(t, b) PROVE TypeOK'
    BY <1>5 DEF IssueRefused, CanIssue, Goto, Finish
  <1>6. ASSUME NEW t \in Threads, SendHead(t) PROVE TypeOK'
    BY <1>6, <1>a, <1>c, <1>d DEF SendHead, Goto
  <1>7. ASSUME NEW t \in Threads, SendRaw(t) PROVE TypeOK'
    BY <1>7, <1>a, <1>c, <1>d DEF SendRaw, Goto
  <1>8. ASSUME NEW t \in Threads, Receive(t) PROVE TypeOK'
    BY <1>8, <1>a, <1>c, <1>d DEF Receive, Goto
  <1>9. ASSUME NEW t \in Threads, Check(t) PROVE TypeOK'
    BY <1>9, <1>a, <1>c, <1>d DEF Check, Goto, Finish
  <1>10. ASSUME NEW t \in Threads, TimeOut(t) PROVE TypeOK'
    BY <1>10, AbortTyping DEF TimeOut
  <1>11. ASSUME NEW t \in Threads, PeerGone(t) PROVE TypeOK'
    BY <1>11, AbortTyping DEF PeerGone
  <1>12. ASSUME NEW t \in Threads, Interrupt(t) PROVE TypeOK'
    BY <1>12, AbortTyping DEF Interrupt
  <1>13. ASSUME NEW t \in Threads, CallClose(t) PROVE TypeOK'
    BY <1>13, <1>a, <1>c, <1>d DEF CallClose, Goto
  <1>14. ASSUME NEW t \in Threads, CloseAgain(t) PROVE TypeOK'
    BY <1>14, <1>a, <1>c, <1>d DEF CloseAgain, Goto
  <1>15. ASSUME NEW t \in Threads, CloseLocked(t) PROVE TypeOK'
    BY <1>15, <1>a, <1>c, <1>d DEF CloseLocked, Goto
  <1>16. ASSUME NEW t \in Threads, CloseSend(t) PROVE TypeOK'
    BY <1>16, <1>a, <1>c, <1>d DEF CloseSend, Goto
  <1>17. ASSUME NEW t \in Threads, CloseHearsOrFails(t) PROVE TypeOK'
    <2>1. pc' \in [Threads -> PCs]
      BY <1>17, <1>a, <1>d DEF CloseHearsOrFails, Goto
    <2>2. toParent' \in Seq(Frames)
      BY <1>17, <1>a, <1>d DEF CloseHearsOrFails, Goto
    <2>3. QED
      BY <1>17, <2>1, <2>2 DEF CloseHearsOrFails
  <1>18. ASSUME NEW t \in Threads, CloseReaped(t) PROVE TypeOK'
    BY <1>18, <1>a, <1>c, <1>d DEF CloseReaped, Goto
  <1>19. ASSUME NEW t \in Threads, CloseWaitExpires(t) PROVE TypeOK'
    BY <1>19, <1>a, <1>c, <1>d DEF CloseWaitExpires, StartCleanup, CleanupSignals, Goto
  <1>20. CASE BootReady
    BY <1>20, <1>a, <1>d DEF BootReady, Goto
  <1>21. CASE BootFails
    BY <1>21, <1>a, <1>d DEF BootFails, StartCleanup, CleanupSignals, Goto
  <1>22. CASE InterruptCleanup
    <2>1. pc' \in [Threads -> PCs]
      BY <1>22, <1>a, <1>d DEF InterruptCleanup, Goto
    <2>2. outcome' \in [Threads -> {"none", "ok", "remote", "protocol", "aborted", "refused"}]
      BY <1>22, <1>a, <1>d DEF InterruptCleanup, Goto
    <2>3. myId' \in [Threads -> 0..MaxId]
      BY <1>22, <1>a, <1>d DEF InterruptCleanup, Goto
    <2>4. QED
      BY <1>22, <2>1, <2>2, <2>3 DEF InterruptCleanup
  <1>23. CASE InterruptLastCleanup
    BY <1>23, <1>a, <1>d DEF InterruptLastCleanup, Goto
  <1>24. CASE InterruptWait
    BY <1>24, <1>a, <1>d DEF InterruptWait, Goto
  <1>25. CASE Exit
    BY <1>25, <1>a, <1>d DEF Exit, CleanupSignals
  <1>26. CASE ParentDies
    <2>1. pc' \in [Threads -> PCs]
      BY <1>26, <1>a, <1>d DEF ParentDies
    <2>2. myId' \in [Threads -> 0..MaxId]
      BY <1>26, <1>a, <1>d DEF ParentDies
    <2>3. reply' \in [Threads -> Frames]
      BY <1>26, <1>a, <1>d DEF ParentDies
    <2>4. QED
      BY <1>26, <2>1, <2>2, <2>3 DEF ParentDies
  <1>27. CASE WorkerLoads
    <2>1. toParent' \in Seq(Frames) /\ wpc' \in {"recv", "exiting"}
      BY <1>27, AnswerTyping DEF WorkerLoads
    <2>2. QED
      BY <1>27, <2>1 DEF WorkerLoads
  <1>28. CASE WorkerReadsHead
    BY <1>28, <1>a, <1>d DEF WorkerReadsHead, Chunks
  <1>29. CASE WorkerReadsClose
    <2>1. toWorker' \in Seq(Chunks)
      BY <1>29, <1>a, <1>d, AnswerTyping DEF WorkerReadsClose
    <2>2. toParent' \in Seq(Frames)
      BY <1>29, <1>a, <1>d, AnswerTyping DEF WorkerReadsClose
    <2>3. wpc' \in {"load", "recv", "raw", "gen", "exiting", "dead"}
      BY <1>29, <1>a, <1>d, AnswerTyping DEF WorkerReadsClose
    <2>4. QED
      BY <1>29, <2>1, <2>2, <2>3 DEF WorkerReadsClose
  <1>30. CASE WorkerReadsRaw
    <2>1. ASSUME Len(toWorker) > 1 PROVE Tail(Tail(toWorker)) \in Seq(Chunks)
      BY <2>1, TailTwiceTyping
    <2>2. toWorker' \in Seq(Chunks)
      BY <1>30, <1>a, <2>1 DEF WorkerReadsRaw, PayloadComplete
    <2>3. QED
      BY <1>30, <2>2 DEF WorkerReadsRaw
  <1>31. CASE WorkerSeesEof
    BY <1>31, <1>a, <1>d DEF WorkerSeesEof, PayloadComplete
  <1>32. CASE EngineReturns
    <2>1. toParent' \in Seq(Frames) /\ wpc' \in {"recv", "exiting"}
      BY <1>32, AnswerTyping DEF EngineReturns
    <2>2. served' \in Seq(0..MaxId)
      BY <1>32, AppendTyping DEF EngineReturns
    <2>3. QED
      BY <1>32, <2>1, <2>2 DEF EngineReturns
  <1>33. CASE EngineRaises
    <2>1. toParent' \in Seq(Frames) /\ wpc' \in {"recv", "exiting"}
      BY <1>33, AnswerTyping DEF EngineRaises
    <2>2. QED
      BY <1>33, <2>1 DEF EngineRaises
  <1>34. CASE WorkerExits
    BY <1>34, <1>a, <1>d DEF WorkerExits
  <1>35. CASE WorkerKilled
    BY <1>35, <1>a, <1>d DEF WorkerKilled
  <1>36. CASE WorkerCrashes
    BY <1>36, <1>a, <1>d DEF WorkerCrashes
  <1>37. CASE Over
    BY <1>37 DEF Over, vars
  <1>38. CASE UNCHANGED vars
    BY <1>38 DEF vars
  <1>39. QED
    BY <1>1, <1>2, <1>3, <1>4, <1>5, <1>6, <1>7, <1>8, <1>9, <1>10, <1>11, <1>12, <1>13, <1>14, <1>15, <1>16, <1>17, <1>18, <1>19, <1>20, <1>21, <1>22, <1>23, <1>24, <1>25, <1>26, <1>27, <1>28, <1>29, <1>30, <1>31, <1>32, <1>33, <1>34, <1>35, <1>36, <1>37, <1>38 DEF Next, ThreadNext, Continue, WorkerNext, WorkerReading, EngineDone

\* Every step keeps the lock with the thread inside _exchange or close().
LEMMA LockInvStep == SafetyInv /\ [Next]_vars => LockInv'
  <1> SUFFICES ASSUME SafetyInv, [Next]_vars PROVE LockInv'
    OBVIOUS
  <1> USE ThreadsAssumption, BoundsAssumption
      DEF SafetyInv, TypeOK, LockInv, PhaseInv,
          InExchange, PCs, CallPCs, ClosePCs, CleanupPCs
  <1>1. ASSUME NEW t \in Threads, CleanupKills(t) PROVE LockInv'
    BY <1>1 DEF CleanupKills, Goto
  <1>2. ASSUME NEW t \in Threads, CleanupReturns(t) PROVE LockInv'
    BY <1>2 DEF CleanupReturns, Goto
  <1>3. ASSUME NEW t \in Threads, CallGenerate(t) PROVE LockInv'
    BY <1>3 DEF CallGenerate, Goto, Finish
  <1>4. ASSUME NEW t \in Threads, Issue(t) PROVE LockInv'
    BY <1>4 DEF Issue, CanIssue, Goto
  <1>5. ASSUME NEW t \in Threads, NEW b \in BOOLEAN, IssueRefused(t, b) PROVE LockInv'
    BY <1>5 DEF IssueRefused, CanIssue, Goto, Finish
  <1>6. ASSUME NEW t \in Threads, SendHead(t) PROVE LockInv'
    BY <1>6 DEF SendHead, Goto
  <1>7. ASSUME NEW t \in Threads, SendRaw(t) PROVE LockInv'
    BY <1>7 DEF SendRaw, Goto
  <1>8. ASSUME NEW t \in Threads, Receive(t) PROVE LockInv'
    BY <1>8 DEF Receive, Goto
  <1>9. ASSUME NEW t \in Threads, Check(t) PROVE LockInv'
    BY <1>9 DEF Check, Goto, Finish
  <1>10. ASSUME NEW t \in Threads, TimeOut(t) PROVE LockInv'
    BY <1>10 DEF TimeOut, Abort, StartCleanup, CleanupSignals, Goto
  <1>11. ASSUME NEW t \in Threads, PeerGone(t) PROVE LockInv'
    BY <1>11 DEF PeerGone, Abort, StartCleanup, CleanupSignals, Goto
  <1>12. ASSUME NEW t \in Threads, Interrupt(t) PROVE LockInv'
    BY <1>12 DEF Interrupt, Abort, StartCleanup, CleanupSignals, Goto
  <1>13. ASSUME NEW t \in Threads, CallClose(t) PROVE LockInv'
    BY <1>13 DEF CallClose, Goto
  <1>14. ASSUME NEW t \in Threads, CloseAgain(t) PROVE LockInv'
    BY <1>14 DEF CloseAgain, Goto
  <1>15. ASSUME NEW t \in Threads, CloseLocked(t) PROVE LockInv'
    BY <1>15 DEF CloseLocked, Goto
  <1>16. ASSUME NEW t \in Threads, CloseSend(t) PROVE LockInv'
    BY <1>16 DEF CloseSend, Goto
  <1>17. ASSUME NEW t \in Threads, CloseHearsOrFails(t) PROVE LockInv'
    BY <1>17 DEF CloseHearsOrFails, Goto
  <1>18. ASSUME NEW t \in Threads, CloseReaped(t) PROVE LockInv'
    BY <1>18 DEF CloseReaped, Goto
  <1>19. ASSUME NEW t \in Threads, CloseWaitExpires(t) PROVE LockInv'
    BY <1>19 DEF CloseWaitExpires, StartCleanup, CleanupSignals, Goto
  <1>20. CASE BootReady
    BY <1>20 DEF BootReady, Goto
  <1>21. CASE BootFails
    BY <1>21 DEF BootFails, StartCleanup, CleanupSignals, Goto
  <1>22. CASE InterruptCleanup
    BY <1>22 DEF InterruptCleanup, Goto
  <1>23. CASE InterruptLastCleanup
    BY <1>23 DEF InterruptLastCleanup, Goto
  <1>24. CASE InterruptWait
    BY <1>24 DEF InterruptWait, Goto
  <1>25. CASE Exit
    BY <1>25 DEF Exit, CleanupSignals
  <1>26. CASE ParentDies
    BY <1>26 DEF ParentDies
  <1>27. CASE WorkerLoads
    BY <1>27 DEF WorkerLoads, Answer
  <1>28. CASE WorkerReadsHead
    BY <1>28 DEF WorkerReadsHead
  <1>29. CASE WorkerReadsClose
    BY <1>29 DEF WorkerReadsClose, Answer
  <1>30. CASE WorkerReadsRaw
    BY <1>30 DEF WorkerReadsRaw
  <1>31. CASE WorkerSeesEof
    BY <1>31 DEF WorkerSeesEof
  <1>32. CASE EngineReturns
    BY <1>32 DEF EngineReturns, Answer
  <1>33. CASE EngineRaises
    BY <1>33 DEF EngineRaises, Answer
  <1>34. CASE WorkerExits
    BY <1>34 DEF WorkerExits
  <1>35. CASE WorkerKilled
    BY <1>35 DEF WorkerKilled
  <1>36. CASE WorkerCrashes
    BY <1>36 DEF WorkerCrashes
  <1>37. CASE Over
    BY <1>37 DEF Over, vars
  <1>38. CASE UNCHANGED vars
    BY <1>38 DEF vars
  <1>39. QED
    BY <1>1, <1>2, <1>3, <1>4, <1>5, <1>6, <1>7, <1>8, <1>9, <1>10, <1>11, <1>12, <1>13, <1>14, <1>15, <1>16, <1>17, <1>18, <1>19, <1>20, <1>21, <1>22, <1>23, <1>24, <1>25, <1>26, <1>27, <1>28, <1>29, <1>30, <1>31, <1>32, <1>33, <1>34, <1>35, <1>36, <1>37, <1>38 DEF Next, ThreadNext, Continue, WorkerNext, WorkerReading, EngineDone

\* Every step keeps __init__, the working life and the exit of the bridge apart.
LEMMA PhaseInvStep == SafetyInv /\ [Next]_vars => PhaseInv'
  <1> SUFFICES ASSUME SafetyInv, [Next]_vars PROVE PhaseInv'
    OBVIOUS
  <1> USE ThreadsAssumption, BoundsAssumption
      DEF SafetyInv, TypeOK, PhaseInv, LockInv,
          InExchange, PCs, CallPCs, ClosePCs, CleanupPCs
  <1>1. ASSUME NEW t \in Threads, CleanupKills(t) PROVE PhaseInv'
    BY <1>1 DEF CleanupKills, Goto
  <1>2. ASSUME NEW t \in Threads, CleanupReturns(t) PROVE PhaseInv'
    BY <1>2 DEF CleanupReturns, Goto
  <1>3. ASSUME NEW t \in Threads, CallGenerate(t) PROVE PhaseInv'
    BY <1>3 DEF CallGenerate, Goto, Finish
  <1>4. ASSUME NEW t \in Threads, Issue(t) PROVE PhaseInv'
    BY <1>4 DEF Issue, CanIssue, Goto
  <1>5. ASSUME NEW t \in Threads, NEW b \in BOOLEAN, IssueRefused(t, b) PROVE PhaseInv'
    BY <1>5 DEF IssueRefused, CanIssue, Goto, Finish
  <1>6. ASSUME NEW t \in Threads, SendHead(t) PROVE PhaseInv'
    BY <1>6 DEF SendHead, Goto
  <1>7. ASSUME NEW t \in Threads, SendRaw(t) PROVE PhaseInv'
    BY <1>7 DEF SendRaw, Goto
  <1>8. ASSUME NEW t \in Threads, Receive(t) PROVE PhaseInv'
    BY <1>8 DEF Receive, Goto
  <1>9. ASSUME NEW t \in Threads, Check(t) PROVE PhaseInv'
    BY <1>9 DEF Check, Goto, Finish
  <1>10. ASSUME NEW t \in Threads, TimeOut(t) PROVE PhaseInv'
    BY <1>10 DEF TimeOut, Abort, StartCleanup, CleanupSignals, Goto
  <1>11. ASSUME NEW t \in Threads, PeerGone(t) PROVE PhaseInv'
    BY <1>11 DEF PeerGone, Abort, StartCleanup, CleanupSignals, Goto
  <1>12. ASSUME NEW t \in Threads, Interrupt(t) PROVE PhaseInv'
    BY <1>12 DEF Interrupt, Abort, StartCleanup, CleanupSignals, Goto
  <1>13. ASSUME NEW t \in Threads, CallClose(t) PROVE PhaseInv'
    BY <1>13 DEF CallClose, Goto
  <1>14. ASSUME NEW t \in Threads, CloseAgain(t) PROVE PhaseInv'
    BY <1>14 DEF CloseAgain, Goto
  <1>15. ASSUME NEW t \in Threads, CloseLocked(t) PROVE PhaseInv'
    BY <1>15 DEF CloseLocked, Goto
  <1>16. ASSUME NEW t \in Threads, CloseSend(t) PROVE PhaseInv'
    BY <1>16 DEF CloseSend, Goto
  <1>17. ASSUME NEW t \in Threads, CloseHearsOrFails(t) PROVE PhaseInv'
    BY <1>17 DEF CloseHearsOrFails, Goto
  <1>18. ASSUME NEW t \in Threads, CloseReaped(t) PROVE PhaseInv'
    BY <1>18 DEF CloseReaped, Goto
  <1>19. ASSUME NEW t \in Threads, CloseWaitExpires(t) PROVE PhaseInv'
    BY <1>19 DEF CloseWaitExpires, StartCleanup, CleanupSignals, Goto
  <1>20. CASE BootReady
    BY <1>20 DEF BootReady, Goto
  <1>21. CASE BootFails
    BY <1>21 DEF BootFails, StartCleanup, CleanupSignals, Goto
  <1>22. CASE InterruptCleanup
    BY <1>22 DEF InterruptCleanup, Goto
  <1>23. CASE InterruptLastCleanup
    BY <1>23 DEF InterruptLastCleanup, Goto
  <1>24. CASE InterruptWait
    BY <1>24 DEF InterruptWait, Goto
  <1>25. CASE Exit
    BY <1>25 DEF Exit, CleanupSignals
  <1>26. CASE ParentDies
    BY <1>26 DEF ParentDies
  <1>27. CASE WorkerLoads
    BY <1>27 DEF WorkerLoads, Answer
  <1>28. CASE WorkerReadsHead
    BY <1>28 DEF WorkerReadsHead
  <1>29. CASE WorkerReadsClose
    BY <1>29 DEF WorkerReadsClose, Answer
  <1>30. CASE WorkerReadsRaw
    BY <1>30 DEF WorkerReadsRaw
  <1>31. CASE WorkerSeesEof
    BY <1>31 DEF WorkerSeesEof
  <1>32. CASE EngineReturns
    BY <1>32 DEF EngineReturns, Answer
  <1>33. CASE EngineRaises
    BY <1>33 DEF EngineRaises, Answer
  <1>34. CASE WorkerExits
    BY <1>34 DEF WorkerExits
  <1>35. CASE WorkerKilled
    BY <1>35 DEF WorkerKilled
  <1>36. CASE WorkerCrashes
    BY <1>36 DEF WorkerCrashes
  <1>37. CASE Over
    BY <1>37 DEF Over, vars
  <1>38. CASE UNCHANGED vars
    BY <1>38 DEF vars
  <1>39. QED
    BY <1>1, <1>2, <1>3, <1>4, <1>5, <1>6, <1>7, <1>8, <1>9, <1>10, <1>11, <1>12, <1>13, <1>14, <1>15, <1>16, <1>17, <1>18, <1>19, <1>20, <1>21, <1>22, <1>23, <1>24, <1>25, <1>26, <1>27, <1>28, <1>29, <1>30, <1>31, <1>32, <1>33, <1>34, <1>35, <1>36, <1>37, <1>38 DEF Next, ThreadNext, Continue, WorkerNext, WorkerReading, EngineDone

\* Every step keeps the socket open for the calls that use it, and _closed set
\* for the threads that have set it.
LEMMA OpenInvStep == SafetyInv /\ [Next]_vars => OpenInv'
  <1> SUFFICES ASSUME SafetyInv, [Next]_vars PROVE OpenInv'
    OBVIOUS
  <1> USE ThreadsAssumption, BoundsAssumption
      DEF SafetyInv, TypeOK, OpenInv, LockInv, PhaseInv,
          InExchange, PCs, CallPCs, ClosePCs, CleanupPCs
  <1>1. ASSUME NEW t \in Threads, CleanupKills(t) PROVE OpenInv'
    BY <1>1 DEF CleanupKills, Goto
  <1>2. ASSUME NEW t \in Threads, CleanupReturns(t) PROVE OpenInv'
    BY <1>2 DEF CleanupReturns, Goto
  <1>3. ASSUME NEW t \in Threads, CallGenerate(t) PROVE OpenInv'
    BY <1>3 DEF CallGenerate, Goto, Finish
  <1>4. ASSUME NEW t \in Threads, Issue(t) PROVE OpenInv'
    BY <1>4 DEF Issue, CanIssue, Goto
  <1>5. ASSUME NEW t \in Threads, NEW b \in BOOLEAN, IssueRefused(t, b) PROVE OpenInv'
    BY <1>5 DEF IssueRefused, CanIssue, Goto, Finish
  <1>6. ASSUME NEW t \in Threads, SendHead(t) PROVE OpenInv'
    BY <1>6 DEF SendHead, Goto
  <1>7. ASSUME NEW t \in Threads, SendRaw(t) PROVE OpenInv'
    BY <1>7 DEF SendRaw, Goto
  <1>8. ASSUME NEW t \in Threads, Receive(t) PROVE OpenInv'
    BY <1>8 DEF Receive, Goto
  <1>9. ASSUME NEW t \in Threads, Check(t) PROVE OpenInv'
    BY <1>9 DEF Check, Goto, Finish
  <1>10. ASSUME NEW t \in Threads, TimeOut(t) PROVE OpenInv'
    BY <1>10 DEF TimeOut, Abort, StartCleanup, CleanupSignals, Goto
  <1>11. ASSUME NEW t \in Threads, PeerGone(t) PROVE OpenInv'
    BY <1>11 DEF PeerGone, Abort, StartCleanup, CleanupSignals, Goto
  <1>12. ASSUME NEW t \in Threads, Interrupt(t) PROVE OpenInv'
    BY <1>12 DEF Interrupt, Abort, StartCleanup, CleanupSignals, Goto
  <1>13. ASSUME NEW t \in Threads, CallClose(t) PROVE OpenInv'
    BY <1>13 DEF CallClose, Goto
  <1>14. ASSUME NEW t \in Threads, CloseAgain(t) PROVE OpenInv'
    BY <1>14 DEF CloseAgain, Goto
  <1>15. ASSUME NEW t \in Threads, CloseLocked(t) PROVE OpenInv'
    BY <1>15 DEF CloseLocked, Goto
  <1>16. ASSUME NEW t \in Threads, CloseSend(t) PROVE OpenInv'
    BY <1>16 DEF CloseSend, Goto
  <1>17. ASSUME NEW t \in Threads, CloseHearsOrFails(t) PROVE OpenInv'
    BY <1>17 DEF CloseHearsOrFails, Goto
  <1>18. ASSUME NEW t \in Threads, CloseReaped(t) PROVE OpenInv'
    BY <1>18 DEF CloseReaped, Goto
  <1>19. ASSUME NEW t \in Threads, CloseWaitExpires(t) PROVE OpenInv'
    BY <1>19 DEF CloseWaitExpires, StartCleanup, CleanupSignals, Goto
  <1>20. CASE BootReady
    BY <1>20 DEF BootReady, Goto
  <1>21. CASE BootFails
    BY <1>21 DEF BootFails, StartCleanup, CleanupSignals, Goto
  <1>22. CASE InterruptCleanup
    BY <1>22 DEF InterruptCleanup, Goto
  <1>23. CASE InterruptLastCleanup
    BY <1>23 DEF InterruptLastCleanup, Goto
  <1>24. CASE InterruptWait
    BY <1>24 DEF InterruptWait, Goto
  <1>25. CASE Exit
    BY <1>25 DEF Exit, CleanupSignals
  <1>26. CASE ParentDies
    BY <1>26 DEF ParentDies
  <1>27. CASE WorkerLoads
    BY <1>27 DEF WorkerLoads, Answer
  <1>28. CASE WorkerReadsHead
    BY <1>28 DEF WorkerReadsHead
  <1>29. CASE WorkerReadsClose
    BY <1>29 DEF WorkerReadsClose, Answer
  <1>30. CASE WorkerReadsRaw
    BY <1>30 DEF WorkerReadsRaw
  <1>31. CASE WorkerSeesEof
    BY <1>31 DEF WorkerSeesEof
  <1>32. CASE EngineReturns
    BY <1>32 DEF EngineReturns, Answer
  <1>33. CASE EngineRaises
    BY <1>33 DEF EngineRaises, Answer
  <1>34. CASE WorkerExits
    BY <1>34 DEF WorkerExits
  <1>35. CASE WorkerKilled
    BY <1>35 DEF WorkerKilled
  <1>36. CASE WorkerCrashes
    BY <1>36 DEF WorkerCrashes
  <1>37. CASE Over
    BY <1>37 DEF Over, vars
  <1>38. CASE UNCHANGED vars
    BY <1>38 DEF vars
  <1>39. QED
    BY <1>1, <1>2, <1>3, <1>4, <1>5, <1>6, <1>7, <1>8, <1>9, <1>10, <1>11, <1>12, <1>13, <1>14, <1>15, <1>16, <1>17, <1>18, <1>19, <1>20, <1>21, <1>22, <1>23, <1>24, <1>25, <1>26, <1>27, <1>28, <1>29, <1>30, <1>31, <1>32, <1>33, <1>34, <1>35, <1>36, <1>37, <1>38 DEF Next, ThreadNext, Continue, WorkerNext, WorkerReading, EngineDone

\* No step takes a SIGKILL back.
LEMMA SignalInvStep == SafetyInv /\ [Next]_vars => SignalInv'
  <1> SUFFICES ASSUME SafetyInv, [Next]_vars PROVE SignalInv'
    OBVIOUS
  <1> USE ThreadsAssumption, BoundsAssumption
      DEF SafetyInv, TypeOK, SignalInv,
          InExchange, PCs, CallPCs, ClosePCs, CleanupPCs
  <1>1. ASSUME NEW t \in Threads, CleanupKills(t) PROVE SignalInv'
    BY <1>1 DEF CleanupKills, Goto
  <1>2. ASSUME NEW t \in Threads, CleanupReturns(t) PROVE SignalInv'
    BY <1>2 DEF CleanupReturns, Goto
  <1>3. ASSUME NEW t \in Threads, CallGenerate(t) PROVE SignalInv'
    BY <1>3 DEF CallGenerate, Goto, Finish
  <1>4. ASSUME NEW t \in Threads, Issue(t) PROVE SignalInv'
    BY <1>4 DEF Issue, CanIssue, Goto
  <1>5. ASSUME NEW t \in Threads, NEW b \in BOOLEAN, IssueRefused(t, b) PROVE SignalInv'
    BY <1>5 DEF IssueRefused, CanIssue, Goto, Finish
  <1>6. ASSUME NEW t \in Threads, SendHead(t) PROVE SignalInv'
    BY <1>6 DEF SendHead, Goto
  <1>7. ASSUME NEW t \in Threads, SendRaw(t) PROVE SignalInv'
    BY <1>7 DEF SendRaw, Goto
  <1>8. ASSUME NEW t \in Threads, Receive(t) PROVE SignalInv'
    BY <1>8 DEF Receive, Goto
  <1>9. ASSUME NEW t \in Threads, Check(t) PROVE SignalInv'
    BY <1>9 DEF Check, Goto, Finish
  <1>10. ASSUME NEW t \in Threads, TimeOut(t) PROVE SignalInv'
    BY <1>10 DEF TimeOut, Abort, StartCleanup, CleanupSignals, Goto
  <1>11. ASSUME NEW t \in Threads, PeerGone(t) PROVE SignalInv'
    BY <1>11 DEF PeerGone, Abort, StartCleanup, CleanupSignals, Goto
  <1>12. ASSUME NEW t \in Threads, Interrupt(t) PROVE SignalInv'
    BY <1>12 DEF Interrupt, Abort, StartCleanup, CleanupSignals, Goto
  <1>13. ASSUME NEW t \in Threads, CallClose(t) PROVE SignalInv'
    BY <1>13 DEF CallClose, Goto
  <1>14. ASSUME NEW t \in Threads, CloseAgain(t) PROVE SignalInv'
    BY <1>14 DEF CloseAgain, Goto
  <1>15. ASSUME NEW t \in Threads, CloseLocked(t) PROVE SignalInv'
    BY <1>15 DEF CloseLocked, Goto
  <1>16. ASSUME NEW t \in Threads, CloseSend(t) PROVE SignalInv'
    BY <1>16 DEF CloseSend, Goto
  <1>17. ASSUME NEW t \in Threads, CloseHearsOrFails(t) PROVE SignalInv'
    BY <1>17 DEF CloseHearsOrFails, Goto
  <1>18. ASSUME NEW t \in Threads, CloseReaped(t) PROVE SignalInv'
    BY <1>18 DEF CloseReaped, Goto
  <1>19. ASSUME NEW t \in Threads, CloseWaitExpires(t) PROVE SignalInv'
    BY <1>19 DEF CloseWaitExpires, StartCleanup, CleanupSignals, Goto
  <1>20. CASE BootReady
    BY <1>20 DEF BootReady, Goto
  <1>21. CASE BootFails
    BY <1>21 DEF BootFails, StartCleanup, CleanupSignals, Goto
  <1>22. CASE InterruptCleanup
    BY <1>22 DEF InterruptCleanup, Goto
  <1>23. CASE InterruptLastCleanup
    BY <1>23 DEF InterruptLastCleanup, Goto
  <1>24. CASE InterruptWait
    BY <1>24 DEF InterruptWait, Goto
  <1>25. CASE Exit
    BY <1>25 DEF Exit, CleanupSignals
  <1>26. CASE ParentDies
    BY <1>26 DEF ParentDies
  <1>27. CASE WorkerLoads
    BY <1>27 DEF WorkerLoads, Answer
  <1>28. CASE WorkerReadsHead
    BY <1>28 DEF WorkerReadsHead
  <1>29. CASE WorkerReadsClose
    BY <1>29 DEF WorkerReadsClose, Answer
  <1>30. CASE WorkerReadsRaw
    BY <1>30 DEF WorkerReadsRaw
  <1>31. CASE WorkerSeesEof
    BY <1>31 DEF WorkerSeesEof
  <1>32. CASE EngineReturns
    BY <1>32 DEF EngineReturns, Answer
  <1>33. CASE EngineRaises
    BY <1>33 DEF EngineRaises, Answer
  <1>34. CASE WorkerExits
    BY <1>34 DEF WorkerExits
  <1>35. CASE WorkerKilled
    BY <1>35 DEF WorkerKilled
  <1>36. CASE WorkerCrashes
    BY <1>36 DEF WorkerCrashes
  <1>37. CASE Over
    BY <1>37 DEF Over, vars
  <1>38. CASE UNCHANGED vars
    BY <1>38 DEF vars
  <1>39. QED
    BY <1>1, <1>2, <1>3, <1>4, <1>5, <1>6, <1>7, <1>8, <1>9, <1>10, <1>11, <1>12, <1>13, <1>14, <1>15, <1>16, <1>17, <1>18, <1>19, <1>20, <1>21, <1>22, <1>23, <1>24, <1>25, <1>26, <1>27, <1>28, <1>29, <1>30, <1>31, <1>32, <1>33, <1>34, <1>35, <1>36, <1>37, <1>38 DEF Next, ThreadNext, Continue, WorkerNext, WorkerReading, EngineDone

\* No step detaches the finalizer of a worker nobody has killed.
LEMMA FinalizerGuardsWorkerStep == SafetyInv /\ [Next]_vars => FinalizerGuardsWorker'
  <1> SUFFICES ASSUME SafetyInv, [Next]_vars PROVE FinalizerGuardsWorker'
    OBVIOUS
  <1> USE ThreadsAssumption, BoundsAssumption
      DEF SafetyInv, TypeOK, FinalizerGuardsWorker, SignalInv, PhaseInv,
          InExchange, PCs, CallPCs, ClosePCs, CleanupPCs
  <1>1. ASSUME NEW t \in Threads, CleanupKills(t) PROVE FinalizerGuardsWorker'
    BY <1>1 DEF CleanupKills, Goto
  <1>2. ASSUME NEW t \in Threads, CleanupReturns(t) PROVE FinalizerGuardsWorker'
    BY <1>2 DEF CleanupReturns, Goto
  <1>3. ASSUME NEW t \in Threads, CallGenerate(t) PROVE FinalizerGuardsWorker'
    BY <1>3 DEF CallGenerate, Goto, Finish
  <1>4. ASSUME NEW t \in Threads, Issue(t) PROVE FinalizerGuardsWorker'
    BY <1>4 DEF Issue, CanIssue, Goto
  <1>5. ASSUME NEW t \in Threads, NEW b \in BOOLEAN, IssueRefused(t, b) PROVE FinalizerGuardsWorker'
    BY <1>5 DEF IssueRefused, CanIssue, Goto, Finish
  <1>6. ASSUME NEW t \in Threads, SendHead(t) PROVE FinalizerGuardsWorker'
    BY <1>6 DEF SendHead, Goto
  <1>7. ASSUME NEW t \in Threads, SendRaw(t) PROVE FinalizerGuardsWorker'
    BY <1>7 DEF SendRaw, Goto
  <1>8. ASSUME NEW t \in Threads, Receive(t) PROVE FinalizerGuardsWorker'
    BY <1>8 DEF Receive, Goto
  <1>9. ASSUME NEW t \in Threads, Check(t) PROVE FinalizerGuardsWorker'
    BY <1>9 DEF Check, Goto, Finish
  <1>10. ASSUME NEW t \in Threads, TimeOut(t) PROVE FinalizerGuardsWorker'
    BY <1>10 DEF TimeOut, Abort, StartCleanup, CleanupSignals, Goto
  <1>11. ASSUME NEW t \in Threads, PeerGone(t) PROVE FinalizerGuardsWorker'
    BY <1>11 DEF PeerGone, Abort, StartCleanup, CleanupSignals, Goto
  <1>12. ASSUME NEW t \in Threads, Interrupt(t) PROVE FinalizerGuardsWorker'
    BY <1>12 DEF Interrupt, Abort, StartCleanup, CleanupSignals, Goto
  <1>13. ASSUME NEW t \in Threads, CallClose(t) PROVE FinalizerGuardsWorker'
    BY <1>13 DEF CallClose, Goto
  <1>14. ASSUME NEW t \in Threads, CloseAgain(t) PROVE FinalizerGuardsWorker'
    BY <1>14 DEF CloseAgain, Goto
  <1>15. ASSUME NEW t \in Threads, CloseLocked(t) PROVE FinalizerGuardsWorker'
    BY <1>15 DEF CloseLocked, Goto
  <1>16. ASSUME NEW t \in Threads, CloseSend(t) PROVE FinalizerGuardsWorker'
    BY <1>16 DEF CloseSend, Goto
  <1>17. ASSUME NEW t \in Threads, CloseHearsOrFails(t) PROVE FinalizerGuardsWorker'
    BY <1>17 DEF CloseHearsOrFails, Goto
  <1>18. ASSUME NEW t \in Threads, CloseReaped(t) PROVE FinalizerGuardsWorker'
    BY <1>18 DEF CloseReaped, Goto
  <1>19. ASSUME NEW t \in Threads, CloseWaitExpires(t) PROVE FinalizerGuardsWorker'
    BY <1>19 DEF CloseWaitExpires, StartCleanup, CleanupSignals, Goto
  <1>20. CASE BootReady
    BY <1>20 DEF BootReady, Goto
  <1>21. CASE BootFails
    BY <1>21 DEF BootFails, StartCleanup, CleanupSignals, Goto
  <1>22. CASE InterruptCleanup
    BY <1>22 DEF InterruptCleanup, Goto
  <1>23. CASE InterruptLastCleanup
    BY <1>23 DEF InterruptLastCleanup, Goto
  <1>24. CASE InterruptWait
    BY <1>24 DEF InterruptWait, Goto
  <1>25. CASE Exit
    BY <1>25 DEF Exit, CleanupSignals
  <1>26. CASE ParentDies
    BY <1>26 DEF ParentDies
  <1>27. CASE WorkerLoads
    BY <1>27 DEF WorkerLoads, Answer
  <1>28. CASE WorkerReadsHead
    BY <1>28 DEF WorkerReadsHead
  <1>29. CASE WorkerReadsClose
    BY <1>29 DEF WorkerReadsClose, Answer
  <1>30. CASE WorkerReadsRaw
    BY <1>30 DEF WorkerReadsRaw
  <1>31. CASE WorkerSeesEof
    BY <1>31 DEF WorkerSeesEof
  <1>32. CASE EngineReturns
    BY <1>32 DEF EngineReturns, Answer
  <1>33. CASE EngineRaises
    BY <1>33 DEF EngineRaises, Answer
  <1>34. CASE WorkerExits
    BY <1>34 DEF WorkerExits
  <1>35. CASE WorkerKilled
    BY <1>35 DEF WorkerKilled
  <1>36. CASE WorkerCrashes
    BY <1>36 DEF WorkerCrashes
  <1>37. CASE Over
    BY <1>37 DEF Over, vars
  <1>38. CASE UNCHANGED vars
    BY <1>38 DEF vars
  <1>39. QED
    BY <1>1, <1>2, <1>3, <1>4, <1>5, <1>6, <1>7, <1>8, <1>9, <1>10, <1>11, <1>12, <1>13, <1>14, <1>15, <1>16, <1>17, <1>18, <1>19, <1>20, <1>21, <1>22, <1>23, <1>24, <1>25, <1>26, <1>27, <1>28, <1>29, <1>30, <1>31, <1>32, <1>33, <1>34, <1>35, <1>36, <1>37, <1>38 DEF Next, ThreadNext, Continue, WorkerNext, WorkerReading, EngineDone

\* No step hands a thread the response to another thread's request.
LEMMA ReplyIsOwnStep == SafetyInv /\ [Next]_vars => ReplyIsOwn'
  <1> SUFFICES ASSUME SafetyInv, [Next]_vars PROVE ReplyIsOwn'
    OBVIOUS
  <1> USE ThreadsAssumption, BoundsAssumption
      DEF SafetyInv, TypeOK, ReplyIsOwn, StreamInv, LockInv,
          InExchange, PCs, CallPCs, ClosePCs, CleanupPCs,
          Frame, Chunk, NoReply, Request, Payload, CallStream, RequestInv, Quiet
  <1>1. ASSUME NEW t \in Threads, CleanupKills(t) PROVE ReplyIsOwn'
    BY <1>1, ShortSequences DEF CleanupKills, Goto
  <1>2. ASSUME NEW t \in Threads, CleanupReturns(t) PROVE ReplyIsOwn'
    BY <1>2, ShortSequences DEF CleanupReturns, Goto
  <1>3. ASSUME NEW t \in Threads, CallGenerate(t) PROVE ReplyIsOwn'
    BY <1>3, ShortSequences DEF CallGenerate, Goto, Finish
  <1>4. ASSUME NEW t \in Threads, Issue(t) PROVE ReplyIsOwn'
    BY <1>4, ShortSequences DEF Issue, CanIssue, Goto
  <1>5. ASSUME NEW t \in Threads, NEW b \in BOOLEAN, IssueRefused(t, b) PROVE ReplyIsOwn'
    BY <1>5, ShortSequences DEF IssueRefused, CanIssue, Goto, Finish
  <1>6. ASSUME NEW t \in Threads, SendHead(t) PROVE ReplyIsOwn'
    BY <1>6, ShortSequences DEF SendHead, Goto
  <1>7. ASSUME NEW t \in Threads, SendRaw(t) PROVE ReplyIsOwn'
    BY <1>7, ShortSequences DEF SendRaw, Goto
  <1>8. ASSUME NEW t \in Threads, Receive(t) PROVE ReplyIsOwn'
    BY <1>8, ShortSequences DEF Receive, Goto
  <1>9. ASSUME NEW t \in Threads, Check(t) PROVE ReplyIsOwn'
    BY <1>9, ShortSequences DEF Check, Goto, Finish
  <1>10. ASSUME NEW t \in Threads, TimeOut(t) PROVE ReplyIsOwn'
    BY <1>10, ShortSequences DEF TimeOut, Abort, StartCleanup, CleanupSignals, Goto
  <1>11. ASSUME NEW t \in Threads, PeerGone(t) PROVE ReplyIsOwn'
    BY <1>11, ShortSequences DEF PeerGone, Abort, StartCleanup, CleanupSignals, Goto
  <1>12. ASSUME NEW t \in Threads, Interrupt(t) PROVE ReplyIsOwn'
    BY <1>12, ShortSequences DEF Interrupt, Abort, StartCleanup, CleanupSignals, Goto
  <1>13. ASSUME NEW t \in Threads, CallClose(t) PROVE ReplyIsOwn'
    BY <1>13, ShortSequences DEF CallClose, Goto
  <1>14. ASSUME NEW t \in Threads, CloseAgain(t) PROVE ReplyIsOwn'
    BY <1>14, ShortSequences DEF CloseAgain, Goto
  <1>15. ASSUME NEW t \in Threads, CloseLocked(t) PROVE ReplyIsOwn'
    BY <1>15, ShortSequences DEF CloseLocked, Goto
  <1>16. ASSUME NEW t \in Threads, CloseSend(t) PROVE ReplyIsOwn'
    BY <1>16, ShortSequences DEF CloseSend, Goto
  <1>17. ASSUME NEW t \in Threads, CloseHearsOrFails(t) PROVE ReplyIsOwn'
    BY <1>17, ShortSequences DEF CloseHearsOrFails, Goto
  <1>18. ASSUME NEW t \in Threads, CloseReaped(t) PROVE ReplyIsOwn'
    BY <1>18, ShortSequences DEF CloseReaped, Goto
  <1>19. ASSUME NEW t \in Threads, CloseWaitExpires(t) PROVE ReplyIsOwn'
    BY <1>19, ShortSequences DEF CloseWaitExpires, StartCleanup, CleanupSignals, Goto
  <1>20. CASE BootReady
    BY <1>20, ShortSequences DEF BootReady, Goto
  <1>21. CASE BootFails
    BY <1>21, ShortSequences DEF BootFails, StartCleanup, CleanupSignals, Goto
  <1>22. CASE InterruptCleanup
    BY <1>22, ShortSequences DEF InterruptCleanup, Goto
  <1>23. CASE InterruptLastCleanup
    BY <1>23, ShortSequences DEF InterruptLastCleanup, Goto
  <1>24. CASE InterruptWait
    BY <1>24, ShortSequences DEF InterruptWait, Goto
  <1>25. CASE Exit
    BY <1>25, ShortSequences DEF Exit, CleanupSignals
  <1>26. CASE ParentDies
    BY <1>26, ShortSequences DEF ParentDies
  <1>27. CASE WorkerLoads
    BY <1>27, ShortSequences DEF WorkerLoads, Answer
  <1>28. CASE WorkerReadsHead
    BY <1>28, ShortSequences DEF WorkerReadsHead
  <1>29. CASE WorkerReadsClose
    BY <1>29, ShortSequences DEF WorkerReadsClose, Answer
  <1>30. CASE WorkerReadsRaw
    BY <1>30, ShortSequences DEF WorkerReadsRaw
  <1>31. CASE WorkerSeesEof
    BY <1>31, ShortSequences DEF WorkerSeesEof
  <1>32. CASE EngineReturns
    BY <1>32, ShortSequences DEF EngineReturns, Answer
  <1>33. CASE EngineRaises
    BY <1>33, ShortSequences DEF EngineRaises, Answer
  <1>34. CASE WorkerExits
    BY <1>34, ShortSequences DEF WorkerExits
  <1>35. CASE WorkerKilled
    BY <1>35, ShortSequences DEF WorkerKilled
  <1>36. CASE WorkerCrashes
    BY <1>36, ShortSequences DEF WorkerCrashes
  <1>37. CASE Over
    BY <1>37, ShortSequences DEF Over, vars
  <1>38. CASE UNCHANGED vars
    BY <1>38, ShortSequences DEF vars
  <1>39. QED
    BY <1>1, <1>2, <1>3, <1>4, <1>5, <1>6, <1>7, <1>8, <1>9, <1>10, <1>11, <1>12, <1>13, <1>14, <1>15, <1>16, <1>17, <1>18, <1>19, <1>20, <1>21, <1>22, <1>23, <1>24, <1>25, <1>26, <1>27, <1>28, <1>29, <1>30, <1>31, <1>32, <1>33, <1>34, <1>35, <1>36, <1>37, <1>38 DEF Next, ThreadNext, Continue, WorkerNext, WorkerReading, EngineDone

\* A payload cut short by _abort is the last thing the worker can find.
LEMMA AlignAbort ==
    ASSUME SafetyInv, NEW t \in Threads, pc[t] \in CallPCs, Abort(t)
    PROVE  AlignInv'
  <1>1. wpc' = wpc /\ wid' = wid /\ up' = up
    BY DEF Abort, StartCleanup
  <1>2. CASE UNCHANGED toWorker
    BY <1>1, <1>2 DEF SafetyInv, AlignInv, Request, Payload, Chunk
  <1>3. CASE pc[t] = "raw" /\ toWorker' = Append(toWorker, Chunk("cut", myId[t]))
    <2>1. \/ toWorker = <<Request(myId[t])>> /\ wpc \in {"recv", "dead"}
          \/ toWorker = <<>> /\ wpc = "dead"
          \/ toWorker = <<>> /\ wpc = "raw" /\ wid = myId[t]
      BY <1>3 DEF SafetyInv, StreamInv, CallStream
    <2>2. myId[t] \in 0..MaxId
      BY DEF SafetyInv, TypeOK
    <2>3. CASE toWorker = <<Request(myId[t])>> /\ wpc \in {"recv", "dead"}
      <3>1. toWorker' = <<Request(myId[t]), Chunk("cut", myId[t])>>
        BY <1>3, <2>3, ShortSequences
      <3>2. QED
        BY <1>1, <2>2, <2>3, <3>1 DEF AlignInv
    <2>4. CASE toWorker = <<>> /\ wpc = "dead"
      BY <1>1, <2>4 DEF AlignInv
    <2>5. CASE toWorker = <<>> /\ wpc = "raw" /\ wid = myId[t]
      <3>1. toWorker' = <<Chunk("cut", myId[t])>>
        BY <1>3, <2>5, ShortSequences
      <3>2. QED
        BY <1>1, <2>5, <3>1 DEF AlignInv
    <2>6. QED
      BY <2>1, <2>3, <2>4, <2>5
  <1>4. QED
    BY <1>2, <1>3 DEF Abort

\* A generate frame's JSON is only sent to a worker that waits for a frame.
LEMMA AlignSendHead ==
    ASSUME SafetyInv, NEW t \in Threads, SendHead(t)
    PROVE  AlignInv'
  <1>1. toWorker = <<>> /\ wpc \in {"recv", "dead"}
    BY DEF SafetyInv, StreamInv, CallStream, SendHead, Quiet
  <1>2. toWorker' = <<Request(myId[t])>> /\ wpc' = wpc /\ up' = up
    BY <1>1, ShortSequences DEF SendHead, Request
  <1>3. myId[t] \in 0..MaxId
    BY DEF SafetyInv, TypeOK
  <1>4. QED
    BY <1>1, <1>2, <1>3 DEF AlignInv

\* A payload follows its own JSON.
LEMMA AlignSendRaw ==
    ASSUME SafetyInv, NEW t \in Threads, SendRaw(t)
    PROVE  AlignInv'
  <1>1. wpc' = wpc /\ wid' = wid /\ toWorker' = Append(toWorker, Payload(myId[t]))
    BY DEF SendRaw, Payload
  <1>2. myId[t] \in 0..MaxId
    BY DEF SafetyInv, TypeOK
  <1>3. CASE toWorker = <<Request(myId[t])>> /\ wpc \in {"recv", "dead"}
    <2>1. toWorker' = <<Request(myId[t]), Payload(myId[t])>>
      BY <1>1, <1>3, ShortSequences
    <2>2. QED
      BY <1>1, <1>2, <1>3, <2>1 DEF AlignInv
  <1>4. CASE toWorker = <<>> /\ wpc = "dead"
    BY <1>1, <1>4 DEF AlignInv
  <1>5. CASE toWorker = <<>> /\ wpc = "raw" /\ wid = myId[t]
    <2>1. toWorker' = <<Payload(myId[t])>>
      BY <1>1, <1>5, ShortSequences
    <2>2. QED
      BY <1>1, <1>5, <2>1 DEF AlignInv
  <1>6. QED
    BY <1>3, <1>4, <1>5 DEF SafetyInv, StreamInv, CallStream, SendRaw

\* After a generate frame's JSON the worker finds that request's payload.
LEMMA AlignReadsHead ==
    ASSUME SafetyInv, WorkerReadsHead
    PROVE  AlignInv'
  <1>1. PICK i \in 0..MaxId :
          toWorker \in {<<Request(i)>>, <<Request(i), Payload(i)>>,
                        <<Request(i), Chunk("cut", i)>>}
    <2>1. toWorker # <<Chunk("close", 0)>>
      <3> SUFFICES ASSUME toWorker = <<Chunk("close", 0)>> PROVE FALSE
        OBVIOUS
      <3>1. Head(toWorker).kind = "close"
        BY ShortSequences DEF Chunk
      <3>2. QED
        BY <3>1 DEF WorkerReadsHead
    <2>2. QED
      BY <2>1 DEF SafetyInv, AlignInv, WorkerReadsHead
  <1>2. Head(toWorker) = Request(i)
    BY <1>1, ShortSequences
  <1>3. wid' = i
    BY <1>2 DEF WorkerReadsHead, Request, Chunk
  <1>4. toWorker' \in {<<>>, <<Payload(i)>>, <<Chunk("cut", i)>>}
    BY <1>1, ShortSequences DEF WorkerReadsHead
  <1>5. QED
    BY <1>3, <1>4 DEF AlignInv, WorkerReadsHead

\* After the payload the worker finds nothing.
LEMMA AlignReadsRaw ==
    ASSUME SafetyInv, WorkerReadsRaw
    PROVE  AlignInv'
  <1>1. toWorker \in {<<Payload(wid)>>, <<Chunk("cut", wid)>>}
    BY DEF SafetyInv, AlignInv, WorkerReadsRaw, PayloadComplete
  <1>2. CASE toWorker = <<Payload(wid)>>
    <2>1. Head(toWorker).kind = "raw" /\ Tail(toWorker) = <<>>
      BY <1>2, ShortSequences DEF Payload, Chunk
    <2>2. toWorker' = <<>> /\ wpc' = "gen"
      BY <2>1 DEF WorkerReadsRaw
    <2>3. QED
      BY <2>2 DEF AlignInv
  <1>3. CASE toWorker = <<Chunk("cut", wid)>>
    <2>1. Head(toWorker).kind = "cut" /\ Len(toWorker) = 1
      BY <1>3, ShortSequences DEF Chunk
    <2>2. QED
      BY <2>1 DEF WorkerReadsRaw, PayloadComplete
  <1>4. QED
    BY <1>1, <1>2, <1>3

\* A close frame is only sent to a worker that waits for a frame.
LEMMA AlignCloseSend ==
    ASSUME SafetyInv, NEW t \in Threads, CloseSend(t)
    PROVE  AlignInv'
  <1>1. toWorker = <<>> /\ wpc \in {"recv", "dead"}
    BY DEF SafetyInv, StreamInv, CallStream, CloseSend, Quiet
  <1>2. toWorker' = <<Chunk("close", 0)>> /\ wpc' = wpc
    BY <1>1, ShortSequences DEF CloseSend
  <1>3. QED
    BY <1>1, <1>2 DEF AlignInv

\* Every step keeps the worker's reader at a frame boundary.
LEMMA AlignInvStep == SafetyInv /\ [Next]_vars => AlignInv'
  <1> SUFFICES ASSUME SafetyInv, [Next]_vars PROVE AlignInv'
    OBVIOUS
  <1> USE ThreadsAssumption, BoundsAssumption
      DEF SafetyInv, TypeOK, AlignInv, StreamInv, BootStream, LockInv, PhaseInv, OpenInv,
          InExchange, PCs, CallPCs, ClosePCs, CleanupPCs,
          Frame, Chunk, NoReply, Request, Payload, RequestInv, Quiet
  <1>1. ASSUME NEW t \in Threads, CleanupKills(t) PROVE AlignInv'
    BY <1>1, ShortSequences DEF CleanupKills, Goto
  <1>2. ASSUME NEW t \in Threads, CleanupReturns(t) PROVE AlignInv'
    BY <1>2, ShortSequences DEF CleanupReturns, Goto
  <1>3. ASSUME NEW t \in Threads, CallGenerate(t) PROVE AlignInv'
    BY <1>3, ShortSequences DEF CallGenerate, Goto, Finish
  <1>4. ASSUME NEW t \in Threads, Issue(t) PROVE AlignInv'
    BY <1>4, ShortSequences DEF Issue, CanIssue, Goto
  <1>5. ASSUME NEW t \in Threads, NEW b \in BOOLEAN, IssueRefused(t, b) PROVE AlignInv'
    BY <1>5, ShortSequences DEF IssueRefused, CanIssue, Goto, Finish
  <1>6. ASSUME NEW t \in Threads, SendHead(t) PROVE AlignInv'
    BY <1>6, AlignSendHead
  <1>7. ASSUME NEW t \in Threads, SendRaw(t) PROVE AlignInv'
    BY <1>7, AlignSendRaw
  <1>8. ASSUME NEW t \in Threads, Receive(t) PROVE AlignInv'
    BY <1>8, ShortSequences DEF Receive, Goto
  <1>9. ASSUME NEW t \in Threads, Check(t) PROVE AlignInv'
    BY <1>9, ShortSequences DEF Check, Goto, Finish
  <1>10. ASSUME NEW t \in Threads, TimeOut(t) PROVE AlignInv'
    BY <1>10, AlignAbort DEF TimeOut
  <1>11. ASSUME NEW t \in Threads, PeerGone(t) PROVE AlignInv'
    BY <1>11, AlignAbort DEF PeerGone
  <1>12. ASSUME NEW t \in Threads, Interrupt(t) PROVE AlignInv'
    BY <1>12, AlignAbort DEF Interrupt
  <1>13. ASSUME NEW t \in Threads, CallClose(t) PROVE AlignInv'
    BY <1>13, ShortSequences DEF CallClose, Goto
  <1>14. ASSUME NEW t \in Threads, CloseAgain(t) PROVE AlignInv'
    BY <1>14, ShortSequences DEF CloseAgain, Goto
  <1>15. ASSUME NEW t \in Threads, CloseLocked(t) PROVE AlignInv'
    BY <1>15, ShortSequences DEF CloseLocked, Goto
  <1>16. ASSUME NEW t \in Threads, CloseSend(t) PROVE AlignInv'
    BY <1>16, AlignCloseSend
  <1>17. ASSUME NEW t \in Threads, CloseHearsOrFails(t) PROVE AlignInv'
    BY <1>17, ShortSequences DEF CloseHearsOrFails, Goto
  <1>18. ASSUME NEW t \in Threads, CloseReaped(t) PROVE AlignInv'
    BY <1>18, ShortSequences DEF CloseReaped, Goto
  <1>19. ASSUME NEW t \in Threads, CloseWaitExpires(t) PROVE AlignInv'
    BY <1>19, ShortSequences DEF CloseWaitExpires, StartCleanup, CleanupSignals, Goto
  <1>20. CASE BootReady
    BY <1>20, ShortSequences DEF BootReady, Goto
  <1>21. CASE BootFails
    BY <1>21, ShortSequences DEF BootFails, StartCleanup, CleanupSignals, Goto
  <1>22. CASE InterruptCleanup
    BY <1>22, ShortSequences DEF InterruptCleanup, Goto
  <1>23. CASE InterruptLastCleanup
    BY <1>23, ShortSequences DEF InterruptLastCleanup, Goto
  <1>24. CASE InterruptWait
    BY <1>24, ShortSequences DEF InterruptWait, Goto
  <1>25. CASE Exit
    BY <1>25, ShortSequences DEF Exit, CleanupSignals
  <1>26. CASE ParentDies
    BY <1>26, ShortSequences DEF ParentDies
  <1>27. CASE WorkerLoads
    BY <1>27, ShortSequences DEF WorkerLoads, Answer
  <1>28. CASE WorkerReadsHead
    BY <1>28, AlignReadsHead
  <1>29. CASE WorkerReadsClose
    BY <1>29, ShortSequences DEF WorkerReadsClose, Answer
  <1>30. CASE WorkerReadsRaw
    BY <1>30, AlignReadsRaw
  <1>31. CASE WorkerSeesEof
    BY <1>31, ShortSequences DEF WorkerSeesEof
  <1>32. CASE EngineReturns
    BY <1>32, ShortSequences DEF EngineReturns, Answer
  <1>33. CASE EngineRaises
    BY <1>33, ShortSequences DEF EngineRaises, Answer
  <1>34. CASE WorkerExits
    BY <1>34, ShortSequences DEF WorkerExits
  <1>35. CASE WorkerKilled
    BY <1>35, ShortSequences DEF WorkerKilled
  <1>36. CASE WorkerCrashes
    BY <1>36, ShortSequences DEF WorkerCrashes
  <1>37. CASE Over
    BY <1>37, ShortSequences DEF Over, vars
  <1>38. CASE UNCHANGED vars
    BY <1>38, ShortSequences DEF vars
  <1>39. QED
    BY <1>1, <1>2, <1>3, <1>4, <1>5, <1>6, <1>7, <1>8, <1>9, <1>10, <1>11, <1>12, <1>13, <1>14, <1>15, <1>16, <1>17, <1>18, <1>19, <1>20, <1>21, <1>22, <1>23, <1>24, <1>25, <1>26, <1>27, <1>28, <1>29, <1>30, <1>31, <1>32, <1>33, <1>34, <1>35, <1>36, <1>37, <1>38 DEF Next, ThreadNext, Continue, WorkerNext, WorkerReading, EngineDone

\* A thread inside _exchange or close() is the only one, and __init__ is over.
LEMMA HolderAlone ==
    ASSUME SafetyInv, NEW t \in Threads, InExchange(t)
    PROVE  /\ up /\ lock = t
           /\ \A u \in Threads : u # t => ~InExchange(u)
  BY ThreadsAssumption
     DEF SafetyInv, LockInv, PhaseInv, InExchange, CallPCs, ClosePCs, CleanupPCs

\* send_frame's first chunk enters a quiet socket.
LEMMA StreamSendHead ==
    ASSUME SafetyInv, NEW t \in Threads, SendHead(t)
    PROVE  StreamInv'
  <1>1. Quiet
    BY DEF SafetyInv, StreamInv, CallStream, SendHead
  <1>2. toWorker' = <<Request(myId[t])>> /\ wpc' \in {"recv", "dead"} /\ toParent' = <<>>
    BY <1>1, ShortSequences DEF SendHead, Request, Quiet
  <1>3. up /\ lock = t /\ \A u \in Threads : u # t => ~InExchange(u)
    BY HolderAlone DEF SendHead, InExchange, CallPCs
  <1>4. BootStream' /\ IdleStream'
    BY <1>3, ThreadsAssumption DEF BootStream, IdleStream, SendHead
  <1>5. CallStream(t)'
    BY <1>2 DEF CallStream, SendHead, Goto, SafetyInv, TypeOK
  <1>6. ASSUME NEW u \in Threads, u # t PROVE CallStream(u)'
    BY <1>3, <1>6 DEF CallStream, SendHead, Goto, SafetyInv, TypeOK, InExchange, CallPCs, ClosePCs
  <1>7. QED
    BY <1>4, <1>5, <1>6 DEF StreamInv

\* send_frame's second chunk completes the request on its way.
LEMMA StreamSendRaw ==
    ASSUME SafetyInv, NEW t \in Threads, SendRaw(t)
    PROVE  StreamInv'
  <1>1. /\ toParent = <<>>
        /\ \/ toWorker = <<Request(myId[t])>> /\ wpc \in {"recv", "dead"}
           \/ toWorker = <<>> /\ wpc = "dead"
           \/ toWorker = <<>> /\ wpc = "raw" /\ wid = myId[t]
    BY DEF SafetyInv, StreamInv, CallStream, SendRaw
  <1>2. /\ toWorker' = Append(toWorker, Payload(myId[t]))
        /\ wpc' = wpc /\ wid' = wid /\ toParent' = <<>> /\ myId' = myId
    BY <1>1 DEF SendRaw, Payload
  <1>3. RequestInv(myId[t])'
    <2>1. CASE toWorker = <<Request(myId[t])>> /\ wpc \in {"recv", "dead"}
      <3>1. toWorker' = <<Request(myId[t]), Payload(myId[t])>>
        BY <1>2, <2>1, ShortSequences
      <3>2. QED
        BY <1>2, <2>1, <3>1 DEF RequestInv, Request, Payload, Chunk
    <2>2. CASE toWorker = <<>> /\ (wpc = "dead" \/ (wpc = "raw" /\ wid = myId[t]))
      <3>1. toWorker' = <<Payload(myId[t])>>
        BY <1>2, <2>2, ShortSequences
      <3>2. QED
        BY <1>2, <2>2, <3>1 DEF RequestInv, Payload, Chunk
    <2>3. QED
      BY <1>1, <2>1, <2>2
  <1>4. up /\ lock = t /\ \A u \in Threads : u # t => ~InExchange(u)
    BY HolderAlone DEF SendRaw, InExchange, CallPCs
  <1>5. BootStream' /\ IdleStream'
    BY <1>4, ThreadsAssumption DEF BootStream, IdleStream, SendRaw
  <1>6. CallStream(t)'
    BY <1>3 DEF CallStream, SendRaw, Goto, SafetyInv, TypeOK
  <1>7. ASSUME NEW u \in Threads, u # t PROVE CallStream(u)'
    BY <1>4, <1>7 DEF CallStream, SendRaw, Goto, SafetyInv, TypeOK, InExchange, CallPCs, ClosePCs
  <1>8. QED
    BY <1>5, <1>6, <1>7 DEF StreamInv

\* _abort leaves nobody who would read the streams again.
LEMMA StreamAbort ==
    ASSUME SafetyInv, NEW t \in Threads, pc[t] \in CallPCs, Abort(t)
    PROVE  StreamInv'
  <1>1. up /\ lock = t /\ \A u \in Threads : u # t => ~InExchange(u)
    BY HolderAlone DEF InExchange
  <1>2. BootStream' /\ IdleStream'
    BY <1>1 DEF BootStream, IdleStream, Abort
  <1>3. ASSUME NEW u \in Threads PROVE CallStream(u)'
    BY <1>1, <1>3 DEF CallStream, Abort, StartCleanup, Goto, SafetyInv, TypeOK, InExchange, CallPCs, ClosePCs
  <1>4. QED
    BY <1>2, <1>3 DEF StreamInv

\* __init__ returns with a quiet socket.
LEMMA StreamBootReady ==
    ASSUME SafetyInv, BootReady
    PROVE  StreamInv'
  <1>1. ~up /\ parentOpen
    BY ThreadsAssumption DEF SafetyInv, PhaseInv, OpenInv, BootReady
  <1>2. toParent = <<Frame("ready", 0)>>
    <2>1. toParent \in {<<Frame("ready", 0)>>, <<Frame("misready", 0)>>, <<Frame("error", 0)>>}
      BY <1>1 DEF SafetyInv, StreamInv, BootStream, BootReady
    <2>2. Head(<<Frame("misready", 0)>>).type # "ready" /\ Head(<<Frame("error", 0)>>).type # "ready"
      BY ShortSequences DEF Frame
    <2>3. QED
      BY <2>1, <2>2 DEF BootReady
  <1>3. toParent' = <<>> /\ toWorker' = <<>> /\ wpc' \in {"recv", "dead"}
    BY <1>1, <1>2, ShortSequences DEF SafetyInv, StreamInv, BootStream, BootReady
  <1>4. BootStream' /\ IdleStream'
    BY <1>3 DEF BootStream, IdleStream, Quiet, BootReady
  <1>5. ASSUME NEW u \in Threads PROVE CallStream(u)'
    BY <1>1, <1>5, ThreadsAssumption DEF SafetyInv, TypeOK, PhaseInv, CallStream, BootReady, Goto
  <1>6. QED
    BY <1>4, <1>5 DEF StreamInv

\* The worker's first frame is ready, a misplaced ready, or an error.
LEMMA StreamLoads ==
    ASSUME SafetyInv, WorkerLoads
    PROVE  StreamInv'
  <1>1. ~up /\ toParent = <<>> /\ toWorker = <<>>
    BY DEF SafetyInv, AlignInv, StreamInv, BootStream, WorkerLoads
  <1>2. /\ toParent' \in {<<>>, <<Frame("ready", 0)>>, <<Frame("misready", 0)>>, <<Frame("error", 0)>>}
        /\ wpc' \in {"recv", "exiting"}
        /\ toParent' = <<Frame("ready", 0)>> => wpc' = "recv"
    <2>1. CASE Answer("ready", 0, "recv")
      BY <1>1, <2>1, ShortSequences DEF Answer, Frame
    <2>2. CASE Answer("misready", 0, "recv")
      BY <1>1, <2>2, ShortSequences DEF Answer, Frame
    <2>3. CASE Answer("error", 0, "exiting")
      <3>1. toParent' \in {<<>>, <<Frame("error", 0)>>} /\ wpc' = "exiting"
        BY <1>1, <2>3, ShortSequences DEF Answer
      <3>2. <<Frame("error", 0)>> # <<Frame("ready", 0)>>
        BY DEF Frame
      <3>3. QED
        BY <3>1, <3>2, ShortSequences
    <2>4. QED
      BY <2>1, <2>2, <2>3 DEF WorkerLoads
  <1>3. BootStream'
    BY <1>1, <1>2 DEF BootStream, WorkerLoads, Frame
  <1>4. IdleStream'
    BY <1>1 DEF IdleStream, WorkerLoads
  <1>5. ASSUME NEW u \in Threads PROVE CallStream(u)'
    BY <1>1, <1>5, ThreadsAssumption DEF SafetyInv, PhaseInv, CallStream, WorkerLoads
  <1>6. QED
    BY <1>3, <1>4, <1>5 DEF StreamInv

\* A busy worker means a call on its way, or a bridge that is closed.
LEMMA WorkerBusy ==
    ASSUME SafetyInv, wpc \in {"raw", "gen"}
    PROVE  /\ up
           /\ ~(~closed /\ parentOpen /\ lock = NoThread)
           /\ \A t \in Threads : pc[t] \notin {"head", "csend"}
           /\ wpc = "gen" => \A t \in Threads : pc[t] # "raw"
  BY DEF SafetyInv, StreamInv, BootStream, IdleStream, CallStream, Quiet

\* Reading the JSON moves the waiting thread's request on.
LEMMA StreamReadsHead ==
    ASSUME SafetyInv, WorkerReadsHead
    PROVE  StreamInv'
  <1>1. up /\ ~(~closed /\ parentOpen /\ lock = NoThread)
    BY DEF SafetyInv, StreamInv, BootStream, IdleStream, Quiet, WorkerReadsHead
  <1>2. BootStream' /\ IdleStream'
    BY <1>1 DEF BootStream, IdleStream, WorkerReadsHead
  <1>3. ASSUME NEW t \in Threads PROVE CallStream(t)'
    <2>1. pc[t] \notin {"head", "csend"}
      BY DEF SafetyInv, StreamInv, CallStream, Quiet, WorkerReadsHead
    <2>2. CASE pc[t] = "raw"
      <3>1. toWorker = <<Request(myId[t])>> /\ toParent = <<>>
        BY <2>2 DEF SafetyInv, StreamInv, CallStream, WorkerReadsHead
      <3>2. toWorker' = <<>> /\ wid' = myId[t] /\ wpc' = "raw"
        BY <3>1, ShortSequences DEF WorkerReadsHead, Request, Chunk
      <3>3. QED
        BY <2>2, <3>1, <3>2 DEF CallStream, WorkerReadsHead
    <2>3. CASE pc[t] = "recv"
      <3>1. toWorker = <<Request(myId[t]), Payload(myId[t])>> /\ toParent = <<>>
        <4>1. RequestInv(myId[t]) /\ wpc = "recv" /\ toWorker # <<>>
          BY <2>3 DEF SafetyInv, StreamInv, CallStream, WorkerReadsHead
        <4>2. QED
          BY <4>1 DEF RequestInv
      <3>2. toWorker' = <<Payload(myId[t])>> /\ wid' = myId[t] /\ wpc' = "raw"
        BY <3>1, ShortSequences DEF WorkerReadsHead, Request, Chunk
      <3>3. RequestInv(myId[t])'
        BY <3>1, <3>2 DEF RequestInv, WorkerReadsHead, Payload, Chunk
      <3>4. QED
        BY <2>3, <3>3 DEF CallStream, WorkerReadsHead
    <2>4. QED
      BY <2>1, <2>2, <2>3 DEF CallStream, WorkerReadsHead
  <1>4. QED
    BY <1>2, <1>3 DEF StreamInv

\* Reading the payload moves the waiting thread's request on.
LEMMA StreamReadsRaw ==
    ASSUME SafetyInv, WorkerReadsRaw
    PROVE  StreamInv'
  <1>1. wpc = "raw" /\ toWorker # <<>>
    BY DEF WorkerReadsRaw, PayloadComplete
  <1>2. BootStream' /\ IdleStream'
    BY <1>1, WorkerBusy DEF BootStream, IdleStream, WorkerReadsRaw
  <1>3. ASSUME NEW t \in Threads PROVE CallStream(t)'
    <2>1. pc[t] \notin {"head", "csend", "raw"}
      BY <1>1, WorkerBusy, ShortSequences DEF SafetyInv, StreamInv, CallStream
    <2>2. CASE pc[t] = "recv"
      <3>1. toWorker = <<Payload(myId[t])>> /\ toParent = <<>> /\ wid = myId[t]
        <4>1. RequestInv(myId[t])
          BY <2>2 DEF SafetyInv, StreamInv, CallStream
        <4>2. QED
          BY <1>1, <4>1 DEF RequestInv
      <3>2. toWorker' = <<>> /\ wid' = myId[t] /\ wpc' = "gen" /\ toParent' = <<>>
        BY <3>1, ShortSequences DEF WorkerReadsRaw, Payload, Chunk
      <3>3. RequestInv(myId[t])'
        BY <3>2 DEF RequestInv, WorkerReadsRaw
      <3>4. QED
        BY <2>2, <3>3 DEF CallStream, WorkerReadsRaw
    <2>3. QED
      BY <2>1, <2>2 DEF CallStream, WorkerReadsRaw
  <1>4. QED
    BY <1>2, <1>3 DEF StreamInv

\* The engine's result or exception becomes the one response in the socket.
LEMMA StreamEngineDone ==
    ASSUME SafetyInv, EngineDone
    PROVE  StreamInv'
  <1>1. wpc = "gen" /\ UNCHANGED <<parentVars, parentOpen, toWorker, wid>>
    BY DEF EngineDone, EngineReturns, EngineRaises
  <1>2. PICK type \in {"generation", "error"} : Answer(type, wid, "recv")
    BY DEF EngineDone, EngineReturns, EngineRaises
  <1>3. BootStream' /\ IdleStream'
    BY <1>1, WorkerBusy DEF BootStream, IdleStream
  <1>4. ASSUME NEW t \in Threads PROVE CallStream(t)'
    <2>1. pc[t] \notin {"head", "csend", "raw"}
      BY <1>1, WorkerBusy
    <2>2. CASE pc[t] = "recv"
      <3>1. toWorker = <<>> /\ toParent = <<>> /\ wid = myId[t] /\ parentOpen
        <4>1. RequestInv(myId[t]) /\ parentOpen
          BY <2>2 DEF SafetyInv, StreamInv, CallStream, OpenInv, CallPCs
        <4>2. QED
          BY <1>1, <4>1 DEF RequestInv
      <3>2. toParent' = <<Frame(type, myId[t])>> /\ wpc' = "recv" /\ toWorker' = <<>>
        BY <1>1, <1>2, <3>1, ShortSequences DEF Answer
      <3>3. RequestInv(myId[t])'
        BY <1>1, <3>2 DEF RequestInv, Frame
      <3>4. QED
        BY <1>1, <2>2, <3>3 DEF CallStream
    <2>3. QED
      BY <1>1, <2>1, <2>2 DEF CallStream
  <1>5. QED
    BY <1>3, <1>4 DEF StreamInv

\* Taking the response leaves the socket quiet before the lock is released.
LEMMA StreamReceive ==
    ASSUME SafetyInv, NEW t \in Threads, Receive(t)
    PROVE  StreamInv'
  <1>1. RequestInv(myId[t]) /\ toParent # <<>>
    BY DEF SafetyInv, StreamInv, CallStream, Receive
  <1>2. /\ toWorker = <<>> /\ wpc \in {"recv", "dead"}
        /\ toParent \in {<<Frame("generation", myId[t])>>, <<Frame("error", myId[t])>>}
    BY <1>1 DEF RequestInv
  <1>3. toWorker' = <<>> /\ toParent' = <<>> /\ wpc' \in {"recv", "dead"}
    BY <1>2, ShortSequences DEF Receive
  <1>4. up /\ lock = t /\ \A u \in Threads : u # t => ~InExchange(u)
    BY HolderAlone DEF Receive, InExchange, CallPCs
  <1>5. BootStream' /\ IdleStream'
    BY <1>3, <1>4 DEF BootStream, IdleStream, Quiet, Receive
  <1>6. ASSUME NEW u \in Threads PROVE CallStream(u)'
    BY <1>4, <1>6 DEF CallStream, Receive, Goto, SafetyInv, TypeOK, InExchange, CallPCs, ClosePCs
  <1>7. QED
    BY <1>5, <1>6 DEF StreamInv

\* Every step keeps the streams to what the lock's holder has sent and can expect.
LEMMA StreamInvStep == SafetyInv /\ [Next]_vars => StreamInv'
  <1> SUFFICES ASSUME SafetyInv, [Next]_vars PROVE StreamInv'
    OBVIOUS
  <1> USE ThreadsAssumption, BoundsAssumption
      DEF SafetyInv, TypeOK, StreamInv, BootStream, IdleStream, CallStream, LockInv, PhaseInv, OpenInv,
          InExchange, PCs, CallPCs, ClosePCs, CleanupPCs,
          Frame, Chunk, NoReply, Request, Payload, RequestInv, Quiet
  <1>1. ASSUME NEW t \in Threads, CleanupKills(t) PROVE StreamInv'
    BY <1>1, ShortSequences DEF CleanupKills, Goto
  <1>2. ASSUME NEW t \in Threads, CleanupReturns(t) PROVE StreamInv'
    BY <1>2, ShortSequences DEF CleanupReturns, Goto
  <1>3. ASSUME NEW t \in Threads, CallGenerate(t) PROVE StreamInv'
    BY <1>3, ShortSequences DEF CallGenerate, Goto, Finish
  <1>4. ASSUME NEW t \in Threads, Issue(t) PROVE StreamInv'
    BY <1>4, ShortSequences DEF Issue, CanIssue, Goto
  <1>5. ASSUME NEW t \in Threads, NEW b \in BOOLEAN, IssueRefused(t, b) PROVE StreamInv'
    BY <1>5, ShortSequences DEF IssueRefused, CanIssue, Goto, Finish
  <1>6. ASSUME NEW t \in Threads, SendHead(t) PROVE StreamInv'
    BY <1>6, StreamSendHead
  <1>7. ASSUME NEW t \in Threads, SendRaw(t) PROVE StreamInv'
    BY <1>7, StreamSendRaw
  <1>8. ASSUME NEW t \in Threads, Receive(t) PROVE StreamInv'
    BY <1>8, StreamReceive
  <1>9. ASSUME NEW t \in Threads, Check(t) PROVE StreamInv'
    BY <1>9, ShortSequences DEF Check, Goto, Finish
  <1>10. ASSUME NEW t \in Threads, TimeOut(t) PROVE StreamInv'
    BY <1>10, StreamAbort DEF TimeOut
  <1>11. ASSUME NEW t \in Threads, PeerGone(t) PROVE StreamInv'
    BY <1>11, StreamAbort DEF PeerGone
  <1>12. ASSUME NEW t \in Threads, Interrupt(t) PROVE StreamInv'
    BY <1>12, StreamAbort DEF Interrupt
  <1>13. ASSUME NEW t \in Threads, CallClose(t) PROVE StreamInv'
    BY <1>13, ShortSequences DEF CallClose, Goto
  <1>14. ASSUME NEW t \in Threads, CloseAgain(t) PROVE StreamInv'
    BY <1>14, ShortSequences DEF CloseAgain, Goto
  <1>15. ASSUME NEW t \in Threads, CloseLocked(t) PROVE StreamInv'
    BY <1>15, ShortSequences DEF CloseLocked, Goto
  <1>16. ASSUME NEW t \in Threads, CloseSend(t) PROVE StreamInv'
    BY <1>16, ShortSequences DEF CloseSend, Goto
  <1>17. ASSUME NEW t \in Threads, CloseHearsOrFails(t) PROVE StreamInv'
    BY <1>17, ShortSequences DEF CloseHearsOrFails, Goto
  <1>18. ASSUME NEW t \in Threads, CloseReaped(t) PROVE StreamInv'
    BY <1>18, ShortSequences DEF CloseReaped, Goto
  <1>19. ASSUME NEW t \in Threads, CloseWaitExpires(t) PROVE StreamInv'
    BY <1>19, ShortSequences DEF CloseWaitExpires, StartCleanup, CleanupSignals, Goto
  <1>20. CASE BootReady
    BY <1>20, StreamBootReady
  <1>21. CASE BootFails
    BY <1>21, ShortSequences DEF BootFails, StartCleanup, CleanupSignals, Goto
  <1>22. CASE InterruptCleanup
    BY <1>22, ShortSequences DEF InterruptCleanup, Goto
  <1>23. CASE InterruptLastCleanup
    BY <1>23, ShortSequences DEF InterruptLastCleanup, Goto
  <1>24. CASE InterruptWait
    BY <1>24, ShortSequences DEF InterruptWait, Goto
  <1>25. CASE Exit
    BY <1>25, ShortSequences DEF Exit, CleanupSignals
  <1>26. CASE ParentDies
    BY <1>26, ShortSequences DEF ParentDies
  <1>27. CASE WorkerLoads
    BY <1>27, StreamLoads
  <1>28. CASE WorkerReadsHead
    BY <1>28, StreamReadsHead
  <1>29. CASE WorkerReadsClose
    BY <1>29, ShortSequences DEF WorkerReadsClose, Answer
  <1>30. CASE WorkerReadsRaw
    BY <1>30, StreamReadsRaw
  <1>31. CASE WorkerSeesEof
    BY <1>31, ShortSequences DEF WorkerSeesEof
  <1>32. CASE EngineReturns
    BY <1>32, StreamEngineDone DEF EngineDone
  <1>33. CASE EngineRaises
    BY <1>33, StreamEngineDone DEF EngineDone
  <1>34. CASE WorkerExits
    BY <1>34, ShortSequences DEF WorkerExits
  <1>35. CASE WorkerKilled
    BY <1>35, ShortSequences DEF WorkerKilled
  <1>36. CASE WorkerCrashes
    BY <1>36, ShortSequences DEF WorkerCrashes
  <1>37. CASE Over
    BY <1>37, ShortSequences DEF Over, vars
  <1>38. CASE UNCHANGED vars
    BY <1>38, ShortSequences DEF vars
  <1>39. QED
    BY <1>1, <1>2, <1>3, <1>4, <1>5, <1>6, <1>7, <1>8, <1>9, <1>10, <1>11, <1>12, <1>13, <1>14, <1>15, <1>16, <1>17, <1>18, <1>19, <1>20, <1>21, <1>22, <1>23, <1>24, <1>25, <1>26, <1>27, <1>28, <1>29, <1>30, <1>31, <1>32, <1>33, <1>34, <1>35, <1>36, <1>37, <1>38 DEF Next, ThreadNext, Continue, WorkerNext, WorkerReading, EngineDone

\* The bridge starts in a state that satisfies the inductive invariant.
LEMMA SafetyInit == Init => SafetyInv
  <1> SUFFICES ASSUME Init PROVE SafetyInv
    OBVIOUS
  <1> USE ThreadsAssumption, BoundsAssumption DEF Init
  <1>1. TypeOK
    <2>1. NoReply \in Frames
      BY DEF Frames, Frame, NoReply
    <2>2. /\ toWorker \in Seq(Chunks) /\ toParent \in Seq(Frames)
          /\ served \in Seq(0..MaxId)
      OBVIOUS
    <2>3. pc \in [Threads -> PCs]
      BY DEF PCs
    <2>4. /\ why \in [Threads -> {"boot", "abort", "close", "exit"}]
          /\ outcome \in [Threads -> {"none", "ok", "remote", "protocol", "aborted",
                                      "refused"}]
          /\ myId \in [Threads -> 0..MaxId]
          /\ nextRequestId \in 1..(MaxId + 1) /\ wid \in 0..MaxId
      OBVIOUS
    <2>5. reply \in [Threads -> Frames]
      BY <2>1
    <2>6. QED
      BY <2>2, <2>3, <2>4, <2>5 DEF TypeOK
  <1>2. LockInv /\ PhaseInv /\ OpenInv /\ SignalInv
    BY DEF LockInv, PhaseInv, OpenInv, SignalInv, InExchange, CallPCs, ClosePCs, CleanupPCs
  <1>3. StreamInv /\ AlignInv
    BY DEF StreamInv, BootStream, IdleStream, CallStream, AlignInv
  <1>4. ReplyIsOwn /\ FinalizerGuardsWorker
    BY DEF ReplyIsOwn, FinalizerGuardsWorker
  <1>5. QED
    BY <1>1, <1>2, <1>3, <1>4 DEF SafetyInv

\* The bridge's state always has its declared type.
THEOREM BridgeTypeCorrect == Spec => []TypeOK
  <1>1. Init => TypeOK
    BY SafetyInit DEF SafetyInv
  <1>2. QED
    BY <1>1, TypeInvariant, PTL DEF Spec

\* The conjuncts of the inductive invariant are preserved together.
LEMMA SafetyInvStep == SafetyInv /\ [Next]_vars => SafetyInv'
  <1> SUFFICES ASSUME SafetyInv, [Next]_vars PROVE SafetyInv'
    OBVIOUS
  <1>1. TypeOK'
    BY TypeInvariant DEF SafetyInv
  <1>2. LockInv' /\ PhaseInv' /\ OpenInv' /\ SignalInv'
    BY LockInvStep, PhaseInvStep, OpenInvStep, SignalInvStep
  <1>3. StreamInv' /\ AlignInv'
    BY StreamInvStep, AlignInvStep
  <1>4. ReplyIsOwn' /\ FinalizerGuardsWorker'
    BY ReplyIsOwnStep, FinalizerGuardsWorkerStep
  <1>5. QED
    BY <1>1, <1>2, <1>3, <1>4 DEF SafetyInv

\* The inductive invariant of the bridge holds in every reachable state.
THEOREM BridgeSafety == Spec => []SafetyInv
  BY SafetyInit, SafetyInvStep, PTL DEF Spec

\* A thread is only ever handed the response to its own request: the request-id
\* comparison at the end of generate_raw never rejects a worker's answer.
THEOREM BridgeReplyIsOwn == Spec => []ReplyIsOwn
  <1>1. SafetyInv => ReplyIsOwn
    BY DEF SafetyInv
  <1>2. QED
    BY <1>1, BridgeSafety, PTL

\* Whatever is sent, given up, closed or interrupted, the worker reads at frame
\* boundaries and never completes a cut payload with other bytes.
THEOREM BridgeWorkerAligned == Spec => []WorkerAligned
  <1>1. SafetyInv => WorkerAligned
    <2> SUFFICES ASSUME SafetyInv, toWorker # <<>>
                 PROVE  /\ wpc = "recv" => Head(toWorker).kind \in {"generate", "close"}
                        /\ wpc = "raw" =>
                             /\ Head(toWorker).kind \in {"raw", "cut"}
                             /\ Head(toWorker).id = wid
                             /\ Head(toWorker).kind = "cut" => Len(toWorker) = 1
      BY DEF WorkerAligned
    <2>1. ASSUME wpc = "recv" PROVE Head(toWorker).kind \in {"generate", "close"}
      <3>1. CASE toWorker = <<Chunk("close", 0)>>
        BY <3>1, ShortSequences DEF Chunk
      <3>2. ASSUME NEW i \in 0..MaxId,
                   toWorker \in {<<Request(i)>>, <<Request(i), Payload(i)>>,
                                 <<Request(i), Chunk("cut", i)>>}
            PROVE  Head(toWorker).kind = "generate"
        <4>1. Head(toWorker) = Request(i)
          BY <3>2, ShortSequences
        <4>2. QED
          BY <4>1 DEF Request, Chunk
      <3>3. QED
        BY <2>1, <3>1, <3>2 DEF SafetyInv, AlignInv
    <2>2. ASSUME wpc = "raw"
          PROVE  /\ Head(toWorker).kind \in {"raw", "cut"}
                 /\ Head(toWorker).id = wid
                 /\ Head(toWorker).kind = "cut" => Len(toWorker) = 1
      <3>1. \/ toWorker = <<Payload(wid)>>
            \/ toWorker = <<Chunk("cut", wid)>>
        BY <2>2 DEF SafetyInv, AlignInv
      <3>2. QED
        BY <3>1, ShortSequences DEF Payload, Chunk
    <2>3. QED
      BY <2>1, <2>2
  <1>2. QED
    BY <1>1, BridgeSafety, PTL

\* The finalizer is only given up once the worker is dead or has been sent
\* SIGKILL, and an orderly end of the parent leaves no other worker behind.
THEOREM BridgeFinalizerGuardsWorker == Spec => []FinalizerGuardsWorker
  <1>1. SafetyInv => FinalizerGuardsWorker
    BY DEF SafetyInv
  <1>2. QED
    BY <1>1, BridgeSafety, PTL

\* A closed bridge sends no generate frame, whoever was queueing for its lock.
THEOREM BridgeNoSendAfterClose == Spec => NoSendAfterClose
  <1> DEFINE NoSend == closed => \A i \in DOMAIN toWorker' \ DOMAIN toWorker :
                                   toWorker'[i].kind # "generate"
  <1>1. SafetyInv /\ Next => NoSend
    <2> SUFFICES ASSUME SafetyInv, Next, closed,
                        NEW i \in DOMAIN toWorker' \ DOMAIN toWorker
                 PROVE  toWorker'[i].kind # "generate"
      OBVIOUS
    <2>1. toWorker \in Seq(Chunks)
      BY DEF SafetyInv, TypeOK
    <2>2. \A c : i \in DOMAIN Append(toWorker, c) \ DOMAIN toWorker =>
                   Append(toWorker, c)[i] = c
      BY <2>1
    <2>3. /\ toWorker # <<>> => DOMAIN Tail(toWorker) \subseteq DOMAIN toWorker
          /\ Len(toWorker) > 1 => DOMAIN Tail(Tail(toWorker)) \subseteq DOMAIN toWorker
      <3>1. \A q \in Seq(Chunks) : q # <<>> =>
              Tail(q) \in Seq(Chunks) /\ DOMAIN Tail(q) \subseteq DOMAIN q
        OBVIOUS
      <3>2. Len(toWorker) > 1 => toWorker # <<>> /\ Tail(toWorker) # <<>>
        BY <2>1, ShortTail
      <3>3. QED
        BY <2>1, <3>1, <3>2
    <2>4. \A t \in Threads : pc[t] \notin CallPCs
      BY DEF SafetyInv, OpenInv
    <2>5. \/ toWorker' = toWorker
          \/ toWorker' = Append(toWorker, Chunk("close", 0))
          \/ toWorker # <<>> /\ toWorker' = Tail(toWorker)
          \/ Len(toWorker) > 1 /\ toWorker' = Tail(Tail(toWorker))
      <3>1. ASSUME NEW t \in Threads, ThreadNext(t)
            PROVE  \/ toWorker' = toWorker
                   \/ toWorker' = Append(toWorker, Chunk("close", 0))
        BY <2>4, <3>1
           DEF ThreadNext, Continue, Issue, IssueRefused, SendHead, SendRaw, Receive,
               Check, TimeOut, PeerGone, Interrupt, CloseAgain, CloseLocked, CloseSend,
               CloseHearsOrFails, CloseReaped, CloseWaitExpires, CleanupKills,
               CleanupReturns, CallGenerate, CallClose, CallPCs
      <3>2. CASE WorkerNext
        BY <3>2
           DEF WorkerNext, WorkerReading, EngineDone, WorkerLoads, WorkerReadsHead,
               WorkerReadsClose, WorkerReadsRaw, WorkerSeesEof, EngineReturns,
               EngineRaises, WorkerExits, WorkerCrashes, PayloadComplete
      <3>3. CASE BootReady \/ BootFails \/ InterruptCleanup \/ InterruptLastCleanup
                 \/ InterruptWait \/ Exit \/ ParentDies \/ WorkerKilled \/ Over
        BY <3>3
           DEF BootReady, BootFails, InterruptCleanup, InterruptLastCleanup,
               InterruptWait, Exit, ParentDies, WorkerKilled, Over, vars
      <3>4. QED
        BY <3>1, <3>2, <3>3 DEF Next
    <2>6. CASE toWorker' = Append(toWorker, Chunk("close", 0))
      <3>1. toWorker'[i] = Chunk("close", 0)
        BY <2>2, <2>6
      <3>2. QED
        BY <3>1 DEF Chunk
    <2>7. QED
      BY <2>3, <2>5, <2>6
  <1>2. QED
    BY <1>1, BridgeSafety, PTL DEF Spec, NoSendAfterClose

-----------------------------------------------------------------------------
(* The bridge implements GenerationService.                                  *)

\* A thread has a request id exactly while its call is on its way.
LEMMA TicketInvStep == TypeOK /\ TicketInv /\ [Next]_vars => TicketInv'
  <1> SUFFICES ASSUME TypeOK, TicketInv, [Next]_vars PROVE TicketInv'
    OBVIOUS
  <1> USE ThreadsAssumption, BoundsAssumption
      DEF TypeOK, TicketInv, Issued, PCs, CallPCs, ClosePCs, CleanupPCs
  <1>1. ASSUME NEW t \in Threads, CleanupKills(t) PROVE TicketInv'
    BY <1>1 DEF CleanupKills, Goto
  <1>2. ASSUME NEW t \in Threads, CleanupReturns(t) PROVE TicketInv'
    BY <1>2 DEF CleanupReturns, Goto
  <1>3. ASSUME NEW t \in Threads, CallGenerate(t) PROVE TicketInv'
    BY <1>3 DEF CallGenerate, Finish, Goto
  <1>4. ASSUME NEW t \in Threads, Issue(t) PROVE TicketInv'
    BY <1>4 DEF Issue, CanIssue, Goto
  <1>5. ASSUME NEW t \in Threads, NEW b \in BOOLEAN, IssueRefused(t, b) PROVE TicketInv'
    BY <1>5 DEF IssueRefused, CanIssue, Finish, Goto
  <1>6. ASSUME NEW t \in Threads, SendHead(t) PROVE TicketInv'
    BY <1>6 DEF SendHead, Goto
  <1>7. ASSUME NEW t \in Threads, SendRaw(t) PROVE TicketInv'
    BY <1>7 DEF SendRaw, Goto
  <1>8. ASSUME NEW t \in Threads, Receive(t) PROVE TicketInv'
    BY <1>8 DEF Receive, Goto
  <1>9. ASSUME NEW t \in Threads, Check(t) PROVE TicketInv'
    BY <1>9 DEF Check, Finish, Goto
  <1>10. ASSUME NEW t \in Threads, TimeOut(t) PROVE TicketInv'
    BY <1>10 DEF TimeOut, Abort, StartCleanup, CleanupSignals, Goto
  <1>11. ASSUME NEW t \in Threads, PeerGone(t) PROVE TicketInv'
    BY <1>11 DEF PeerGone, Abort, StartCleanup, CleanupSignals, Goto
  <1>12. ASSUME NEW t \in Threads, Interrupt(t) PROVE TicketInv'
    BY <1>12 DEF Interrupt, Abort, StartCleanup, CleanupSignals, Goto
  <1>13. ASSUME NEW t \in Threads, CallClose(t) PROVE TicketInv'
    BY <1>13 DEF CallClose, Goto
  <1>14. ASSUME NEW t \in Threads, CloseAgain(t) PROVE TicketInv'
    BY <1>14 DEF CloseAgain, Goto
  <1>15. ASSUME NEW t \in Threads, CloseLocked(t) PROVE TicketInv'
    BY <1>15 DEF CloseLocked, Goto
  <1>16. ASSUME NEW t \in Threads, CloseSend(t) PROVE TicketInv'
    BY <1>16 DEF CloseSend, Goto
  <1>17. ASSUME NEW t \in Threads, CloseHearsOrFails(t) PROVE TicketInv'
    BY <1>17 DEF CloseHearsOrFails, Goto
  <1>18. ASSUME NEW t \in Threads, CloseReaped(t) PROVE TicketInv'
    BY <1>18 DEF CloseReaped, Goto
  <1>19. ASSUME NEW t \in Threads, CloseWaitExpires(t) PROVE TicketInv'
    BY <1>19 DEF CloseWaitExpires, StartCleanup, CleanupSignals, Goto
  <1>20. CASE BootReady
    BY <1>20 DEF BootReady, Goto
  <1>21. CASE BootFails
    BY <1>21 DEF BootFails, StartCleanup, CleanupSignals, Goto
  <1>22. CASE InterruptCleanup
    BY <1>22 DEF InterruptCleanup, Goto
  <1>23. CASE InterruptLastCleanup
    BY <1>23 DEF InterruptLastCleanup, Goto
  <1>24. CASE InterruptWait
    BY <1>24 DEF InterruptWait, Goto
  <1>25. CASE Exit
    BY <1>25 DEF Exit, CleanupSignals
  <1>26. CASE ParentDies
    BY <1>26 DEF ParentDies
  <1>27. CASE WorkerLoads
    BY <1>27 DEF WorkerLoads, Answer
  <1>28. CASE WorkerReadsHead
    BY <1>28 DEF WorkerReadsHead
  <1>29. CASE WorkerReadsClose
    BY <1>29 DEF WorkerReadsClose, Answer
  <1>30. CASE WorkerReadsRaw
    BY <1>30 DEF WorkerReadsRaw
  <1>31. CASE WorkerSeesEof
    BY <1>31 DEF WorkerSeesEof
  <1>32. CASE EngineReturns
    BY <1>32 DEF EngineReturns, Answer
  <1>33. CASE EngineRaises
    BY <1>33 DEF EngineRaises, Answer
  <1>34. CASE WorkerExits
    BY <1>34 DEF WorkerExits
  <1>35. CASE WorkerKilled
    BY <1>35 DEF WorkerKilled
  <1>36. CASE WorkerCrashes
    BY <1>36 DEF WorkerCrashes
  <1>37. CASE Over
    BY <1>37 DEF Over, vars
  <1>38. CASE UNCHANGED vars
    BY <1>38 DEF vars
  <1>39. QED
    BY <1>1, <1>2, <1>3, <1>4, <1>5, <1>6, <1>7, <1>8, <1>9, <1>10, <1>11, <1>12, <1>13, <1>14, <1>15, <1>16, <1>17, <1>18, <1>19, <1>20, <1>21, <1>22, <1>23, <1>24, <1>25, <1>26, <1>27, <1>28, <1>29, <1>30, <1>31, <1>32, <1>33, <1>34, <1>35, <1>36, <1>37, <1>38 DEF Next, ThreadNext, Continue, WorkerNext, WorkerReading, EngineDone

\* The first element of a sequence is not changed by appending to it.
LEMMA HeadOfAppend ==
    ASSUME NEW S, NEW s \in Seq(S), NEW e \in S
    PROVE  Head(Append(s, e)) = IF s = <<>> THEN e ELSE Head(s)
  <1>1. CASE s = <<>>
    BY <1>1, ShortSequences
  <1>2. CASE s # <<>>
    BY <1>2
  <1>3. QED
    BY <1>1, <1>2

\* Sending a frame of an answered request, or one that is no generation, keeps
\* the frames in the socket answered.
LEMMA AnswerKeepsAnswers ==
    ASSUME TypeOK, AnswersInv, Answered \subseteq Answered',
           NEW type, NEW id, NEW next, Answer(type, id, next),
           type = "generation" => id \in Answered'
    PROVE  AnswersInv'
  <1>1. CASE toParent' = toParent
    BY <1>1 DEF AnswersInv
  <1>2. CASE toParent' = Append(toParent, Frame(type, id))
    <2>1. SUFFICES ASSUME NEW k \in DOMAIN toParent', toParent'[k].type = "generation"
                   PROVE  toParent'[k].id \in Answered'
      BY DEF AnswersInv
    <2>2. \/ k \in DOMAIN toParent /\ toParent'[k] = toParent[k]
          \/ toParent'[k] = Frame(type, id)
      BY <1>2 DEF TypeOK
    <2>3. QED
      BY <2>1, <2>2 DEF AnswersInv, Frame
  <1>3. QED
    BY <1>1, <1>2 DEF Answer

\* So does taking the first frame from it.
LEMMA TailKeepsAnswers ==
    ASSUME TypeOK, AnswersInv, Answered' = Answered, toParent # <<>>,
           toParent' = Tail(toParent)
    PROVE  AnswersInv'
  <1>1. SUFFICES ASSUME NEW k \in DOMAIN toParent', toParent'[k].type = "generation"
                 PROVE  toParent'[k].id \in Answered'
    BY DEF AnswersInv
  <1>2. k + 1 \in DOMAIN toParent /\ toParent'[k] = toParent[k + 1]
    BY DEF TypeOK
  <1>3. QED
    BY <1>1, <1>2 DEF AnswersInv

\* The engine answers one request at a time.
LEMMA AnsweredGrows ==
    ASSUME TypeOK, EngineReturns
    PROVE  Answered' = Answered \cup {wid}
  <1>1. /\ DOMAIN served' = DOMAIN served \cup {Len(served) + 1}
        /\ served'[Len(served) + 1] = wid
        /\ \A k \in DOMAIN served : served'[k] = served[k]
    BY DEF EngineReturns, TypeOK
  <1>2. QED
    BY <1>1 DEF Answered

\* Every generation frame is sent when its request has been answered.
LEMMA AnswersInvStep == TypeOK /\ AnswersInv /\ [Next]_vars => AnswersInv'
  <1> SUFFICES ASSUME TypeOK, AnswersInv, [Next]_vars PROVE AnswersInv'
    OBVIOUS
  <1>a. served' = served => Answered' = Answered
    BY DEF Answered
  <1>s. toParent' = toParent /\ Answered' = Answered => AnswersInv'
    BY DEF AnswersInv
  <1>1. ASSUME NEW t \in Threads, CleanupKills(t) PROVE AnswersInv'
    BY <1>s, <1>a, <1>1 DEF CleanupKills, Goto
  <1>2. ASSUME NEW t \in Threads, CleanupReturns(t) PROVE AnswersInv'
    BY <1>s, <1>a, <1>2 DEF CleanupReturns, Goto
  <1>3. ASSUME NEW t \in Threads, CallGenerate(t) PROVE AnswersInv'
    BY <1>s, <1>a, <1>3 DEF CallGenerate, Finish, Goto
  <1>4. ASSUME NEW t \in Threads, Issue(t) PROVE AnswersInv'
    BY <1>s, <1>a, <1>4 DEF Issue, CanIssue, Goto
  <1>5. ASSUME NEW t \in Threads, NEW b \in BOOLEAN, IssueRefused(t, b) PROVE AnswersInv'
    BY <1>s, <1>a, <1>5 DEF IssueRefused, CanIssue, Finish, Goto
  <1>6. ASSUME NEW t \in Threads, SendHead(t) PROVE AnswersInv'
    BY <1>s, <1>a, <1>6 DEF SendHead, Goto
  <1>7. ASSUME NEW t \in Threads, SendRaw(t) PROVE AnswersInv'
    BY <1>s, <1>a, <1>7 DEF SendRaw, Goto
  <1>8. ASSUME NEW t \in Threads, Receive(t) PROVE AnswersInv'
    <2>1. toParent # <<>> /\ toParent' = Tail(toParent) /\ served' = served
      BY <1>8 DEF Receive
    <2>2. QED
      BY <1>a, <2>1, TailKeepsAnswers
  <1>9. ASSUME NEW t \in Threads, Check(t) PROVE AnswersInv'
    BY <1>s, <1>a, <1>9 DEF Check, Finish, Goto
  <1>10. ASSUME NEW t \in Threads, TimeOut(t) PROVE AnswersInv'
    BY <1>s, <1>a, <1>10 DEF TimeOut, Abort, StartCleanup, CleanupSignals, Goto
  <1>11. ASSUME NEW t \in Threads, PeerGone(t) PROVE AnswersInv'
    BY <1>s, <1>a, <1>11 DEF PeerGone, Abort, StartCleanup, CleanupSignals, Goto
  <1>12. ASSUME NEW t \in Threads, Interrupt(t) PROVE AnswersInv'
    BY <1>s, <1>a, <1>12 DEF Interrupt, Abort, StartCleanup, CleanupSignals, Goto
  <1>13. ASSUME NEW t \in Threads, CallClose(t) PROVE AnswersInv'
    BY <1>s, <1>a, <1>13 DEF CallClose, Goto
  <1>14. ASSUME NEW t \in Threads, CloseAgain(t) PROVE AnswersInv'
    BY <1>s, <1>a, <1>14 DEF CloseAgain, Goto
  <1>15. ASSUME NEW t \in Threads, CloseLocked(t) PROVE AnswersInv'
    BY <1>s, <1>a, <1>15 DEF CloseLocked, Goto
  <1>16. ASSUME NEW t \in Threads, CloseSend(t) PROVE AnswersInv'
    BY <1>s, <1>a, <1>16 DEF CloseSend, Goto
  <1>17. ASSUME NEW t \in Threads, CloseHearsOrFails(t) PROVE AnswersInv'
    <2>1. CASE toParent = <<>>
      BY <1>17, <1>s, <1>a, <2>1 DEF CloseHearsOrFails
    <2>2. CASE toParent # <<>>
      <3>1. toParent' = Tail(toParent) /\ served' = served
        BY <1>17, <2>2 DEF CloseHearsOrFails
      <3>2. QED
        BY <1>a, <2>2, <3>1, TailKeepsAnswers
    <2>3. QED
      BY <2>1, <2>2
  <1>18. ASSUME NEW t \in Threads, CloseReaped(t) PROVE AnswersInv'
    BY <1>s, <1>a, <1>18 DEF CloseReaped, Goto
  <1>19. ASSUME NEW t \in Threads, CloseWaitExpires(t) PROVE AnswersInv'
    BY <1>s, <1>a, <1>19 DEF CloseWaitExpires, StartCleanup, CleanupSignals, Goto
  <1>20. CASE BootReady
    <2>1. toParent # <<>> /\ toParent' = Tail(toParent) /\ served' = served
      BY <1>20 DEF BootReady
    <2>2. QED
      BY <1>a, <2>1, TailKeepsAnswers
  <1>21. CASE BootFails
    BY <1>s, <1>a, <1>21 DEF BootFails, StartCleanup, CleanupSignals, Goto
  <1>22. CASE InterruptCleanup
    BY <1>s, <1>a, <1>22 DEF InterruptCleanup, Goto
  <1>23. CASE InterruptLastCleanup
    BY <1>s, <1>a, <1>23 DEF InterruptLastCleanup, Goto
  <1>24. CASE InterruptWait
    BY <1>s, <1>a, <1>24 DEF InterruptWait, Goto
  <1>25. CASE Exit
    BY <1>s, <1>a, <1>25 DEF Exit, CleanupSignals
  <1>26. CASE ParentDies
    BY <1>s, <1>a, <1>26 DEF ParentDies
  <1>27. CASE WorkerLoads
    <2>1. served' = served
      BY <1>27 DEF WorkerLoads
    <2>2. \E ty \in {"ready", "misready", "error"}, n \in {"recv", "exiting"} : Answer(ty, 0, n)
      BY <1>27 DEF WorkerLoads
    <2>3. QED
      BY <1>a, <2>1, <2>2, AnswerKeepsAnswers
  <1>28. CASE WorkerReadsHead
    BY <1>s, <1>a, <1>28 DEF WorkerReadsHead
  <1>29. CASE WorkerReadsClose
    <2>1. served' = served
      BY <1>29 DEF WorkerReadsClose
    <2>2. Answer("closed", 0, "exiting") \/ toParent' = toParent
      BY <1>29 DEF WorkerReadsClose
    <2>3. QED
      BY <1>s, <1>a, <2>1, <2>2, AnswerKeepsAnswers
  <1>30. CASE WorkerReadsRaw
    BY <1>s, <1>a, <1>30 DEF WorkerReadsRaw
  <1>31. CASE WorkerSeesEof
    BY <1>s, <1>a, <1>31 DEF WorkerSeesEof
  <1>32. CASE EngineReturns
    <2>1. Answer("generation", wid, "recv")
      BY <1>32 DEF EngineReturns
    <2>2. QED
      BY <1>32, <2>1, AnsweredGrows, AnswerKeepsAnswers
  <1>33. CASE EngineRaises
    <2>1. Answer("error", wid, "recv") /\ served' = served
      BY <1>33 DEF EngineRaises
    <2>2. QED
      BY <1>a, <2>1, AnswerKeepsAnswers
  <1>34. CASE WorkerExits
    BY <1>s, <1>a, <1>34 DEF WorkerExits
  <1>35. CASE WorkerKilled
    BY <1>s, <1>a, <1>35 DEF WorkerKilled
  <1>36. CASE WorkerCrashes
    BY <1>s, <1>a, <1>36 DEF WorkerCrashes
  <1>37. CASE Over
    BY <1>s, <1>a, <1>37 DEF Over, vars
  <1>38. CASE UNCHANGED vars
    BY <1>s, <1>a, <1>38 DEF vars
  <1>39. QED
    BY <1>1, <1>2, <1>3, <1>4, <1>5, <1>6, <1>7, <1>8, <1>9, <1>10, <1>11, <1>12, <1>13, <1>14, <1>15, <1>16, <1>17, <1>18, <1>19, <1>20, <1>21, <1>22, <1>23, <1>24, <1>25, <1>26, <1>27, <1>28, <1>29, <1>30, <1>31, <1>32, <1>33, <1>34, <1>35, <1>36, <1>37, <1>38 DEF Next, ThreadNext, Continue, WorkerNext, WorkerReading, EngineDone

\* A call that is given up leaves at most a cut chunk behind.
LEMMA AbortKeepsFresh ==
    ASSUME TypeOK, FreshInv, NEW t \in Threads, Abort(t)
    PROVE  FreshInv'
  <1>1. Chunk("cut", myId[t]) \in Chunks
    BY DEF Chunk, Chunks, TypeOK
  <1>2. \/ toWorker' = toWorker
        \/ Head(toWorker') = IF toWorker = <<>> THEN Chunk("cut", myId[t]) ELSE Head(toWorker)
    <2>1. Head(Append(toWorker, Chunk("cut", myId[t])))
            = IF toWorker = <<>> THEN Chunk("cut", myId[t]) ELSE Head(toWorker)
      BY <1>1, HeadOfAppend DEF TypeOK
    <2>2. QED
      BY <2>1 DEF Abort
  <1>3. Answered' = Answered
    BY DEF Answered, Abort, StartCleanup
  <1>4. QED
    BY <1>2, <1>3
       DEF TypeOK, FreshInv, Pending, Issued, Abort, StartCleanup, CleanupSignals, Goto, Chunk

\* No step gives the engine a request it has answered before.
LEMMA FreshInvStep == SafetyInv /\ TicketInv /\ FreshInv /\ [Next]_vars => FreshInv'
  <1> SUFFICES ASSUME SafetyInv, TicketInv, FreshInv, [Next]_vars PROVE FreshInv'
    OBVIOUS
  <1>a. served' = served => Answered' = Answered
    BY DEF Answered
  <1> USE ThreadsAssumption, BoundsAssumption
      DEF SafetyInv, TypeOK, TicketInv, FreshInv, Pending, Issued, PCs, CallPCs, ClosePCs, CleanupPCs
  <1>1. ASSUME NEW t \in Threads, CleanupKills(t) PROVE FreshInv'
    BY <1>a, <1>1 DEF CleanupKills, Goto
  <1>2. ASSUME NEW t \in Threads, CleanupReturns(t) PROVE FreshInv'
    BY <1>a, <1>2 DEF CleanupReturns, Goto
  <1>3. ASSUME NEW t \in Threads, CallGenerate(t) PROVE FreshInv'
    BY <1>a, <1>3 DEF CallGenerate, Finish, Goto
  <1>4. ASSUME NEW t \in Threads, Issue(t) PROVE FreshInv'
    <2>1. Issued \subseteq Issued' /\ Answered' = Answered /\ nextRequestId \notin Issued
      BY <1>a, <1>4 DEF Issue, CanIssue
    <2>2. UNCHANGED <<toWorker, wpc, wid>>
      BY <1>4 DEF Issue
    <2>3. \A u \in Threads : pc'[u] = "head" => myId'[u] \notin Answered
      BY <1>4, <2>1 DEF Issue, CanIssue, Goto
    <2>4. QED
      BY <2>1, <2>2, <2>3
  <1>5. ASSUME NEW t \in Threads, NEW b \in BOOLEAN, IssueRefused(t, b) PROVE FreshInv'
    <2>1. Issued \subseteq Issued' /\ Answered' = Answered
      BY <1>a, <1>5 DEF IssueRefused, CanIssue
    <2>2. UNCHANGED <<toWorker, wpc, wid>>
      BY <1>5 DEF IssueRefused
    <2>3. \A u \in Threads : pc'[u] = "head" => myId'[u] \notin Answered
      BY <1>5, <2>1 DEF IssueRefused, CanIssue, Goto
    <2>4. QED
      BY <2>1, <2>2, <2>3
  <1>6. ASSUME NEW t \in Threads, SendHead(t) PROVE FreshInv'
    <2>1. myId[t] \in Pending /\ served' = served
      BY <1>6 DEF SendHead, Pending
    <2>2. Request(myId[t]) \in Chunks
      BY DEF Request, Chunk, Chunks
    <2>3. Head(toWorker') = IF toWorker = <<>> THEN Request(myId[t]) ELSE Head(toWorker)
      BY <1>6, <2>2, HeadOfAppend DEF SendHead, Request
    <2>4. Request(myId[t]).kind = "generate" /\ Request(myId[t]).id = myId[t]
      BY DEF Request, Chunk
    <2>5. /\ Answered' = Answered /\ Pending' = Pending /\ Issued' = Issued /\ wpc' = wpc /\ wid' = wid
          /\ \A u \in Threads : pc'[u] = "head" => pc[u] = "head" /\ myId'[u] = myId[u]
      BY <1>a, <1>6, <2>1 DEF SendHead, Goto
    <2>6. QED
      BY <2>1, <2>3, <2>4, <2>5
  <1>7. ASSUME NEW t \in Threads, SendRaw(t) PROVE FreshInv'
    <2>1. Payload(myId[t]) \in Chunks
      BY DEF Payload, Chunk, Chunks
    <2>2. Head(toWorker') = IF toWorker = <<>> THEN Payload(myId[t]) ELSE Head(toWorker)
      BY <1>7, <2>1, HeadOfAppend DEF SendRaw, Payload
    <2>3. Payload(myId[t]).kind = "raw"
      BY DEF Payload, Chunk
    <2>4. /\ Answered' = Answered /\ Pending' = Pending /\ Issued' = Issued /\ wpc' = wpc /\ wid' = wid
          /\ \A u \in Threads : pc'[u] = "head" => pc[u] = "head" /\ myId'[u] = myId[u]
      BY <1>a, <1>7 DEF SendRaw, Goto
    <2>5. QED
      BY <2>2, <2>3, <2>4
  <1>8. ASSUME NEW t \in Threads, Receive(t) PROVE FreshInv'
    BY <1>a, <1>8 DEF Receive, Goto
  <1>9. ASSUME NEW t \in Threads, Check(t) PROVE FreshInv'
    BY <1>a, <1>9 DEF Check, Finish, Goto
  <1>10. ASSUME NEW t \in Threads, TimeOut(t) PROVE FreshInv'
    <2>1. Abort(t)
      BY <1>10 DEF TimeOut
    <2>2. QED
      BY <2>1, AbortKeepsFresh
  <1>11. ASSUME NEW t \in Threads, PeerGone(t) PROVE FreshInv'
    <2>1. Abort(t)
      BY <1>11 DEF PeerGone
    <2>2. QED
      BY <2>1, AbortKeepsFresh
  <1>12. ASSUME NEW t \in Threads, Interrupt(t) PROVE FreshInv'
    <2>1. Abort(t)
      BY <1>12 DEF Interrupt
    <2>2. QED
      BY <2>1, AbortKeepsFresh
  <1>13. ASSUME NEW t \in Threads, CallClose(t) PROVE FreshInv'
    BY <1>a, <1>13 DEF CallClose, Goto
  <1>14. ASSUME NEW t \in Threads, CloseAgain(t) PROVE FreshInv'
    BY <1>a, <1>14 DEF CloseAgain, Goto
  <1>15. ASSUME NEW t \in Threads, CloseLocked(t) PROVE FreshInv'
    BY <1>a, <1>15 DEF CloseLocked, Goto
  <1>16. ASSUME NEW t \in Threads, CloseSend(t) PROVE FreshInv'
    <2>1. Chunk("close", 0) \in Chunks
      BY DEF Chunk, Chunks
    <2>2. Head(toWorker') = IF toWorker = <<>> THEN Chunk("close", 0) ELSE Head(toWorker)
      BY <1>16, <2>1, HeadOfAppend DEF CloseSend
    <2>3. Chunk("close", 0).kind = "close"
      BY DEF Chunk
    <2>4. /\ Answered' = Answered /\ Pending' = Pending /\ Issued' = Issued /\ wpc' = wpc /\ wid' = wid
          /\ \A u \in Threads : pc'[u] = "head" => pc[u] = "head" /\ myId'[u] = myId[u]
      BY <1>a, <1>16 DEF CloseSend, Goto
    <2>5. QED
      BY <2>2, <2>3, <2>4
  <1>17. ASSUME NEW t \in Threads, CloseHearsOrFails(t) PROVE FreshInv'
    BY <1>a, <1>17 DEF CloseHearsOrFails, Goto
  <1>18. ASSUME NEW t \in Threads, CloseReaped(t) PROVE FreshInv'
    BY <1>a, <1>18 DEF CloseReaped, Goto
  <1>19. ASSUME NEW t \in Threads, CloseWaitExpires(t) PROVE FreshInv'
    BY <1>a, <1>19 DEF CloseWaitExpires, StartCleanup, CleanupSignals, Goto
  <1>20. CASE BootReady
    BY <1>a, <1>20 DEF BootReady, Goto
  <1>21. CASE BootFails
    BY <1>a, <1>21 DEF BootFails, StartCleanup, CleanupSignals, Goto
  <1>22. CASE InterruptCleanup
    BY <1>a, <1>22 DEF InterruptCleanup, Goto
  <1>23. CASE InterruptLastCleanup
    BY <1>a, <1>23 DEF InterruptLastCleanup, Goto
  <1>24. CASE InterruptWait
    BY <1>a, <1>24 DEF InterruptWait, Goto
  <1>25. CASE Exit
    BY <1>a, <1>25 DEF Exit, CleanupSignals
  <1>26. CASE ParentDies
    BY <1>a, <1>26 DEF ParentDies
  <1>27. CASE WorkerLoads
    <2>1. toWorker' = <<>> /\ served' = served
      BY <1>27 DEF WorkerLoads, AlignInv, StreamInv, BootStream
    <2>2. wpc' \in {"recv", "exiting"}
      BY <1>27 DEF WorkerLoads, Answer
    <2>3. QED
      BY <1>a, <1>27, <2>1, <2>2 DEF WorkerLoads
  <1>28. CASE WorkerReadsHead
    <2>1. wid' \in Pending /\ wpc' = "raw" /\ served' = served
      BY <1>28 DEF WorkerReadsHead
    <2>2. QED
      BY <1>a, <1>28, <2>1 DEF WorkerReadsHead
  <1>29. CASE WorkerReadsClose
    <2>1. wpc' = "exiting" /\ served' = served
      BY <1>29 DEF WorkerReadsClose, Answer
    <2>2. QED
      BY <1>a, <1>29, <2>1 DEF WorkerReadsClose
  <1>30. CASE WorkerReadsRaw
    BY <1>a, <1>30 DEF WorkerReadsRaw
  <1>31. CASE WorkerSeesEof
    BY <1>a, <1>31 DEF WorkerSeesEof
  <1>32. CASE EngineReturns
    <2>1. toWorker' = <<>> /\ wpc' \in {"recv", "exiting"}
      BY <1>32 DEF EngineReturns, Answer, AlignInv
    <2>2. Answered' = Answered \cup {wid}
      BY <1>32, AnsweredGrows
    <2>3. \A t \in Threads : pc[t] # "head"
      BY <1>32 DEF EngineReturns, StreamInv, CallStream, Quiet
    <2>4. pc' = pc /\ nextRequestId' = nextRequestId /\ wid \in Issued
      BY <1>32 DEF EngineReturns
    <2>5. QED
      BY <2>1, <2>2, <2>3, <2>4
  <1>33. CASE EngineRaises
    <2>1. toWorker' = <<>> /\ wpc' \in {"recv", "exiting"} /\ served' = served
      BY <1>33 DEF EngineRaises, Answer, AlignInv
    <2>2. QED
      BY <1>a, <1>33, <2>1 DEF EngineRaises
  <1>34. CASE WorkerExits
    BY <1>a, <1>34 DEF WorkerExits
  <1>35. CASE WorkerKilled
    BY <1>a, <1>35 DEF WorkerKilled
  <1>36. CASE WorkerCrashes
    BY <1>a, <1>36 DEF WorkerCrashes
  <1>37. CASE Over
    BY <1>a, <1>37 DEF Over, vars
  <1>38. CASE UNCHANGED vars
    BY <1>a, <1>38 DEF vars
  <1>39. QED
    BY <1>1, <1>2, <1>3, <1>4, <1>5, <1>6, <1>7, <1>8, <1>9, <1>10, <1>11, <1>12, <1>13, <1>14, <1>15, <1>16, <1>17, <1>18, <1>19, <1>20, <1>21, <1>22, <1>23, <1>24, <1>25, <1>26, <1>27, <1>28, <1>29, <1>30, <1>31, <1>32, <1>33, <1>34, <1>35, <1>36, <1>37, <1>38 DEF Next, ThreadNext, Continue, WorkerNext, WorkerReading, EngineDone

\* The answer each thread holds: what the refinement mapping gives for answer.
Held == [t \in Threads |-> IF pc[t] = "check" /\ reply[t].type = "generation"
                           THEN reply[t].id ELSE 0]

\* No thread begins or ends to hold a response in this step.
SameHeld == \A t \in Threads : /\ (pc'[t] = "check") <=> (pc[t] = "check")
                               /\ pc[t] = "check" => reply'[t] = reply[t]

\* Then no thread's answer changes.
LEMMA HeldKept ==
    ASSUME SameHeld
    PROVE  Held' = Held
  <1>1. \A t \in Threads :
          (IF pc'[t] = "check" /\ reply'[t].type = "generation" THEN reply'[t].id ELSE 0)
          = (IF pc[t] = "check" /\ reply[t].type = "generation" THEN reply[t].id ELSE 0)
    BY DEF SameHeld
  <1>2. QED
    BY <1>1 DEF Held

\* A step that changes nothing the service knows of is one it does not see.
LEMMA KeepsService ==
    ASSUME UNCHANGED <<closed, nextRequestId, served, myId>>, SameHeld
    PROVE  UNCHANGED Service!vars
  BY HeldKept DEF Held, Service!vars

\* Every step of the bridge is a step of the service or one it does not see.
LEMMA ServiceStep == ServiceInv /\ [Next]_vars => [Service!Next]_(Service!vars)
  <1> SUFFICES ASSUME ServiceInv, [Next]_vars PROVE [Service!Next]_(Service!vars)
    OBVIOUS
  <1> USE ThreadsAssumption, BoundsAssumption
      DEF ServiceInv, SafetyInv, TypeOK, PCs
  <1>1. ASSUME NEW t \in Threads, CleanupKills(t) PROVE [Service!Next]_(Service!vars)
    <2>1. UNCHANGED <<closed, nextRequestId, served, myId>> /\ SameHeld
      BY <1>1 DEF CleanupKills, Goto, SameHeld
    <2>2. QED
      BY <2>1, KeepsService
  <1>2. ASSUME NEW t \in Threads, CleanupReturns(t) PROVE [Service!Next]_(Service!vars)
    <2>1. /\ myId' = [myId EXCEPT ![t] = 0]
          /\ UNCHANGED <<closed, nextRequestId, served>> /\ SameHeld
          /\ pc[t] # "check"
      BY <1>2 DEF CleanupReturns, Goto, SameHeld, ClosePCs, CleanupPCs
    <2>2. Held' = Held /\ Held[t] = 0
      BY <2>1, HeldKept DEF Held
    <2>3. CASE myId[t] = 0
      <3>1. myId' = myId
        BY <2>1, <2>3
      <3>2. QED
        BY <2>1, <2>2, <3>1 DEF Service!vars, Held
    <2>4. CASE myId[t] # 0
      <3>1. Held' = [Held EXCEPT ![t] = 0]
        BY <2>2 DEF Held
      <3>2. Service!Return(t)
        BY <2>1, <2>4, <3>1 DEF Service!Return, Held
      <3>3. QED
        BY <3>2 DEF Service!Next
    <2>5. QED
      BY <2>3, <2>4
  <1>3. ASSUME NEW t \in Threads, CallGenerate(t) PROVE [Service!Next]_(Service!vars)
    <2>1. UNCHANGED <<closed, nextRequestId, served, myId>> /\ SameHeld
      BY <1>3 DEF CallGenerate, Finish, Goto, SameHeld
    <2>2. QED
      BY <2>1, KeepsService
  <1>4. ASSUME NEW t \in Threads, Issue(t) PROVE [Service!Next]_(Service!vars)
    <2>1. /\ myId[t] = 0 /\ ~closed /\ nextRequestId <= MaxId
          /\ myId' = [myId EXCEPT ![t] = (nextRequestId - 1) + 1]
          /\ nextRequestId' - 1 = (nextRequestId - 1) + 1
          /\ UNCHANGED <<closed, served>> /\ SameHeld
      BY <1>4 DEF Issue, CanIssue, Goto, SameHeld, TicketInv
    <2>2. Service!Begin(t)
      BY <2>1, HeldKept DEF Service!Begin, Held
    <2>3. QED
      BY <2>2 DEF Service!Next
  <1>5. ASSUME NEW t \in Threads, NEW b \in BOOLEAN, IssueRefused(t, b) PROVE [Service!Next]_(Service!vars)
    <2>1. /\ nextRequestId <= MaxId /\ nextRequestId' - 1 = (nextRequestId - 1) + 1
          /\ UNCHANGED <<closed, served, myId>> /\ SameHeld
      BY <1>5 DEF IssueRefused, CanIssue, Goto, SameHeld
    <2>2. Service!Refuse
      BY <2>1, HeldKept DEF Service!Refuse, Held
    <2>3. QED
      BY <2>2 DEF Service!Next
  <1>6. ASSUME NEW t \in Threads, SendHead(t) PROVE [Service!Next]_(Service!vars)
    <2>1. UNCHANGED <<closed, nextRequestId, served, myId>> /\ SameHeld
      BY <1>6 DEF SendHead, Goto, SameHeld
    <2>2. QED
      BY <2>1, KeepsService
  <1>7. ASSUME NEW t \in Threads, SendRaw(t) PROVE [Service!Next]_(Service!vars)
    <2>1. UNCHANGED <<closed, nextRequestId, served, myId>> /\ SameHeld
      BY <1>7 DEF SendRaw, Goto, SameHeld
    <2>2. QED
      BY <2>1, KeepsService
  <1>8. ASSUME NEW t \in Threads, Receive(t) PROVE [Service!Next]_(Service!vars)
    <2>1. /\ pc[t] = "recv" /\ toParent # <<>>
          /\ pc' = [pc EXCEPT ![t] = "check"]
          /\ reply' = [reply EXCEPT ![t] = Head(toParent)]
          /\ UNCHANGED <<closed, nextRequestId, served, myId>>
      BY <1>8 DEF Receive, Goto
    <2>2. reply'[t] \in {Frame("generation", myId[t]), Frame("error", myId[t])}
      BY <2>1, ReplyIsOwnStep DEF ReplyIsOwn
    <2>3. ~closed
      BY <2>1 DEF OpenInv, CallPCs
    <2>4. CASE reply'[t] = Frame("generation", myId[t])
      <3>1. Head(toParent) = Frame("generation", myId[t])
        BY <2>1, <2>4
      <3>2. 1 \in DOMAIN toParent /\ toParent[1] = Frame("generation", myId[t])
        BY <2>1, <3>1
      <3>3. myId[t] \in Answered
        <4>1. toParent[1].type = "generation" => toParent[1].id \in Answered
          BY <3>2 DEF AnswersInv
        <4>2. QED
          BY <3>2, <4>1 DEF Frame
      <3>4. Held[t] = 0 /\ Held' = [Held EXCEPT ![t] = myId[t]]
        <4>1. reply'[t].type = "generation" /\ reply'[t].id = myId[t] /\ pc'[t] = "check"
          BY <2>1, <2>4 DEF Frame
        <4>2. \A u \in Threads : u # t => pc'[u] = pc[u] /\ reply'[u] = reply[u]
          BY <2>1
        <4>3. QED
          BY <2>1, <4>1, <4>2 DEF Held
      <3>5. Service!Answer(t)
        BY <2>1, <2>3, <3>3, <3>4 DEF Service!Answer, Service!Answered, Held, Answered
      <3>6. QED
        BY <3>5 DEF Service!Next
    <2>5. CASE reply'[t] = Frame("error", myId[t])
      <3>1. Held' = Held
        BY <2>1, <2>5 DEF Held, Frame
      <3>2. QED
        BY <2>1, <3>1 DEF Held, Service!vars
    <2>6. QED
      BY <2>2, <2>4, <2>5
  <1>9. ASSUME NEW t \in Threads, Check(t) PROVE [Service!Next]_(Service!vars)
    <2>1. /\ myId[t] # 0
          /\ myId' = [myId EXCEPT ![t] = 0]
          /\ UNCHANGED <<closed, nextRequestId, served>>
      BY <1>9 DEF Check, TicketInv
    <2>2. Held' = [Held EXCEPT ![t] = 0]
      BY <1>9 DEF Check, Goto, Held
    <2>3. Service!Return(t)
      BY <2>1, <2>2 DEF Service!Return, Held
    <2>4. QED
      BY <2>3 DEF Service!Next
  <1>10. ASSUME NEW t \in Threads, TimeOut(t) PROVE [Service!Next]_(Service!vars)
    <2>1. ~closed
      BY <1>10 DEF TimeOut, OpenInv, CallPCs
    <2>2. /\ closed' /\ SameHeld
          /\ UNCHANGED <<nextRequestId, served, myId>>
      BY <1>10 DEF TimeOut, Abort, StartCleanup, CleanupSignals, Goto, SameHeld, CallPCs
    <2>3. Service!Close
      BY <2>1, <2>2, HeldKept DEF Service!Close, Held
    <2>4. QED
      BY <2>3 DEF Service!Next
  <1>11. ASSUME NEW t \in Threads, PeerGone(t) PROVE [Service!Next]_(Service!vars)
    <2>1. ~closed
      BY <1>11 DEF PeerGone, OpenInv, CallPCs
    <2>2. /\ closed' /\ SameHeld
          /\ UNCHANGED <<nextRequestId, served, myId>>
      BY <1>11 DEF PeerGone, Abort, StartCleanup, CleanupSignals, Goto, SameHeld, CallPCs
    <2>3. Service!Close
      BY <2>1, <2>2, HeldKept DEF Service!Close, Held
    <2>4. QED
      BY <2>3 DEF Service!Next
  <1>12. ASSUME NEW t \in Threads, Interrupt(t) PROVE [Service!Next]_(Service!vars)
    <2>1. ~closed
      BY <1>12 DEF Interrupt, OpenInv, CallPCs
    <2>2. /\ closed' /\ SameHeld
          /\ UNCHANGED <<nextRequestId, served, myId>>
      BY <1>12 DEF Interrupt, Abort, StartCleanup, CleanupSignals, Goto, SameHeld, CallPCs
    <2>3. Service!Close
      BY <2>1, <2>2, HeldKept DEF Service!Close, Held
    <2>4. QED
      BY <2>3 DEF Service!Next
  <1>13. ASSUME NEW t \in Threads, CallClose(t) PROVE [Service!Next]_(Service!vars)
    <2>1. UNCHANGED <<closed, nextRequestId, served, myId>> /\ SameHeld
      BY <1>13 DEF CallClose, Goto, SameHeld
    <2>2. QED
      BY <2>1, KeepsService
  <1>14. ASSUME NEW t \in Threads, CloseAgain(t) PROVE [Service!Next]_(Service!vars)
    <2>1. UNCHANGED <<closed, nextRequestId, served, myId>> /\ SameHeld
      BY <1>14 DEF CloseAgain, Goto, SameHeld
    <2>2. QED
      BY <2>1, KeepsService
  <1>15. ASSUME NEW t \in Threads, CloseLocked(t) PROVE [Service!Next]_(Service!vars)
    <2>1. ~closed
      BY <1>15 DEF CloseLocked, OpenInv, CallPCs
    <2>2. /\ closed' /\ SameHeld
          /\ UNCHANGED <<nextRequestId, served, myId>>
      BY <1>15 DEF CloseLocked, Goto, SameHeld, CallPCs
    <2>3. Service!Close
      BY <2>1, <2>2, HeldKept DEF Service!Close, Held
    <2>4. QED
      BY <2>3 DEF Service!Next
  <1>16. ASSUME NEW t \in Threads, CloseSend(t) PROVE [Service!Next]_(Service!vars)
    <2>1. UNCHANGED <<closed, nextRequestId, served, myId>> /\ SameHeld
      BY <1>16 DEF CloseSend, Goto, SameHeld
    <2>2. QED
      BY <2>1, KeepsService
  <1>17. ASSUME NEW t \in Threads, CloseHearsOrFails(t) PROVE [Service!Next]_(Service!vars)
    <2>1. UNCHANGED <<closed, nextRequestId, served, myId>> /\ SameHeld
      BY <1>17 DEF CloseHearsOrFails, Goto, SameHeld
    <2>2. QED
      BY <2>1, KeepsService
  <1>18. ASSUME NEW t \in Threads, CloseReaped(t) PROVE [Service!Next]_(Service!vars)
    <2>1. UNCHANGED <<closed, nextRequestId, served, myId>> /\ SameHeld
      BY <1>18 DEF CloseReaped, Goto, SameHeld
    <2>2. QED
      BY <2>1, KeepsService
  <1>19. ASSUME NEW t \in Threads, CloseWaitExpires(t) PROVE [Service!Next]_(Service!vars)
    <2>1. UNCHANGED <<closed, nextRequestId, served, myId>> /\ SameHeld
      BY <1>19 DEF CloseWaitExpires, StartCleanup, CleanupSignals, Goto, SameHeld
    <2>2. QED
      BY <2>1, KeepsService
  <1>20. CASE BootReady
    <2>1. UNCHANGED <<closed, nextRequestId, served, myId>> /\ SameHeld
      BY <1>20 DEF BootReady, Goto, SameHeld
    <2>2. QED
      BY <2>1, KeepsService
  <1>21. CASE BootFails
    <2>1. UNCHANGED <<closed, nextRequestId, served, myId>> /\ SameHeld
      BY <1>21 DEF BootFails, StartCleanup, CleanupSignals, Goto, SameHeld
    <2>2. QED
      BY <2>1, KeepsService
  <1>22. CASE InterruptCleanup
    <2>1. /\ myId' = [myId EXCEPT ![Main] = 0]
          /\ UNCHANGED <<closed, nextRequestId, served>> /\ SameHeld
          /\ pc[Main] # "check"
      BY <1>22 DEF InterruptCleanup, Goto, SameHeld, ClosePCs, CleanupPCs
    <2>2. Held' = Held /\ Held[Main] = 0
      BY <2>1, HeldKept DEF Held
    <2>3. CASE myId[Main] = 0
      <3>1. myId' = myId
        BY <2>1, <2>3
      <3>2. QED
        BY <2>1, <2>2, <3>1 DEF Service!vars, Held
    <2>4. CASE myId[Main] # 0
      <3>1. Held' = [Held EXCEPT ![Main] = 0]
        BY <2>2 DEF Held
      <3>2. Service!Return(Main)
        BY <2>1, <2>4, <3>1 DEF Service!Return, Held
      <3>3. QED
        BY <3>2 DEF Service!Next
    <2>5. QED
      BY <2>3, <2>4
  <1>23. CASE InterruptLastCleanup
    <2>1. UNCHANGED <<closed, nextRequestId, served, myId>> /\ SameHeld
      BY <1>23 DEF InterruptLastCleanup, Goto, CleanupPCs, SameHeld
    <2>2. QED
      BY <2>1, KeepsService
  <1>24. CASE InterruptWait
    <2>1. UNCHANGED <<closed, nextRequestId, served, myId>> /\ SameHeld
      BY <1>24 DEF InterruptWait, Goto, SameHeld
    <2>2. QED
      BY <2>1, KeepsService
  <1>25. CASE Exit
    <2>1. UNCHANGED <<closed, nextRequestId, served, myId>> /\ SameHeld
      BY <1>25 DEF Exit, CleanupSignals, SameHeld
    <2>2. QED
      BY <2>1, KeepsService
  <1>26. CASE ParentDies
    <2>1. /\ myId' = [t \in Threads |-> 0]
          /\ UNCHANGED <<closed, nextRequestId, served>>
      BY <1>26 DEF ParentDies
    <2>2. Held' = [t \in Threads |-> 0]
      BY <1>26 DEF ParentDies, Held
    <2>3. Service!Vanish
      BY <2>1, <2>2 DEF Service!Vanish, Held
    <2>4. QED
      BY <2>3 DEF Service!Next
  <1>27. CASE WorkerLoads
    <2>1. UNCHANGED <<closed, nextRequestId, served, myId>> /\ SameHeld
      BY <1>27 DEF WorkerLoads, Answer, SameHeld
    <2>2. QED
      BY <2>1, KeepsService
  <1>28. CASE WorkerReadsHead
    <2>1. UNCHANGED <<closed, nextRequestId, served, myId>> /\ SameHeld
      BY <1>28 DEF WorkerReadsHead, SameHeld
    <2>2. QED
      BY <2>1, KeepsService
  <1>29. CASE WorkerReadsClose
    <2>1. UNCHANGED <<closed, nextRequestId, served, myId>> /\ SameHeld
      BY <1>29 DEF WorkerReadsClose, Answer, SameHeld
    <2>2. QED
      BY <2>1, KeepsService
  <1>30. CASE WorkerReadsRaw
    <2>1. UNCHANGED <<closed, nextRequestId, served, myId>> /\ SameHeld
      BY <1>30 DEF WorkerReadsRaw, SameHeld
    <2>2. QED
      BY <2>1, KeepsService
  <1>31. CASE WorkerSeesEof
    <2>1. UNCHANGED <<closed, nextRequestId, served, myId>> /\ SameHeld
      BY <1>31 DEF WorkerSeesEof, SameHeld
    <2>2. QED
      BY <2>1, KeepsService
  <1>32. CASE EngineReturns
    <2>1. wid \in Pending /\ served' = Append(served, wid)
          /\ UNCHANGED <<closed, nextRequestId, myId>> /\ SameHeld
      BY <1>32 DEF EngineReturns, FreshInv, SameHeld
    <2>2. wid \in 1..(nextRequestId - 1) \ Service!Answered /\ wid \in 1..MaxId
      BY <2>1 DEF Pending, Issued, Answered, Service!Answered
    <2>3. Service!Execute(wid)
      BY <2>1, <2>2, HeldKept DEF Service!Execute, Held
    <2>4. QED
      BY <2>2, <2>3 DEF Service!Next
  <1>33. CASE EngineRaises
    <2>1. UNCHANGED <<closed, nextRequestId, served, myId>> /\ SameHeld
      BY <1>33 DEF EngineRaises, Answer, SameHeld
    <2>2. QED
      BY <2>1, KeepsService
  <1>34. CASE WorkerExits
    <2>1. UNCHANGED <<closed, nextRequestId, served, myId>> /\ SameHeld
      BY <1>34 DEF WorkerExits, SameHeld
    <2>2. QED
      BY <2>1, KeepsService
  <1>35. CASE WorkerKilled
    <2>1. UNCHANGED <<closed, nextRequestId, served, myId>> /\ SameHeld
      BY <1>35 DEF WorkerKilled, SameHeld
    <2>2. QED
      BY <2>1, KeepsService
  <1>36. CASE WorkerCrashes
    <2>1. UNCHANGED <<closed, nextRequestId, served, myId>> /\ SameHeld
      BY <1>36 DEF WorkerCrashes, SameHeld
    <2>2. QED
      BY <2>1, KeepsService
  <1>37. CASE Over
    <2>1. UNCHANGED <<closed, nextRequestId, served, myId>> /\ SameHeld
      BY <1>37 DEF Over, vars, SameHeld
    <2>2. QED
      BY <2>1, KeepsService
  <1>38. CASE UNCHANGED vars
    <2>1. UNCHANGED <<closed, nextRequestId, served, myId>> /\ SameHeld
      BY <1>38 DEF vars, SameHeld
    <2>2. QED
      BY <2>1, KeepsService
  <1>39. QED
    BY <1>1, <1>2, <1>3, <1>4, <1>5, <1>6, <1>7, <1>8, <1>9, <1>10, <1>11, <1>12, <1>13, <1>14, <1>15, <1>16, <1>17, <1>18, <1>19, <1>20, <1>21, <1>22, <1>23, <1>24, <1>25, <1>26, <1>27, <1>28, <1>29, <1>30, <1>31, <1>32, <1>33, <1>34, <1>35, <1>36, <1>37, <1>38 DEF Next, ThreadNext, Continue, WorkerNext, WorkerReading, EngineDone

\* The bridge starts where the service starts, with no request issued.
LEMMA ServiceInit == Init => ServiceInv /\ Service!Init
  <1> SUFFICES ASSUME Init PROVE ServiceInv /\ Service!Init
    OBVIOUS
  <1> USE ThreadsAssumption, BoundsAssumption DEF Init
  <1>1. Answered = {}
    BY DEF Answered
  <1>2. TicketInv /\ FreshInv /\ AnswersInv
    BY <1>1 DEF TicketInv, FreshInv, AnswersInv, CallPCs
  <1>3. Service!Init
    BY DEF Service!Init
  <1>4. QED
    BY <1>2, <1>3, SafetyInit DEF ServiceInv

\* The bridge implements GenerationService for every set of threads: no ticket
\* is given out twice, no request is executed twice, and a thread only ever gets
\* the answer computed for its own request, while the bridge is open.
THEOREM BridgeImplementsService == Spec => ServiceSpec
  <1>1. ServiceInv /\ [Next]_vars => ServiceInv'
    <2> SUFFICES ASSUME ServiceInv, [Next]_vars PROVE ServiceInv'
      OBVIOUS
    <2>1. SafetyInv'
      BY SafetyInvStep DEF ServiceInv
    <2>2. TicketInv' /\ FreshInv' /\ AnswersInv'
      BY TicketInvStep, FreshInvStep, AnswersInvStep DEF ServiceInv, SafetyInv
    <2>3. QED
      BY <2>1, <2>2 DEF ServiceInv
  <1>2. QED
    BY <1>1, ServiceInit, ServiceStep, PTL DEF Spec, ServiceSpec, Service!Spec
==============================================================================
