------------------------- MODULE GenerationService -------------------------
(***************************************************************************)
(* What the vLLM bridge promises to the inference threads that share it,   *)
(* with no socket, no worker process and no lock: every request gets a     *)
(* ticket of its own, is executed at most once, and a caller is only ever  *)
(* given the answer that was computed for its ticket, while the service is *)
(* open.  Any call may fail instead, and once closed the service answers   *)
(* nothing more.  VllmBridge implements this specification.                *)
(***************************************************************************)
EXTENDS Naturals, Sequences

CONSTANTS Threads,    \* the threads of the HF parent that call generate()
          MaxId       \* bound on the tickets issued

VARIABLES mode,       \* "open" or "closed"
          issued,     \* how many tickets have been issued
          executed,   \* the tickets the engine has answered, in that order
          ticket,     \* the ticket of each thread's current call, 0: no call
          answer      \* the ticket whose answer a thread holds, 0: none

vars == <<mode, issued, executed, ticket, answer>>

Init == /\ mode = "open"
        /\ issued = 0
        /\ executed = <<>>
        /\ ticket = [t \in Threads |-> 0]
        /\ answer = [t \in Threads |-> 0]

Begin(t) == /\ ticket[t] = 0
            /\ issued < MaxId
            /\ mode = "open"
            /\ issued' = issued + 1
            /\ ticket' = [ticket EXCEPT ![t] = issued + 1]
            /\ UNCHANGED <<mode, executed, answer>>

\* A call refused before it reaches the engine uses its ticket up.
Refuse == /\ issued < MaxId
          /\ issued' = issued + 1
          /\ UNCHANGED <<mode, executed, ticket, answer>>

Answered == {executed[k] : k \in DOMAIN executed}

\* The engine may also finish a request whose caller has given up.
Execute(i) == /\ i \in 1..issued \ Answered
              /\ executed' = Append(executed, i)
              /\ UNCHANGED <<mode, issued, ticket, answer>>

Answer(t) == /\ mode = "open"
             /\ ticket[t] \in Answered
             /\ answer[t] = 0
             /\ answer' = [answer EXCEPT ![t] = ticket[t]]
             /\ UNCHANGED <<mode, issued, executed, ticket>>

\* generate() returns the answer it holds, or raises.
Return(t) == /\ ticket[t] # 0
             /\ ticket' = [ticket EXCEPT ![t] = 0]
             /\ answer' = [answer EXCEPT ![t] = 0]
             /\ UNCHANGED <<mode, issued, executed>>

Close == /\ mode = "open"
         /\ mode' = "closed"
         /\ UNCHANGED <<issued, executed, ticket, answer>>

\* The calling process dies: every call disappears with it.
Vanish == /\ ticket' = [t \in Threads |-> 0]
          /\ answer' = [t \in Threads |-> 0]
          /\ UNCHANGED <<mode, issued, executed>>

Next == \/ \E t \in Threads : Begin(t) \/ Answer(t) \/ Return(t)
        \/ \E i \in 1..MaxId : Execute(i)
        \/ Refuse
        \/ Close
        \/ Vanish

Spec == Init /\ [][Next]_vars
=============================================================================
