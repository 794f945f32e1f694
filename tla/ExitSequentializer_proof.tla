---------------------- MODULE ExitSequentializer_proof ----------------------
(***************************************************************************)
(* Proofs about ExitSequentializer: its list is one, nothing registered    *)
(* gets lost on it, and the exit manager is a registry such as the lazy    *)
(* sequentializer expects, for every set of threads and statics.           *)
(***************************************************************************)
EXTENDS ExitSequentializer, LazySequentializer_proof

(* The two chains hold statics that wait for their finalization; what has  *)
(* been executed is taken off, and what is not registered is off the list. *)
ChainsInv ==
  /\ first # NoStatic => node[first] = "in"
  /\ \A x \in Statics : next[x] # NoStatic => node[next[x]] = "in"
  /\ \A x \in Statics : node[x] = "out" => next[x] = NoStatic
  /\ \A x \in Statics : node[x] = "taken" /\ next[x] # NoStatic =>
       exit \in {"executing", "aborted"} /\ x = list

(* No static is on them twice: each has one predecessor, their heads none. *)
DistinctInv ==
  /\ \A x, y \in Statics : next[x] = next[y] /\ next[x] # NoStatic => x = y
  /\ \A x \in Statics : next[x] # NoStatic =>
       next[x] # first /\ (exit = "loop" => next[x] # list)
  /\ exit = "loop" => list # first

(* Where execute_at_exit is.                                               *)
LoopInv ==
  /\ exit \in {"before", "ended"} => list = NoStatic
  /\ exit = "before" => registration_opened /\ \A s \in Statics : node[s] # "taken"
  /\ exit = "loop" => list # NoStatic /\ node[list] = "in"
  /\ exit \in {"executing", "refill", "aborted"} => list # NoStatic /\ node[list] = "taken"
  /\ exit = "refill" => next[list] = NoStatic
  /\ ~registration_opened => exit = "ended"

(* finalize_callback is called by execute_at_exit alone.                   *)
CallbackInv ==
  \A t \in Threads : op[t] = "finalize_callback" =>
    t = ExitThread /\ exit = "executing" /\ on[t] = list

(* What is due waits for its finalization, is being finalized or has been. *)
DueInv ==
  /\ exit = "before" => due = {}
  /\ exit = "ended" => due = {} \/ ~registration_opened
  /\ exit # "aborted" => \A s \in due :
       /\ "INITIALIZED" \in phase[s]
       /\ \/ node[s] = "in" \/ "FINALIZED" \in phase[s]
          \/ op[ExitThread] = "finalize_callback" /\ on[ExitThread] = s

(* The inductive invariant.                                                *)
ExitInv ==
  /\ LazyInv /\ WordInv /\ ExitTypeOK
  /\ ChainsInv /\ DistinctInv /\ LoopInv /\ NoneLost /\ CallbackInv /\ DueInv
-----------------------------------------------------------------------------
LEMMA NoneLostChains ==
  /\ NoneLost <=> \A s \in Statics : node[s] = "in" =>
       /\ registration_opened
       /\ (first # NoStatic /\ OnChain(next, first, s)) \/ (list # NoStatic /\ OnChain(next, list, s))
  /\ NoneLost' <=> \A s \in Statics : node'[s] = "in" =>
       /\ registration_opened'
       /\ \/ first' # NoStatic /\ OnChain(next', first', s)
          \/ list' # NoStatic /\ OnChain(next', list', s)
BY DEF NoneLost, Reaches, OnChain

ListInv == ExitTypeOK /\ ChainsInv /\ DistinctInv /\ LoopInv /\ NoneLost
-----------------------------------------------------------------------------
(***************************************************************************)
(* The list, one holding of REGISTER after the other.                      *)
(***************************************************************************)
listVars == <<first, registration_opened, next, list>>

LEMMA QuietStep ==
  ASSUME ListInv, TypeOK', UNCHANGED <<node, listVars, due>>,
         exit' = exit \/ (exit = "executing" /\ exit' = "aborted")
  PROVE  ListInv'
<1>1. UNCHANGED <<node, first, registration_opened, next, list, due>>
  BY DEF listVars
<1>2. NoneLost'
  BY <1>1, NoneLostChains DEF ListInv
<1>3. ExitTypeOK'
  BY <1>1 DEF ListInv, ExitTypeOK
<1>4. ChainsInv'
  BY <1>1 DEF ListInv, ChainsInv
<1>5. DistinctInv'
  BY <1>1 DEF ListInv, DistinctInv
<1>6. LoopInv'
  BY <1>1 DEF ListInv, LoopInv
<1>7. QED
  BY <1>2, <1>3, <1>4, <1>5, <1>6 DEF ListInv

LEMMA PushStep ==
  ASSUME ListInv, TypeOK', NEW s \in Statics, node[s] = "out", registration_opened,
         node' = [node EXCEPT ![s] = "in"],
         first' = s, next' = [next EXCEPT ![s] = first],
         UNCHANGED <<registration_opened, list, exit, due>>
  PROVE  ListInv'
<1>0. NoStatic \notin Statics
  BY LazyAssumption
<1>1. /\ node \in [Statics -> {"out", "in", "taken"}] /\ next \in Links
      /\ first \in Statics \cup {NoStatic} /\ list \in Statics \cup {NoStatic}
  BY DEF ListInv, ExitTypeOK, TypeOK, Links
<1>2. /\ next[s] = NoStatic /\ s # first
      /\ \A x \in Statics : next[x] # s
      /\ exit # "before" /\ exit # "ended" => s # list
  BY <1>0, <1>1 DEF ListInv, ChainsInv, LoopInv, ExitTypeOK
<1>3. /\ node'[s] = "in" /\ next'[s] = first
      /\ \A x \in Statics \ {s} : node'[x] = node[x] /\ next'[x] = next[x]
  BY <1>1 DEF Links
<1>4. ExitTypeOK'
  BY <1>1 DEF ListInv, ExitTypeOK, Links
<1>5. ChainsInv'
  BY <1>0, <1>1, <1>2, <1>3 DEF ListInv, ChainsInv
<1>6. DistinctInv'
  <2>1. list # s
    BY <1>0, <1>2 DEF ListInv, LoopInv
  <2>2. \A x \in Statics : next'[x] # s
    BY <1>2, <1>3
  <2>3. exit = "loop" => first # list
    BY DEF ListInv, DistinctInv
  <2>4. QED
    BY <1>0, <1>1, <1>2, <1>3, <2>1, <2>2, <2>3 DEF ListInv, DistinctInv
<1>7. LoopInv'
  BY <1>1, <1>2, <1>3 DEF ListInv, LoopInv
<1>8. NoneLost'
  <2> SUFFICES ASSUME NEW x \in Statics, node'[x] = "in"
               PROVE  \/ OnChain(next', s, x)
                      \/ list # NoStatic /\ OnChain(next', list, x)
    BY <1>0, NoneLostChains
  <2>1. CASE x = s
    BY <2>1 DEF OnChain
  <2>2. CASE x # s
    <3>1. \/ first # NoStatic /\ OnChain(next, first, x)
          \/ list # NoStatic /\ OnChain(next, list, x)
      BY <1>3, <2>2, NoneLostChains DEF ListInv
    <3>2. QED
      BY <1>1, <1>2, <3>1, ChainPush
  <2>3. QED
    BY <2>1, <2>2
<1>9. QED
  BY <1>4, <1>5, <1>6, <1>7, <1>8 DEF ListInv

LEMMA BeginExitStep ==
  ASSUME ListInv, TypeOK', execute_at_exit
  PROVE  ListInv'
<1>1. /\ exit = "before" /\ list' = first /\ first' = NoStatic
      /\ exit' = (IF first = NoStatic THEN "ended" ELSE "loop")
      /\ due' \subseteq Statics
      /\ UNCHANGED <<node, registration_opened, next>>
  BY DEF execute_at_exit, vars
<1>2. list = NoStatic /\ registration_opened
  BY <1>1 DEF ListInv, LoopInv
<1>3. ExitTypeOK'
  BY <1>1 DEF ListInv, ExitTypeOK
<1>4. ChainsInv'
  BY <1>1 DEF ListInv, ChainsInv
<1>5. DistinctInv'
  BY <1>1 DEF ListInv, DistinctInv
<1>6. LoopInv'
  BY <1>1, <1>2 DEF ListInv, LoopInv, ChainsInv
<1>7. NoneLost'
  BY <1>1, <1>2, NoneLostChains DEF ListInv
<1>8. QED
  BY <1>3, <1>4, <1>5, <1>6, <1>7 DEF ListInv

LEMMA ExecuteStep ==
  ASSUME ListInv, TypeOK', execute
  PROVE  ListInv'
<1>0. NoStatic \notin Statics
  BY LazyAssumption
<1>1. /\ exit = "loop" /\ exit' = "executing"
      /\ node' = [node EXCEPT ![list] = "taken"]
      /\ UNCHANGED <<first, registration_opened, next, list, due>>
  BY DEF execute
<1>2. /\ node \in [Statics -> {"out", "in", "taken"}] /\ next \in Links
      /\ first \in Statics \cup {NoStatic} /\ list \in Statics /\ node[list] = "in"
      /\ registration_opened /\ list # first
  BY <1>1 DEF ListInv, ExitTypeOK, TypeOK, LoopInv, Links, DistinctInv
<1>3. /\ node'[list] = "taken"
      /\ \A x \in Statics \ {list} : node'[x] = node[x]
  BY <1>1, <1>2
<1>4. ExitTypeOK'
  BY <1>1 DEF ListInv, ExitTypeOK
<1>5. ChainsInv'
  BY <1>0, <1>1, <1>2, <1>3 DEF ListInv, ChainsInv, DistinctInv, Links
<1>6. DistinctInv'
  BY <1>1 DEF ListInv, DistinctInv
<1>7. LoopInv'
  BY <1>1, <1>2, <1>3 DEF ListInv, LoopInv
<1>8. NoneLost'
  BY <1>1, <1>2, <1>3, NoneLostChains DEF ListInv
<1>9. QED
  BY <1>4, <1>5, <1>6, <1>7, <1>8 DEF ListInv

LEMMA TakeNextStep ==
  ASSUME ListInv, TypeOK', take_next
  PROVE  ListInv'
<1>0. NoStatic \notin Statics
  BY LazyAssumption
<1>1. /\ exit = "executing"
      /\ next' = [next EXCEPT ![list] = NoStatic]
      /\ list' = IF next[list] = NoStatic THEN list ELSE next[list]
      /\ exit' = IF next[list] = NoStatic THEN "refill" ELSE "loop"
      /\ UNCHANGED <<node, first, registration_opened, due>>
  BY DEF take_next, vars
<1>2. /\ node \in [Statics -> {"out", "in", "taken"}] /\ next \in Links
      /\ first \in Statics \cup {NoStatic} /\ list \in Statics /\ node[list] = "taken"
      /\ registration_opened /\ next[list] \in Statics \cup {NoStatic}
  BY <1>1 DEF ListInv, ExitTypeOK, TypeOK, LoopInv, Links
<1>3. /\ next'[list] = NoStatic
      /\ \A x \in Statics \ {list} : next'[x] = next[x]
  BY <1>1, <1>2 DEF Links
<1>4. list # first /\ \A x \in Statics : next[x] # list
  BY <1>0, <1>2 DEF ListInv, ChainsInv
<1>5. ExitTypeOK'
  BY <1>1, <1>2 DEF ListInv, ExitTypeOK, Links
<1>6. ChainsInv'
  BY <1>1, <1>2, <1>3 DEF ListInv, ChainsInv
<1>7. DistinctInv'
  <2>1. next[list] # NoStatic => next[list] # first
    BY <1>2 DEF ListInv, DistinctInv
  <2>2. \A x \in Statics : next'[x] # NoStatic => x # list /\ next[x] = next'[x]
    BY <1>3
  <2>3. QED
    BY <1>1, <1>2, <2>1, <2>2 DEF ListInv, DistinctInv
<1>8. LoopInv'
  BY <1>0, <1>1, <1>2, <1>3 DEF ListInv, LoopInv, ChainsInv
<1>9. NoneLost'
  <2> SUFFICES ASSUME NEW x \in Statics, node[x] = "in"
               PROVE  \/ first # NoStatic /\ OnChain(next', first, x)
                      \/ list' # NoStatic /\ OnChain(next', list', x)
    BY <1>1, <1>2, NoneLostChains
  <2>1. x # list
    BY <1>2
  <2>2. \/ first # NoStatic /\ OnChain(next, first, x)
        \/ OnChain(next, list, x)
    BY NoneLostChains DEF ListInv
  <2>3. CASE first # NoStatic /\ OnChain(next, first, x)
    BY <1>1, <1>2, <1>4, <2>1, <2>3, ChainCut
  <2>4. CASE OnChain(next, list, x)
    BY <1>0, <1>1, <1>2, <2>1, <2>4, ChainRest
  <2>5. QED
    BY <2>2, <2>3, <2>4
<1>10. QED
  BY <1>5, <1>6, <1>7, <1>8, <1>9 DEF ListInv

LEMMA RefillStep ==
  ASSUME ListInv, TypeOK', or_else
  PROVE  ListInv'
<1>0. NoStatic \notin Statics
  BY LazyAssumption
<1>1. /\ exit = "refill"
      /\ registration_opened' = (registration_opened /\ first # NoStatic)
      /\ list' = first /\ first' = NoStatic
      /\ exit' = (IF first = NoStatic THEN "ended" ELSE "loop")
      /\ UNCHANGED <<node, next, due>>
  BY DEF or_else, vars
<1>2. /\ node \in [Statics -> {"out", "in", "taken"}] /\ next \in Links
      /\ first \in Statics \cup {NoStatic} /\ list \in Statics /\ node[list] = "taken"
      /\ registration_opened /\ next[list] = NoStatic
  BY <1>1 DEF ListInv, ExitTypeOK, TypeOK, LoopInv, Links
<1>3. ExitTypeOK'
  BY <1>1, <1>2 DEF ListInv, ExitTypeOK
<1>4. ChainsInv'
  BY <1>1 DEF ListInv, ChainsInv
<1>5. DistinctInv'
  BY <1>1 DEF ListInv, DistinctInv
<1>6. LoopInv'
  BY <1>1, <1>2 DEF ListInv, LoopInv, ChainsInv
<1>7. NoneLost'
  <2> SUFFICES ASSUME NEW x \in Statics, node[x] = "in"
               PROVE  first # NoStatic /\ OnChain(next, first, x)
    BY <1>1, <1>2, NoneLostChains
  <2>1. x # list
    BY <1>2
  <2>2. ~OnChain(next, list, x)
    BY <1>0, <1>2, <2>1, ChainRest
  <2>3. QED
    BY <2>2, NoneLostChains DEF ListInv
<1>8. QED
  BY <1>3, <1>4, <1>5, <1>6, <1>7 DEF ListInv
-----------------------------------------------------------------------------
(***************************************************************************)
(* The exit manager performs steps of the lazy sequentializer only.        *)
(***************************************************************************)
LEMMA RegistersFresh ==
  ASSUME ExitInv, NEW t \in Threads, pc[t] = "register"
  PROVE  on[t] \in Statics /\ node[on[t]] = "out" /\ next[on[t]] = NoStatic
<1>1. on[t] \in Statics
  BY WriterAlone DEF ExitInv, writes
<1>2. node[on[t]] = "out"
  BY DEF ExitInv, LazyInv, ThreadsInv, ThreadOK, HoldsOK
<1>3. QED
  BY <1>1, <1>2 DEF ExitInv, ChainsInv

(* The assertion of finalize_at_exit does not fail.                        *)
LEMMA FinalizeAtExit ==
  ASSUME ExitInv, NEW t \in Threads, finalize_at_exit(t)
  PROVE  /\ on[t] \in Statics /\ node[on[t]] = "out" /\ next[on[t]] = NoStatic
         /\ Register(t, IF registration_opened THEN "registered" ELSE "refused")
         /\ first' = IF registration_opened THEN on[t] ELSE first
         /\ next' = IF registration_opened THEN [next EXCEPT ![on[t]] = first] ELSE next
         /\ node' = IF registration_opened THEN [node EXCEPT ![on[t]] = "in"] ELSE node
         /\ UNCHANGED <<registration_opened, list, exit, due>>
<1>1. pc[t] = "register"
  BY DEF finalize_at_exit, Register
<1>2. on[t] \in Statics /\ node[on[t]] = "out" /\ next[on[t]] = NoStatic
  BY <1>1, RegistersFresh
<1>3. /\ Register(t, IF registration_opened THEN "registered" ELSE "refused")
      /\ first' = IF registration_opened THEN on[t] ELSE first
      /\ next' = IF registration_opened THEN [next EXCEPT ![on[t]] = first] ELSE next
      /\ UNCHANGED <<registration_opened, list, exit, due>>
  BY <1>2 DEF finalize_at_exit
<1>4. node' = IF registration_opened THEN [node EXCEPT ![on[t]] = "in"] ELSE node
  BY <1>3 DEF Register, ExitInv, LazyInv, TypeOK
<1>5. QED
  BY <1>2, <1>3, <1>4

LEMMA NextMaps ==
  ASSUME ExitInv, [ExitNext]_allVars
  PROVE  [Next]_vars
<1>1. CASE UNCHANGED allVars
  BY <1>1 DEF allVars
<1>2. CASE execute_at_exit \/ take_next \/ or_else
  BY <1>2 DEF execute_at_exit, take_next, or_else
<1>3. CASE execute
  <2>1. list \in Statics /\ node[list] = "in" /\ ExitThread \in Threads
    BY <1>3, ExitAssumption DEF execute, ExitInv, LoopInv, ExitTypeOK
  <2>2. Finalize(ExitThread, list)
    BY <1>3, <2>1 DEF execute, Finalize
  <2>3. QED
    BY <2>1, <2>2 DEF Next
<1>4. CASE FinalyAborts
  BY <1>4, ExitAssumption DEF FinalyAborts, Next
<1>5. ASSUME NEW t \in Threads, Client(t) PROVE Next
  BY <1>5 DEF Client, Next, Begin
<1>6. ASSUME NEW t \in Threads, Advance(t) PROVE Next
  BY <1>6 DEF Advance, Next
<1>7. ASSUME NEW t \in Threads, finalize_at_exit(t) PROVE Next
  <2> DEFINE a == IF registration_opened THEN "registered" ELSE "refused"
  <2>1. on[t] \in Statics /\ Register(t, a)
    BY <1>7, FinalizeAtExit
  <2>2. a \in Answers(on[t])
    BY <2>1, ExitAssumption DEF Answers
  <2>3. pc[t] = "register"
    BY <2>1 DEF Register
  <2>4. QED
    BY <2>1, <2>2, <2>3 DEF Next
<1>8. QED
  BY <1>1, <1>2, <1>3, <1>4, <1>5, <1>6, <1>7 DEF ExitNext, ExitLoop
-----------------------------------------------------------------------------
(***************************************************************************)
(* Each step preserves the invariant.                                      *)
(***************************************************************************)
LEMMA IdleCallback ==
  ASSUME ExitInv, exit # "executing" \/ pc[ExitThread] = "idle"
  PROVE  /\ \A t \in Threads : op[t] # "finalize_callback"
         /\ ExitThread \in Threads
         /\ exit # "aborted" => \A s \in due :
              "INITIALIZED" \in phase[s] /\ (node[s] = "in" \/ "FINALIZED" \in phase[s])
<1>1. ExitThread \in Threads
  BY ExitAssumption
<1>2. pc[ExitThread] = "idle" => op[ExitThread] = "none"
  BY <1>1 DEF ExitInv, LazyInv, ThreadsInv, ThreadOK, OpOK
<1>3. \A t \in Threads : op[t] # "finalize_callback"
  BY <1>2 DEF ExitInv, CallbackInv
<1>4. QED
  BY <1>1, <1>3 DEF ExitInv, DueInv

(* A thread goes on, or registers.                                         *)
LEMMA ActingStep ==
  ASSUME ExitInv, NEW t \in Threads,
         Proceed(t) \/ \E a \in {"registered", "refused", "panicked"} : Register(t, a),
         \A r \in Statics : node'[r] = node[r] \/ (node[r] = "out" /\ node'[r] = "in"),
         UNCHANGED <<registration_opened, list, exit, due>>
  PROVE  WordInv' /\ CallbackInv' /\ DueInv'
<1>0. LazyInv /\ TypeOK /\ ExitThread \in Threads /\ due \subseteq Statics
  BY ExitAssumption DEF ExitInv, LazyInv, ExitTypeOK
<1>1. Acts(t)
  BY DEF Acts
<1>2. Moves(t)
  BY <1>0, <1>1, ActsMoves
<1>3. WordInv' /\ StaysFinalized
  BY <1>0, <1>1, WordActs DEF ExitInv
<1>4. \A s \in Statics : "INITIALIZED" \in phase[s] => "INITIALIZED" \in phase'[s]
  BY <1>0, <1>1, HistoryActs DEF HistoryOK
<1>5. \/ op'[t] = op[t] /\ on'[t] = on[t]
      \/ /\ op'[t] = "none"
         /\ op[t] = "finalize_callback" =>
              "INITIALIZED" \notin phase[on[t]] \/ "FINALIZED" \in phase'[on[t]]
  BY <1>0, ProceedOp
<1>6. CallbackInv'
  BY <1>2, <1>5 DEF ExitInv, CallbackInv, Moves
<1>7. DueInv'
  <2> SUFFICES ASSUME exit # "aborted", NEW s \in due
               PROVE  /\ "INITIALIZED" \in phase'[s]
                      /\ \/ node'[s] = "in" \/ "FINALIZED" \in phase'[s]
                         \/ op'[ExitThread] = "finalize_callback" /\ on'[ExitThread] = s
    BY DEF ExitInv, DueInv
  <2>1. /\ "INITIALIZED" \in phase[s]
        /\ \/ node[s] = "in" \/ "FINALIZED" \in phase[s]
           \/ op[ExitThread] = "finalize_callback" /\ on[ExitThread] = s
    BY DEF ExitInv, DueInv
  <2>2. s \in Statics
    BY <1>0
  <2>3. CASE node[s] = "in" \/ "FINALIZED" \in phase[s]
    BY <1>3, <1>4, <2>1, <2>2, <2>3 DEF StaysFinalized
  <2>4. CASE op[ExitThread] = "finalize_callback" /\ on[ExitThread] = s
    BY <1>0, <1>2, <1>4, <1>5, <2>1, <2>2, <2>4 DEF Moves
  <2>5. QED
    BY <2>1, <2>3, <2>4
<1>8. QED
  BY <1>3, <1>6, <1>7

LEMMA ClientStep ==
  ASSUME ExitInv, NEW t \in Threads, Client(t)
  PROVE  WordInv' /\ CallbackInv' /\ DueInv' /\ UNCHANGED <<node, exitVars>>
<1>1. t # ExitThread /\ ExitThread \in Threads /\ UNCHANGED exitVars /\ LazyInv /\ TypeOK
  BY ExitAssumption DEF Client, ExitInv, LazyInv
<1>2. PICK s \in Statics : Access(t, s)
  BY DEF Client
<1>3. \A q \in Calls[s] : q \in Operations /\ q # "finalize_callback"
  BY LazyAssumption
<1>4. UNCHANGED <<phase, writers, pending, node>> /\ Moves(t) /\ op'[t] # "finalize_callback"
  BY <1>1, <1>2, <1>3 DEF Access, Call, TryGet, locker, Moves, TypeOK
<1>5. WordInv'
  BY <1>4, WordKept DEF ExitInv
<1>6. CallbackInv'
  BY <1>1, <1>4 DEF ExitInv, CallbackInv, Moves, exitVars
<1>7. DueInv'
  BY <1>1, <1>4 DEF ExitInv, DueInv, Moves, exitVars
<1>8. QED
  BY <1>1, <1>4, <1>5, <1>6, <1>7

(* The steps of execute_at_exit between two calls of finalize_callback.    *)
LEMMA WalkingStep ==
  ASSUME ExitInv, execute_at_exit \/ take_next \/ or_else
  PROVE  WordInv' /\ CallbackInv' /\ DueInv'
<1>1. /\ UNCHANGED <<phase, writers, pending, node, op, on>>
      /\ exit \in {"before", "executing", "refill"}
      /\ exit # "executing" \/ pc[ExitThread] = "idle"
  BY DEF execute_at_exit, take_next, or_else, vars
<1>2. /\ \A t \in Threads : op[t] # "finalize_callback"
      /\ ExitThread \in Threads
      /\ \A s \in due : "INITIALIZED" \in phase[s] /\ (node[s] = "in" \/ "FINALIZED" \in phase[s])
  BY <1>1, IdleCallback
<1>3. WordInv'
  BY <1>1, WordKept DEF ExitInv
<1>4. CallbackInv'
  BY <1>1, <1>2 DEF CallbackInv
<1>5. CASE execute_at_exit
  <2>1. /\ exit = "before" /\ exit' = (IF first = NoStatic THEN "ended" ELSE "loop")
        /\ due' = {s \in Statics : {"INITIALIZED", "REGISTERED"} \subseteq phase[s]}
    BY <1>5 DEF execute_at_exit
  <2>2. list = NoStatic /\ \A s \in Statics : node[s] # "taken"
    BY <2>1 DEF ExitInv, LoopInv
  <2>3. \A s \in due' : "INITIALIZED" \in phase[s] /\ node[s] # "out" /\ s \in Statics
    BY <2>1 DEF ExitInv, WordInv, WordOK
  <2>4. \A s \in due' : node[s] = "in"
    BY <2>2, <2>3 DEF ExitInv, LazyInv, TypeOK
  <2>5. first = NoStatic => due' = {}
    BY <2>2, <2>3, <2>4 DEF ExitInv, NoneLost
  <2>6. QED
    BY <1>1, <1>3, <1>4, <2>1, <2>3, <2>4, <2>5 DEF DueInv
<1>6. CASE take_next \/ or_else
  <2>1. /\ due' = due /\ exit' \in {"refill", "loop", "ended"}
        /\ exit' = "ended" => ~registration_opened'
    BY <1>6 DEF take_next, or_else
  <2>2. QED
    BY <1>1, <1>2, <1>3, <1>4, <2>1 DEF DueInv
<1>7. QED
  BY <1>5, <1>6

LEMMA CallbackStep ==
  ASSUME ExitInv, execute
  PROVE  WordInv' /\ CallbackInv' /\ DueInv'
<1>1. /\ exit = "loop" /\ exit' = "executing" /\ Call(ExitThread, list, "finalize_callback")
      /\ node' = [node EXCEPT ![list] = "taken"]
      /\ UNCHANGED <<list, due, phase, writers, pending>>
  BY DEF execute, Call, locker
<1>2. /\ \A t \in Threads : op[t] # "finalize_callback"
      /\ ExitThread \in Threads
      /\ \A s \in due : "INITIALIZED" \in phase[s] /\ (node[s] = "in" \/ "FINALIZED" \in phase[s])
  BY <1>1, IdleCallback
<1>3. /\ list \in Statics /\ TypeOK /\ due \subseteq Statics
  BY <1>1 DEF ExitInv, ExitTypeOK, LoopInv
<1>4. /\ op'[ExitThread] = "finalize_callback" /\ on'[ExitThread] = list
      /\ \A t \in Threads \ {ExitThread} : op'[t] = op[t]
  BY <1>1, <1>2, <1>3 DEF Call, TypeOK
<1>5. /\ node'[list] = "taken"
      /\ \A r \in Statics \ {list} : node'[r] = node[r]
  BY <1>1, <1>3 DEF TypeOK
<1>6. WordInv'
  BY <1>1, <1>5, WordKept DEF ExitInv
<1>7. CallbackInv'
  BY <1>1, <1>2, <1>4 DEF CallbackInv
<1>8. DueInv'
  BY <1>1, <1>2, <1>3, <1>4, <1>5 DEF DueInv
<1>9. QED
  BY <1>6, <1>7, <1>8

LEMMA AbortStep ==
  ASSUME ExitInv, FinalyAborts
  PROVE  /\ WordInv' /\ CallbackInv' /\ DueInv'
         /\ exit = "executing" /\ exit' = "aborted" /\ UNCHANGED <<node, listVars, due>>
<1>1. /\ FinalyPanics(ExitThread) /\ ExitThread \in Threads /\ LazyInv /\ TypeOK
      /\ exit' = "aborted" /\ UNCHANGED <<node, listVars, due>>
  BY ExitAssumption DEF FinalyAborts, FinalyPanics, ExitInv, LazyInv, listVars
<1>2. op[ExitThread] = "finalize_callback"
  BY <1>1 DEF FinalyPanics, ExitInv, LazyInv, ThreadsInv, ThreadOK, OpOK
<1>3. exit = "executing"
  BY <1>1, <1>2 DEF ExitInv, CallbackInv
<1>4. Acts(ExitThread)
  BY <1>1 DEF Acts
<1>5. WordInv'
  BY <1>1, <1>4, WordActs DEF ExitInv
<1>6. Moves(ExitThread) /\ op'[ExitThread] = "none"
  BY <1>1, <1>4, ActsMoves DEF FinalyPanics, Unwind, Idle, TypeOK
<1>7. CallbackInv'
  BY <1>1, <1>6 DEF ExitInv, CallbackInv, Moves
<1>8. QED
  BY <1>1, <1>3, <1>5, <1>7 DEF DueInv

LEMMA ExitInitInv ==
  ASSUME ExitInit
  PROVE  ExitInv
<1>0. NoStatic \notin Statics
  BY LazyAssumption
<1>1. LazyInv /\ TypeOK
  BY LazyInit DEF ExitInit, LazyInv
<1>2. WordInv
  BY DEF ExitInit, Init, WordInv, WordOK
<1>3. ExitTypeOK
  BY <1>1 DEF ExitInit, ExitTypeOK
<1>4. ChainsInv /\ DistinctInv /\ LoopInv /\ NoneLost
  BY <1>0 DEF ExitInit, Init, ChainsInv, DistinctInv, LoopInv, NoneLost
<1>5. CallbackInv /\ DueInv
  BY DEF ExitInit, Init, CallbackInv, DueInv
<1>6. QED
  BY <1>1, <1>2, <1>3, <1>4, <1>5 DEF ExitInv

LEMMA ExitNextInv ==
  ASSUME ExitInv, DropsAreLocked, [ExitNext]_allVars
  PROVE  ExitInv'
<1>0. ListInv /\ LazyInv
  BY DEF ExitInv, ListInv
<1>1. LazyInv' /\ TypeOK'
  BY <1>0, NextMaps, NextStep DEF LazyInv
<1>2. WordInv' /\ CallbackInv' /\ DueInv' /\ ListInv' => ExitInv'
  BY <1>1 DEF ExitInv, ListInv
<1>3. CASE UNCHANGED allVars
  <2>1. /\ UNCHANGED <<phase, writers, pending, node, op, on, exit, due>> /\ UNCHANGED listVars
    BY <1>3 DEF allVars, vars, exitVars, listVars
  <2>2. WordInv'
    BY <2>1, WordKept DEF ExitInv
  <2>3. ListInv'
    BY <1>0, <1>1, <2>1, QuietStep
  <2>4. UNCHANGED <<list, registration_opened>>
    BY <2>1 DEF listVars
  <2>5. CallbackInv' /\ DueInv'
    BY <2>1, <2>4 DEF ExitInv, CallbackInv, DueInv
  <2>6. QED
    BY <1>2, <2>2, <2>3, <2>5
<1>4. CASE execute_at_exit \/ take_next \/ or_else
  BY <1>0, <1>1, <1>2, <1>4, WalkingStep, BeginExitStep, TakeNextStep, RefillStep
<1>5. CASE execute
  BY <1>0, <1>1, <1>2, <1>5, CallbackStep, ExecuteStep
<1>6. CASE FinalyAborts
  BY <1>0, <1>1, <1>2, <1>6, AbortStep, QuietStep
<1>7. ASSUME NEW t \in Threads, Client(t) PROVE ExitInv'
  <2>1. WordInv' /\ CallbackInv' /\ DueInv' /\ UNCHANGED <<node, exitVars>>
    BY <1>7, ClientStep
  <2>2. ListInv'
    BY <1>0, <1>1, <2>1, QuietStep DEF exitVars, listVars
  <2>3. QED
    BY <1>2, <2>1, <2>2
<1>8. ASSUME NEW t \in Threads, Advance(t) PROVE ExitInv'
  <2>1. Proceed(t) /\ UNCHANGED <<node, first, registration_opened, next, list, exit, due>>
    BY <1>8 DEF Advance, exitVars, Proceed, LockNone, LockRead, LockWrite, TryFails, Generate,
         GeneratorPanics, Release, FinalyReturns
  <2>2. WordInv' /\ CallbackInv' /\ DueInv'
    BY <2>1, ActingStep
  <2>3. ListInv'
    BY <1>0, <1>1, <2>1, QuietStep DEF listVars
  <2>4. QED
    BY <1>2, <2>2, <2>3
<1>9. ASSUME NEW t \in Threads, finalize_at_exit(t) PROVE ExitInv'
  <2>1. /\ on[t] \in Statics /\ node[on[t]] = "out"
        /\ Register(t, IF registration_opened THEN "registered" ELSE "refused")
        /\ first' = IF registration_opened THEN on[t] ELSE first
        /\ next' = IF registration_opened THEN [next EXCEPT ![on[t]] = first] ELSE next
        /\ node' = IF registration_opened THEN [node EXCEPT ![on[t]] = "in"] ELSE node
        /\ UNCHANGED <<registration_opened, list, exit, due>>
    BY <1>9, FinalizeAtExit
  <2>2. \A r \in Statics : node'[r] = node[r] \/ (node[r] = "out" /\ node'[r] = "in")
    BY <1>0, <2>1 DEF LazyInv, TypeOK
  <2>3. WordInv' /\ CallbackInv' /\ DueInv'
    BY <2>1, <2>2, ActingStep
  <2>4. ListInv'
    <3>1. CASE registration_opened
      BY <1>0, <1>1, <2>1, <3>1, PushStep
    <3>2. CASE ~registration_opened
      BY <1>0, <1>1, <2>1, <3>2, QuietStep DEF listVars
    <3>3. QED
      BY <3>1, <3>2
  <2>5. QED
    BY <1>2, <2>3, <2>4
<1>10. QED
  BY <1>3, <1>4, <1>5, <1>6, <1>7, <1>8, <1>9 DEF ExitNext, ExitLoop

(* Whatever is registered while execute_at_exit runs, the two chains of    *)
(* the register are disjoint, without cycles, and hold what is registered  *)
(* and not executed yet.                                                   *)
THEOREM ExitInvariance ==
  ASSUME DropsAreLocked
  PROVE  ExitSpec => []ExitInv
<1>1. ExitInit => ExitInv
  BY ExitInitInv
<1>2. ExitInv /\ [ExitNext]_allVars => ExitInv'
  BY ExitNextInv
<1>3. QED
  BY <1>1, <1>2, PTL DEF ExitSpec

(* The fields of Register, next and the local list hold statics or none.   *)
THEOREM ExitTypeCorrect ==
  ASSUME DropsAreLocked
  PROVE  ExitSpec => []ExitTypeOK
<1>1. ExitInv => ExitTypeOK
  BY DEF ExitInv
<1>2. QED
  BY <1>1, ExitInvariance, PTL

(* finalize_at_exit and execute_at_exit implement the registry that the    *)
(* lazy sequentializer expects: finalize_callback is called on registered  *)
(* statics only, once each.                                                *)
THEOREM ExitRefines ==
  ASSUME DropsAreLocked
  PROVE  ExitSpec => ExitImplementsLazy
<1>1. ExitInit => Init
  BY DEF ExitInit
<1>2. ExitInv /\ [ExitNext]_allVars => [Next]_vars
  BY NextMaps
<1>3. QED
  BY <1>1, <1>2, ExitInvariance, PTL DEF ExitSpec, ExitImplementsLazy, Spec

(* So what holds of the lazy sequentializer with an arbitrary registry     *)
(* holds with the exit manager: accesses are sound while it runs, finaly   *)
(* is called once, assertions hold.                                        *)
THEOREM ExitAccessIsSound ==
  ASSUME DropsAreLocked
  PROVE  ExitSpec => [](AccessSound /\ FinalyOnce /\ AssertionsHold)
<1>1. QED
  BY ExitRefines, AccessIsSound, FinalyAtMostOnce, NoAssertionFails, PTL DEF ExitImplementsLazy

(* No static that is registered, before the exit or while it runs, is lost *)
(* on its way from finalize_at_exit to execute.                            *)
THEOREM NoneIsLost ==
  ASSUME DropsAreLocked
  PROVE  ExitSpec => []NoneLost
<1>1. ExitInv => NoneLost
  BY DEF ExitInv
<1>2. QED
  BY <1>1, ExitInvariance, PTL

(* finalize_at_exit is never called twice for one static, so that the      *)
(* assertion "Double registration of an ExitSequentializer" holds.         *)
THEOREM RegistersOnce ==
  ASSUME DropsAreLocked
  PROVE  ExitSpec => []RegisteredOnce
<1>1. ExitInv => RegisteredOnce
  BY RegistersFresh DEF RegisteredOnce
<1>2. QED
  BY <1>1, ExitInvariance, PTL

(* When execute_at_exit returns, all that was initialized when it began    *)
(* has been finalized.                                                     *)
THEOREM AllDueFinalized ==
  ASSUME DropsAreLocked
  PROVE  ExitSpec => []DueAreFinalized
<1>1. ASSUME ExitInv, exit = "ended", NEW s \in due
      PROVE  "FINALIZED" \in phase[s]
  <2>1. s \in Statics /\ ~registration_opened
    BY <1>1 DEF ExitInv, ExitTypeOK, DueInv
  <2>2. node[s] # "in"
    BY <1>1, <2>1 DEF ExitInv, NoneLost
  <2>3. op[ExitThread] # "finalize_callback"
    BY <1>1, ExitAssumption DEF ExitInv, CallbackInv
  <2>4. QED
    BY <1>1, <2>2, <2>3 DEF ExitInv, DueInv
<1>2. ExitInv => DueAreFinalized
  BY <1>1 DEF DueAreFinalized
<1>3. QED
  BY <1>2, ExitInvariance, PTL
=============================================================================
