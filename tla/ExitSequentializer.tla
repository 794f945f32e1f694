------------------------- MODULE ExitSequentializer -------------------------
(***************************************************************************)
(* Statics that are finalized at program exit: mod exit_manager of         *)
(* src/src/exit_sequentializer.rs, on top of the lazy sequentializer.      *)
(*                                                                         *)
(* The closure reg is finalize_at_exit, which pushes the static onto an    *)
(* intrusive list; execute_at_exit, a destructor, runs in ExitThread while *)
(* the other threads go on.  Each holding of the mutex REGISTER is one     *)
(* step: the mutex of a node is only taken alone or while holding it.      *)
(* A generator or a finaly that uses another static behaves like one more  *)
(* thread of the model.                                                    *)
(***************************************************************************)
EXTENDS LazySequentializer

CONSTANT ExitThread

ASSUME ExitAssumption ==
  /\ ExitThread \in Threads
  /\ \A s \in Statics : Kind[s] # "plain" /\ ~Tolerance[s].REG_ALWAYS

VARIABLES
  first,                \* Register::first
  registration_opened,  \* Register::registration_opened
  next,                 \* ExitSequentializerBase::next of each static
  list,                 \* the local `list` of execute_at_exit
  exit,                 \* where execute_at_exit is
  due                   \* history: the statics it has to finalize

exitVars == <<first, registration_opened, next, list, exit, due>>
allVars == <<vars, exitVars>>

ExitTypeOK ==
  /\ TypeOK
  /\ first \in Statics \cup {NoStatic}
  /\ registration_opened \in BOOLEAN
  /\ next \in [Statics -> Statics \cup {NoStatic}]
  /\ list \in Statics \cup {NoStatic}
  /\ exit \in {"before", "loop", "executing", "refill", "ended", "aborted"}
  /\ due \subseteq Statics

ExitInit ==
  /\ Init
  /\ first = NoStatic /\ registration_opened = TRUE
  /\ next = [s \in Statics |-> NoStatic]
  /\ list = NoStatic /\ exit = "before" /\ due = {}
-----------------------------------------------------------------------------
finalize_unlinked(t) ==   \* mutant: the rest of the list is not linked
  /\ Register(t, IF registration_opened THEN "registered" ELSE "refused")
  /\ first' = IF registration_opened THEN on[t] ELSE first
  /\ UNCHANGED <<registration_opened, next, list, exit, due>>

(* finalize_at_exit.  The assertion catches a second registration only     *)
(* while the node has a successor.                                         *)
finalize_at_exit(t) ==
  LET s == on[t]
      answer == IF ~registration_opened THEN "refused"
                ELSE IF next[s] = NoStatic THEN "registered" ELSE "panicked"
  IN /\ Register(t, answer)
     /\ first' = IF answer = "registered" THEN s ELSE first
     /\ next' = IF answer = "registered" THEN [next EXCEPT ![s] = first] ELSE next
     /\ UNCHANGED <<registration_opened, list, exit, due>>

(* execute_at_exit up to its loop.                                         *)
execute_at_exit ==
  /\ exit = "before"
  /\ list' = first /\ first' = NoStatic
  /\ exit' = IF first = NoStatic THEN "ended" ELSE "loop"
  /\ due' = {s \in Statics : {"INITIALIZED", "REGISTERED"} \subseteq phase[s]}
  /\ UNCHANGED <<vars, registration_opened, next>>

(* on_exit.execute() calls finalize_callback.                              *)
execute ==
  /\ exit = "loop"
  /\ Call(ExitThread, list, "finalize_callback")
  /\ node' = [node EXCEPT ![list] = "taken"]
  /\ exit' = "executing"
  /\ UNCHANGED <<first, registration_opened, next, list, due>>

take_next_stops ==   \* mutant: the list ends after its first node
  /\ exit = "executing" /\ pc[ExitThread] = "idle"
  /\ exit' = "refill"
  /\ UNCHANGED <<vars, first, registration_opened, next, list, due>>

take_next ==
  /\ exit = "executing" /\ pc[ExitThread] = "idle"
  /\ next' = [next EXCEPT ![list] = NoStatic]
  /\ list' = IF next[list] = NoStatic THEN list ELSE next[list]
  /\ exit' = IF next[list] = NoStatic THEN "refill" ELSE "loop"
  /\ UNCHANGED <<vars, first, registration_opened, due>>

or_else_peeks ==   \* mutant: the head is not taken
  /\ exit = "refill"
  /\ list' = first
  /\ exit' = IF first = NoStatic THEN "ended" ELSE "loop"
  /\ UNCHANGED <<vars, first, registration_opened, next, due>>

(* The list is exhausted: what was registered meanwhile comes next, and    *)
(* when nothing was, registration is closed.                               *)
or_else ==
  /\ exit = "refill"
  /\ registration_opened' = (registration_opened /\ first # NoStatic)
  /\ list' = first /\ first' = NoStatic
  /\ exit' = IF first = NoStatic THEN "ended" ELSE "loop"
  /\ UNCHANGED <<vars, next, due>>

(* A panic of finaly reaches the frame of an extern "C" function: the      *)
(* process is aborted, and the statics left are not finalized.             *)
FinalyAborts ==
  /\ FinalyPanics(ExitThread)
  /\ exit' = "aborted"
  /\ UNCHANGED <<first, registration_opened, next, list, due>>

Client(t) == t # ExitThread /\ (\E s \in Statics : Access(t, s)) /\ UNCHANGED exitVars

Advance(t) == Proceed(t) /\ UNCHANGED exitVars

ExitLoop == execute_at_exit \/ execute \/ take_next \/ or_else

ExitNext ==
  /\ exit # "aborted"
  /\ \/ ExitLoop \/ FinalyAborts
     \/ \E t \in Threads : Client(t) \/ Advance(t) \/ finalize_at_exit(t)

ExitSpec == ExitInit /\ [][ExitNext]_allVars

(* Threads are scheduled, generators and finaly return or panic, and guards*)
(* are dropped.  The locker serves the writer that finalizes: readers that *)
(* come and go do not starve it, for a waiting writer takes the lock while *)
(* readers remain or is handed it by the last one (raw_lock_slow and       *)
(* transfer_lock of sync.rs; SleepersWake in SyncPhaseLocker).             *)
ExitFairSpec ==
  /\ ExitSpec
  /\ WF_allVars(exit # "aborted" /\ ExitLoop)
  /\ \A t \in Threads : WF_allVars(exit # "aborted" /\ (Advance(t) \/ finalize_at_exit(t)))
  /\ []<>(exit = "aborted" \/ pc[ExitThread] # "lock")
-----------------------------------------------------------------------------
(***************************************************************************)
(* Properties.                                                             *)
(***************************************************************************)

(* The exit manager is a registry such as the sequentializer expects: each *)
(* registration leads to at most one call of finalize_callback, on a       *)
(* static that is registered, whatever is registered while the list is     *)
(* being executed.  All that holds of LazySequentializer holds here.       *)
ExitImplementsLazy == Spec

(* s is in the list that starts at a: it belongs to every set of statics   *)
(* that contains a and is closed under next.                               *)
Reaches(a, s) ==
  \A C \in SUBSET Statics :
    a \in C /\ (\A x \in C : next[x] \in C \cup {NoStatic}) => s \in C

(* No registered static is lost: until finalize_callback is called on it,  *)
(* it is in the list of REGISTER or in the one being executed; and when    *)
(* registration has been closed there is none left.                        *)
NoneLost ==
  \A s \in Statics : node[s] = "in" =>
    /\ registration_opened
    /\ \/ first # NoStatic /\ Reaches(first, s)
       \/ list # NoStatic /\ Reaches(list, s)

(* A static is registered once: "Double registration of an                 *)
(* ExitSequentializer" never happens, not even for the last node of the    *)
(* list, for which the assertion would not notice it.                      *)
RegisteredOnce ==
  \A t \in Threads : pc[t] = "register" => node[on[t]] = "out" /\ next[on[t]] = NoStatic

(* Every static that was initialized when the program began to exit is     *)
(* finalized when execute_at_exit returns.                                 *)
DueAreFinalized ==
  exit = "ended" => \A s \in due : "FINALIZED" \in phase[s]

(* execute_at_exit returns although statics go on being registered by      *)
(* other threads, by generators and by finaly while it runs.               *)
ExitEnds == (exit = "loop") ~> (exit \in {"ended", "aborted"})
=============================================================================
