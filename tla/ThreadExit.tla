----------------------------- MODULE ThreadExit -----------------------------
(***************************************************************************)
(* Thread-local statics that are finalized when their thread exits: mod    *)
(* local_manager of src/src/exit_sequentializer.rs with its three back     *)
(* ends, on top of the thread-local lazies.  One thread registers and      *)
(* exits; other threads only meet it in get_key.                           *)
(*                                                                         *)
(* What the system calls at the exit of a thread is external: windows      *)
(* calls destroy once; __cxa_thread_atexit_impl calls what was registered  *)
(* with it until nothing is left; pthread looks at each key once in a      *)
(* round, clears it and calls its destructor, for a limited number of      *)
(* rounds, and does so only in threads that are not the main thread, where *)
(* a destructor of the crate takes its place.  Destructors of other code   *)
(* run before, between and after, and access statics too.                  *)
(***************************************************************************)
EXTENDS UnSyncPhaseLocker, DestructorKey

CONSTANTS
  Self,         \* this thread, among the Callers of get_key
  Iterations,   \* _POSIX_THREAD_DESTRUCTOR_ITERATIONS
  MaxForeign,   \* bound: calls by destructors of other code
  Backends

ASSUME ThreadExitAssumption ==
  /\ Self \in Callers
  /\ Iterations \in Nat \ {0} /\ MaxForeign \in Nat
  /\ Backends \subseteq {"windows", "cxa", "pthread"}

VARIABLES
  backend,
  how,               \* "thread" or "process" exit
  stage,             \* alive; exiting, in other destructors, or in the walk; over
  REGISTER, next,    \* the intrusive list
  list,              \* the local o_ptr, o_r, opt_head of the walk
  executing,         \* list.execute() has been called
  DONE,              \* windows
  DESTROYING,        \* cxa
  atexit,            \* calls of execute_destroy that cxa still has to make
  specific,          \* pthread_getspecific(key) is not null
  ITERATION_COUNT,
  round, visited,    \* the round of pthread, and whether it has passed the key
  foreign,           \* calls by destructors of other code
  due                \* history: what has to be finalized

exitVars == <<backend, how, stage, REGISTER, next, list, executing, DONE, DESTROYING, atexit,
              specific, ITERATION_COUNT, round, visited, foreign, due>>
walkVars == <<list, executing>>
osVars == <<round, visited, foreign, due>>
allVars == <<vars, unsyncVars, keyVars, exitVars>>

ThreadTypeOK ==
  /\ UnSyncTypeOK /\ KeyTypeOK
  /\ backend \in Backends
  /\ how \in {"none", "thread", "process"}
  /\ stage \in {"alive", "other", "walk", "over", "aborted"}
  /\ REGISTER \in Statics \cup {NoStatic}
  /\ next \in [Statics -> Statics \cup {NoStatic}]
  /\ list \in Statics \cup {NoStatic}
  /\ {executing, DONE, DESTROYING, specific, visited} \subseteq BOOLEAN
  /\ atexit \in Nat
  /\ ITERATION_COUNT \in 0..Iterations
  /\ round \in 0..Iterations
  /\ foreign \in 0..MaxForeign
  /\ due \subseteq Statics

ThreadInit ==
  /\ UnSyncInit /\ KeyInit
  /\ backend \in Backends
  /\ how = "none" /\ stage = "alive"
  /\ REGISTER = NoStatic /\ next = [s \in Statics |-> NoStatic]
  /\ list = NoStatic /\ executing = FALSE
  /\ DONE = FALSE /\ DESTROYING = FALSE /\ atexit = 0
  /\ specific = FALSE /\ ITERATION_COUNT = 0 /\ round = 0 /\ visited = FALSE
  /\ foreign = 0 /\ due = {}
-----------------------------------------------------------------------------
(***************************************************************************)
(* finalize_at_thread_exit of each back end.                               *)
(***************************************************************************)
Refuse(k) ==
  /\ Register(k, "refused") /\ SetCell(k)
  /\ UNCHANGED <<REGISTER, next, atexit, specific, ITERATION_COUNT>>

Push(k) ==
  /\ Register(k, "registered") /\ SetCell(k)
  /\ REGISTER' = on[k]
  /\ next' = [next EXCEPT ![on[k]] = IF backend = "cxa" /\ REGISTER = NoStatic THEN @ ELSE REGISTER]

RegisterWindows(k) ==
  /\ backend = "windows" /\ pc[k] = "register"
  /\ \/ DONE /\ Refuse(k)
     \/ ~DONE /\ Push(k) /\ UNCHANGED <<atexit, specific, ITERATION_COUNT>>
  /\ UNCHANGED keyVars

RegisterCxa(k) ==
  /\ backend = "cxa" /\ pc[k] = "register"
  /\ Push(k)
  /\ atexit' = IF REGISTER = NoStatic /\ ~DESTROYING THEN atexit + 1 ELSE atexit
  /\ UNCHANGED <<keyVars, specific, ITERATION_COUNT>>

iterations_too_many == ITERATION_COUNT <= Iterations   \* mutant: off by one
iterations_left == ITERATION_COUNT < Iterations

(* register_on_thread_exit, with the key that get_key has returned.        *)
(* pthread_setspecific may fail.  A bound: the calls of get_key by other   *)
(* threads that overlap with this one have ended.                          *)
RegisterPthread(k) ==
  /\ backend = "pthread" /\ pc[k] = "register" /\ key[Self] # MAX
  /\ \/ /\ \/ key[Self] = "None"
           \/ ~specific
        /\ Refuse(k)
     \/ /\ key[Self] # "None" /\ (specific \/ iterations_left)
        /\ Push(k)
        /\ specific' = TRUE
        /\ ITERATION_COUNT' = IF specific THEN ITERATION_COUNT ELSE ITERATION_COUNT + 1
        /\ UNCHANGED atexit
  /\ \A c \in Callers \ {Self} : at[c] = "out" /\ key[c] = MAX
  /\ UseKey(Self)

finalize_at_thread_exit(k) ==
  /\ RegisterWindows(k) \/ RegisterCxa(k) \/ RegisterPthread(k)
  /\ UNCHANGED <<backend, how, stage, walkVars, DONE, DESTROYING, osVars, base>>

(* This thread is in get_key, and others may be.                           *)
GetKey(c) ==
  /\ backend = "pthread" /\ Open # {} /\ pc[Top] = "register"
  /\ \/ (c # Self => key[Self] = MAX \/ at[c] # "out") /\ get_key(c)
     \/ c # Self /\ UseKey(c)
  /\ UNCHANGED <<vars, unsyncVars, exitVars>>
-----------------------------------------------------------------------------
(***************************************************************************)
(* The exit of the thread.                                                 *)
(***************************************************************************)
Exit(h) ==
  /\ stage = "alive"
  /\ h = "thread" => Open = {}
  /\ h = "process" => (Open = {} \/ InForeignCode) /\ Top < MaxDepth
  /\ how' = h /\ stage' = "other" /\ round' = 1
  /\ base' = Top
  /\ due' = {s \in Statics : {"INITIALIZED", "REGISTERED"} \subseteq phase[s]}
  /\ UNCHANGED <<vars, cell, keyVars, backend, REGISTER, next, walkVars, DONE, DESTROYING, atexit,
                 specific, ITERATION_COUNT, visited, foreign>>

(* The system calls destroy or execute_destroy.                            *)
Called ==
  \/ /\ backend = "windows" /\ ~visited
     /\ visited' = TRUE
     /\ UNCHANGED <<DESTROYING, atexit, specific>>
  \/ /\ backend = "cxa" /\ atexit > 0
     /\ atexit' = atexit - 1 /\ DESTROYING' = TRUE
     /\ UNCHANGED <<visited, specific>>
  \/ /\ backend = "pthread" /\ ~visited /\ (how = "thread" => specific)
     /\ visited' = TRUE /\ specific' = (specific /\ how = "process")
     /\ UNCHANGED <<DESTROYING, atexit>>

execute_destroy ==
  /\ stage = "other" /\ Open = {}
  /\ Called
  /\ list' = REGISTER /\ REGISTER' = NoStatic
  /\ stage' = "walk"
  /\ UNCHANGED <<vars, unsyncVars, keyVars, backend, how, next, executing, DONE,
                 ITERATION_COUNT, round, foreign, due>>

(* r.execute() calls finalize_callback.                                    *)
execute ==
  /\ stage = "walk" /\ list # NoStatic /\ ~executing /\ base < MaxDepth
  /\ Call(base + 1, list, "finalize_callback")
  /\ node' = [node EXCEPT ![list] = "taken"]
  /\ executing' = TRUE
  /\ UNCHANGED <<unsyncVars, keyVars, backend, how, stage, REGISTER, next, list, DONE, DESTROYING,
                 atexit, specific, ITERATION_COUNT, osVars>>

take_next_first ==   \* mutant: what registered meanwhile comes first, and the rest is lost
  /\ stage = "walk" /\ executing /\ Open = {}
  /\ list' = IF REGISTER = NoStatic THEN next[list] ELSE REGISTER
  /\ next' = [next EXCEPT ![list] = NoStatic]
  /\ REGISTER' = NoStatic
  /\ executing' = FALSE
  /\ UNCHANGED <<vars, unsyncVars, keyVars, backend, how, stage, DONE, DESTROYING,
                 atexit, specific, ITERATION_COUNT, osVars>>

(* r.take_next().or_else(|| REGISTER.take()).  On windows the result of    *)
(* or_else is not assigned: what registered meanwhile is taken and lost.   *)
take_next ==
  LET last == next[list] = NoStatic
  IN /\ stage = "walk" /\ executing /\ Open = {}
     /\ list' = IF last /\ backend # "windows" THEN REGISTER ELSE next[list]
     /\ next' = [next EXCEPT ![list] = NoStatic]
     /\ REGISTER' = IF last THEN NoStatic ELSE REGISTER
     /\ executing' = FALSE
     /\ UNCHANGED <<vars, unsyncVars, keyVars, backend, how, stage, DONE, DESTROYING,
                    atexit, specific, ITERATION_COUNT, osVars>>

EndWalk ==
  /\ stage = "walk" /\ list = NoStatic
  /\ stage' = "other"
  /\ DONE' = (DONE \/ backend = "windows")
  /\ DESTROYING' = FALSE
  /\ UNCHANGED <<vars, unsyncVars, keyVars, backend, how, REGISTER, next, walkVars, atexit,
                 specific, ITERATION_COUNT, osVars>>

(* pthread passes the key when it is null, and goes on to the next round   *)
(* while this key or another one is not null.                              *)
PassKey ==
  /\ backend = "pthread" /\ how = "thread" /\ stage = "other" /\ Open = {}
  /\ \/ ~visited /\ ~specific /\ visited' = TRUE /\ UNCHANGED round
     \/ visited /\ round < Iterations /\ visited' = FALSE /\ round' = round + 1
  /\ UNCHANGED <<vars, unsyncVars, keyVars, backend, how, stage, REGISTER, next, walkVars, DONE,
                 DESTROYING, atexit, specific, ITERATION_COUNT, foreign, due>>

ThreadOver ==
  /\ stage = "other" /\ Open = {}
  /\ CASE backend = "cxa" -> atexit = 0
       [] backend = "windows" -> visited
       [] backend = "pthread" -> visited /\ (how = "thread" /\ specific => round = Iterations)
  /\ stage' = "over"
  /\ UNCHANGED <<vars, unsyncVars, keyVars, backend, how, REGISTER, next, walkVars, DONE, DESTROYING,
                 atexit, specific, ITERATION_COUNT, osVars>>
-----------------------------------------------------------------------------
(***************************************************************************)
(* The calls of the thread.                                                *)
(***************************************************************************)

(* The checkers of thread-locals (InitializedSoftFinalizedTLChecker and    *)
(* its like) take it that registration always succeeds where cxa is used.  *)
built(s) == Tolerance[s].REG_ALWAYS <=> backend = "cxa"

(* Code at the bottom of the stack runs while the thread is alive, and as  *)
(* other destructors while it exits.                                       *)
Client(s) ==
  /\ built(s)
  /\ \/ InForeignCode /\ UNCHANGED foreign
     \/ Open = {} /\ stage = "alive" /\ UNCHANGED foreign
     \/ Open = {} /\ stage = "other" /\ foreign < MaxForeign /\ foreign' = foreign + 1
  /\ Enter(s)
  /\ UNCHANGED <<base, keyVars, backend, how, stage, REGISTER, next, walkVars, DONE, DESTROYING, atexit,
                 specific, ITERATION_COUNT, round, visited, due>>

Guards(k) ==
  /\ \/ DropGuard(k)
     \/ InForeignCode /\ k \in Open /\ (CloneGuard(k) \/ ConvertGuard(k))
  /\ UNCHANGED <<base, keyVars, exitVars>>

(* The latest call goes on; a panic that reaches execute, which is called  *)
(* from an extern "C" function, ends the process.                          *)
Advance ==
  /\ Open # {}
  /\ LET k == Top
     IN \/ /\ Lock(k) \/ TryLockFails(k) \/ AnswerPrimed(k) \/ EndGenerator(k) \/ EndFinaly(k)
           /\ UNCHANGED <<base, keyVars, exitVars>>
        \/ /\ LockPanics(k)
           /\ stage' = IF op[k] = "finalize_callback" THEN "aborted" ELSE stage
           /\ UNCHANGED <<base, keyVars, backend, how, REGISTER, next, walkVars, DONE, DESTROYING,
                          atexit, specific, ITERATION_COUNT, osVars>>
        \/ finalize_at_thread_exit(k)

FinalyAborts ==
  /\ Open # {} /\ FinalyPanics(Top) /\ SetCell(Top)
  /\ stage' = "aborted"
  /\ UNCHANGED <<base, keyVars, backend, how, REGISTER, next, walkVars, DONE, DESTROYING,
                 atexit, specific, ITERATION_COUNT, osVars>>

UserCode == (\E s \in Statics : Client(s)) \/ (\E k \in Threads : Guards(k))
System == execute_destroy \/ execute \/ take_next \/ EndWalk \/ PassKey \/ ThreadOver

Ended == stage \in {"over", "aborted"} /\ UNCHANGED allVars

ThreadNext ==
  \/ Ended
  \/ /\ stage \notin {"over", "aborted"}
     /\ \/ \E h \in {"thread", "process"} : Exit(h)
        \/ System \/ UserCode \/ Advance \/ FinalyAborts
        \/ \E c \in Callers : GetKey(c)

ThreadSpec == ThreadInit /\ [][ThreadNext]_allVars
-----------------------------------------------------------------------------
(***************************************************************************)
(* Properties.                                                             *)
(***************************************************************************)

(* What was initialized and registered when the thread began to exit is    *)
(* finalized when it has exited.  With cxa nothing that is registered      *)
(* later, while the list is walked or by the destructors of other code, is *)
(* forgotten either.  With pthread the same holds of what is registered    *)
(* while the list is walked: ITERATION_COUNT refuses a registration rather *)
(* than lose it.  (Other destructors may register in the last round when   *)
(* the key has been passed, and on windows what is registered during the   *)
(* walk is lost.)                                                          *)
ThreadNoneLost ==
  stage = "over" =>
    /\ \A s \in due : "FINALIZED" \in phase[s]
    /\ \/ backend = "cxa"
       \/ backend = "pthread" /\ how = "thread" /\ foreign = 0
       => \A s \in Statics : node[s] # "in"
=============================================================================
