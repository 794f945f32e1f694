--------------------------- MODULE DestructorKey ---------------------------
(***************************************************************************)
(* get_key of mod pthread in src/src/exit_sequentializer.rs: the threads   *)
(* agree on one pthread key, which the first of them to need it creates.   *)
(* pthread_key_create gives an unused key, possibly the one whose number   *)
(* is usize::MAX, or fails.                                                *)
(***************************************************************************)
CONSTANTS
  Callers,   \* threads that call get_key
  Keys,      \* the keys of the process, but for the key MAX
  MAX        \* usize::MAX: no key yet, as a value of DESTRUCTOR_KEY

ASSUME KeyAssumption == MAX \notin Keys \cup {"None"} /\ "None" \notin Keys

VARIABLES
  DESTRUCTOR_KEY,
  created,          \* the keys that exist
  at, lk,           \* where each caller is, and its local lk
  key               \* what get_key has returned to it: MAX until it returns, or None

keyVars == <<DESTRUCTOR_KEY, created, at, lk, key>>

KeyTypeOK ==
  /\ DESTRUCTOR_KEY \in Keys \cup {MAX}
  /\ created \subseteq Keys
  /\ at \in [Callers -> {"out", "create", "exchange", "reload"}]
  /\ lk \in [Callers -> Keys \cup {MAX}]
  /\ key \in [Callers -> Keys \cup {MAX, "None"}]

KeyInit ==
  /\ DESTRUCTOR_KEY = MAX
  /\ created = {}
  /\ at = [c \in Callers |-> "out"]
  /\ lk = [c \in Callers |-> MAX]
  /\ key = [c \in Callers |-> MAX]
-----------------------------------------------------------------------------
Return(c, k) ==
  /\ at' = [at EXCEPT ![c] = "out"]
  /\ lk' = [lk EXCEPT ![c] = MAX]
  /\ key' = [key EXCEPT ![c] = k]

LoadKey(c) ==
  /\ at[c] = "out" /\ key[c] = MAX
  /\ \/ DESTRUCTOR_KEY # MAX /\ Return(c, DESTRUCTOR_KEY)
     \/ DESTRUCTOR_KEY = MAX /\ at' = [at EXCEPT ![c] = "create"] /\ UNCHANGED <<lk, key>>
  /\ UNCHANGED <<DESTRUCTOR_KEY, created>>

(* pthread_key_create.  A key MAX could not be told from no key: it is     *)
(* deleted before any other thread hears of it, and the loop goes on.      *)
CreateKey(c) ==
  /\ at[c] = "create"
  /\ \/ LET k == CHOOSE k \in Keys \ created : TRUE
        IN /\ created # Keys
           /\ created' = created \cup {k}
           /\ lk' = [lk EXCEPT ![c] = k]
           /\ at' = [at EXCEPT ![c] = "exchange"]
     \/ lk' = [lk EXCEPT ![c] = MAX] /\ UNCHANGED <<created, at>>
     \/ at' = [at EXCEPT ![c] = "reload"] /\ UNCHANGED <<created, lk>>
  /\ UNCHANGED <<DESTRUCTOR_KEY, key>>

ReloadKey(c) ==
  /\ at[c] = "reload"
  /\ Return(c, IF DESTRUCTOR_KEY = MAX THEN "None" ELSE DESTRUCTOR_KEY)
  /\ UNCHANGED <<DESTRUCTOR_KEY, created>>

ExchangeKeeps(c) ==   \* mutant: the key that lost the race is not deleted
  /\ at[c] = "exchange"
  /\ \/ /\ DESTRUCTOR_KEY = MAX
        /\ DESTRUCTOR_KEY' = lk[c]
        /\ at' = [at EXCEPT ![c] = "create"]
        /\ UNCHANGED <<lk, key>>
     \/ DESTRUCTOR_KEY # MAX /\ Return(c, DESTRUCTOR_KEY) /\ UNCHANGED DESTRUCTOR_KEY
  /\ UNCHANGED created

(* compare_exchange returns the old value in either case: the winner of    *)
(* the race goes round the loop once more, with a key it will delete.      *)
ExchangeKey(c) ==
  /\ at[c] = "exchange"
  /\ \/ /\ DESTRUCTOR_KEY = MAX
        /\ DESTRUCTOR_KEY' = lk[c]
        /\ at' = [at EXCEPT ![c] = "create"]
        /\ UNCHANGED <<created, lk, key>>
     \/ /\ DESTRUCTOR_KEY # MAX
        /\ created' = created \ {lk[c]}
        /\ Return(c, DESTRUCTOR_KEY)
        /\ UNCHANGED DESTRUCTOR_KEY

(* The caller uses the key, and may call get_key again.                    *)
UseKey(c) == key[c] # MAX /\ key' = [key EXCEPT ![c] = MAX] /\ UNCHANGED <<DESTRUCTOR_KEY, created, at, lk>>

get_key(c) == LoadKey(c) \/ CreateKey(c) \/ ReloadKey(c) \/ ExchangeKey(c)
-----------------------------------------------------------------------------
(* All threads are given the same key, which exists, and when nobody is in *)
(* get_key no other key is left, although the winner creates two.          *)
OneKey ==
  /\ \A c \in Callers : key[c] \in Keys => key[c] = DESTRUCTOR_KEY /\ key[c] \in created
  /\ (\A c \in Callers : at[c] = "out") => created \subseteq {DESTRUCTOR_KEY}
=============================================================================
