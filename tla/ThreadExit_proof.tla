-------------------------- MODULE ThreadExit_proof --------------------------
(***************************************************************************)
(* Proofs about ThreadExit and what it is made of: the agreement on one    *)
(* pthread key (DestructorKey), the Cell of the thread-local locker        *)
(* (UnSyncPhaseLocker), the accesses to thread-local statics, and the list *)
(* that each of the three back ends walks.                                 *)
(***************************************************************************)
EXTENDS ThreadExit, LazySequentializer_proof, FiniteSetTheorems

(***************************************************************************)
(* get_key.                                                                *)
(***************************************************************************)

(* A key that a caller is about to publish exists, is nobody else's and is *)
(* not the published one; there are no other keys.                         *)
exchanging == {c \in Callers : at[c] = "exchange"}

KeyInv ==
  /\ KeyTypeOK
  /\ DESTRUCTOR_KEY # MAX => DESTRUCTOR_KEY \in created
  /\ \A c \in exchanging : lk[c] \in created /\ lk[c] # DESTRUCTOR_KEY
  /\ \A c, d \in exchanging : lk[c] = lk[d] => c = d
  /\ \A k \in created : k = DESTRUCTOR_KEY \/ \E c \in exchanging : lk[c] = k
  /\ \A c \in Callers : key[c] \in Keys => key[c] = DESTRUCTOR_KEY
-----------------------------------------------------------------------------
(***************************************************************************)
(* The calls and the list.                                                 *)
(***************************************************************************)

(* The Cell counts the guards.                                             *)
units(w, r) == IF w # {} THEN LOCKED_BIT ELSE Cardinality(r)
CellInv == cell = [s \in Statics |-> units(writers[s], readers[s])]

(* The checkers of the statics in use are those of the back end.           *)
BuiltInv ==
  /\ \A k \in Threads : on[k] # NoStatic => built(on[k])
  /\ \A s \in Statics : node[s] = "in" => built(s)

(* The chains that start at REGISTER and at list.                          *)
ChainsInv ==
  /\ REGISTER # NoStatic => node[REGISTER] = "in"
  /\ \A x \in Statics : next[x] # NoStatic => node[next[x]] = "in"
  /\ \A x \in Statics : node[x] = "out" => next[x] = NoStatic
  /\ \A x \in Statics : node[x] = "taken" /\ next[x] # NoStatic => executing /\ x = list
  /\ list # NoStatic => node[list] = IF executing THEN "taken" ELSE "in"

DistinctInv ==
  /\ \A x, y \in Statics : next[x] = next[y] /\ next[x] # NoStatic => x = y
  /\ \A x \in Statics : next[x] # NoStatic =>
       next[x] # REGISTER /\ (~executing => next[x] # list)
  /\ list # NoStatic /\ ~executing => list # REGISTER

OnList(s) == list # NoStatic /\ OnChain(next, list, s)
OnRegister(s) == REGISTER # NoStatic /\ OnChain(next, REGISTER, s)

(* All that is registered is on them; on windows only until the thread     *)
(* exits.                                                                  *)
CoverInv ==
  backend # "windows" \/ stage = "alive" =>
    \A s \in Statics : node[s] = "in" => OnRegister(s) \/ OnList(s)

(* Where the thread is in its exit.                                        *)
StageInv ==
  /\ stage \in {"alive", "other", "over"} => list = NoStatic /\ ~DESTROYING
  /\ executing => list # NoStatic
  /\ stage = "alive" => ~visited /\ due = {} /\ foreign = 0 /\ \A s \in Statics : node[s] # "taken"
  /\ stage = "walk" /\ ~executing => Open = {}
  /\ stage = "other" /\ foreign = 0 => Open = {}
  /\ stage = "walk" /\ list = NoStatic /\ backend # "windows" => REGISTER = NoStatic
  /\ stage \in {"walk", "over"} => visited \/ backend = "cxa"
  /\ stage = "over" /\ backend = "cxa" => REGISTER = NoStatic

(* While something is registered, the system will call.                    *)
CalledInv ==
  REGISTER # NoStatic =>
    /\ backend = "cxa" /\ stage \in {"alive", "other"} => atexit > 0
    /\ backend = "pthread" => specific
    /\ backend = "pthread" /\ stage \in {"other", "over"} /\ foreign = 0 => ~visited

(* finalize_callback is called by the walk alone.                          *)
CallbackInv ==
  \A k \in Threads : op[k] = "finalize_callback" =>
    k > base /\ stage = "walk" /\ executing /\ on[k] = list

Waiting(s) ==
  /\ node[s] = "in"
  /\ backend # "cxa" => OnList(s) \/ (stage = "other" /\ ~visited /\ OnRegister(s))

(* What is due waits for its finalization, is being finalized or has been. *)
DueInv ==
  stage # "aborted" => \A s \in due :
    /\ "INITIALIZED" \in phase[s]
    /\ \/ Waiting(s) \/ "FINALIZED" \in phase[s]
       \/ \E k \in Threads : op[k] = "finalize_callback" /\ on[k] = s

ListInv == ChainsInv /\ DistinctInv /\ CoverInv

(* The part of ThreadTypeOK that the others do not imply.                  *)
PlaceTypeOK ==
  /\ base \in 0..MaxDepth
  /\ backend \in Backends /\ how \in {"none", "thread", "process"}
  /\ stage \in {"alive", "other", "walk", "over", "aborted"}
  /\ REGISTER \in Statics \cup {NoStatic} /\ list \in Statics \cup {NoStatic}
  /\ next \in Links
  /\ {executing, DONE, DESTROYING, specific, visited} \subseteq BOOLEAN
  /\ atexit \in Nat /\ ITERATION_COUNT \in 0..Iterations /\ round \in 0..Iterations
  /\ foreign \in 0..MaxForeign /\ due \subseteq Statics

(* Where the thread, its calls and its list are.                           *)
PlaceInv ==
  /\ PlaceTypeOK /\ BuiltInv /\ ListInv /\ StageInv /\ CalledInv /\ CallbackInv /\ DueInv

(* The inductive invariant.                                                *)
ThreadInv == LazyInv /\ WordInv /\ KeyInv /\ CellInv /\ PlaceInv
-----------------------------------------------------------------------------
(***************************************************************************)
(* One key.                                                                *)
(***************************************************************************)
LEMMA KeyReturn ==
  ASSUME KeyInv, NEW c \in Callers, NEW k, Return(c, k), k = "None" \/ k = DESTRUCTOR_KEY,
         UNCHANGED DESTRUCTOR_KEY,
         \/ UNCHANGED created /\ at[c] # "exchange"
         \/ created' = created \ {lk[c]} /\ at[c] = "exchange"
  PROVE  KeyInv'
<1>0. MAX \notin Keys /\ "None" \notin Keys
  BY KeyAssumption
<1>1. KeyTypeOK
  BY DEF KeyInv
<1>2. /\ at' = [at EXCEPT ![c] = "out"] /\ lk' = [lk EXCEPT ![c] = MAX] /\ key' = [key EXCEPT ![c] = k]
  BY DEF Return
<1>3. KeyTypeOK'
  BY <1>1, <1>2 DEF KeyTypeOK
<1>4. exchanging' = exchanging \ {c} /\ \A d \in exchanging' : lk'[d] = lk[d]
  BY <1>1, <1>2 DEF KeyTypeOK, exchanging
<1>5. \A d \in Callers : key'[d] = IF d = c THEN k ELSE key[d]
  BY <1>1, <1>2 DEF KeyTypeOK
<1>6. CASE UNCHANGED created /\ at[c] # "exchange"
  <2>1. exchanging' = exchanging
    BY <1>4, <1>6 DEF exchanging
  <2>2. QED
    BY <1>0, <1>3, <1>4, <1>5, <1>6, <2>1 DEF KeyInv
<1>7. CASE created' = created \ {lk[c]} /\ at[c] = "exchange"
  <2>1. c \in exchanging
    BY <1>7 DEF exchanging
  <2>2. lk[c] # DESTRUCTOR_KEY /\ \A d \in exchanging' : lk[d] # lk[c]
    BY <1>4, <2>1 DEF KeyInv
  <2>3. QED
    BY <1>0, <1>3, <1>4, <1>5, <1>7, <2>1, <2>2 DEF KeyInv
<1>8. QED
  BY <1>6, <1>7

LEMMA KeyStep ==
  ASSUME KeyInv, NEW c \in Callers, get_key(c) \/ UseKey(c)
  PROVE  KeyInv'
<1>0. MAX \notin Keys /\ "None" \notin Keys
  BY KeyAssumption
<1>1. KeyTypeOK
  BY DEF KeyInv
<1>2. CASE LoadKey(c)
  <2>1. CASE DESTRUCTOR_KEY # MAX
    BY <1>2, <2>1, KeyReturn DEF LoadKey
  <2>2. CASE DESTRUCTOR_KEY = MAX
    <3>1. /\ at[c] = "out" /\ at' = [at EXCEPT ![c] = "create"]
          /\ UNCHANGED <<lk, key, DESTRUCTOR_KEY, created>>
      BY <1>2, <2>2 DEF LoadKey
    <3>2. exchanging' = exchanging
      BY <1>1, <3>1 DEF KeyTypeOK, exchanging
    <3>3. KeyTypeOK'
      BY <1>1, <3>1 DEF KeyTypeOK
    <3>4. QED
      BY <3>1, <3>2, <3>3 DEF KeyInv
  <2>3. QED
    BY <2>1, <2>2
<1>3. CASE CreateKey(c)
  <2>1. at[c] = "create" /\ UNCHANGED <<DESTRUCTOR_KEY, key>>
    BY <1>3 DEF CreateKey
  <2>2. c \notin exchanging
    BY <2>1 DEF exchanging
  <2>3. CASE at' = [at EXCEPT ![c] = "reload"] /\ UNCHANGED <<created, lk>>
    <3>1. exchanging' = exchanging
      BY <1>1, <2>1, <2>3 DEF KeyTypeOK, exchanging
    <3>2. KeyTypeOK'
      BY <1>1, <2>1, <2>3 DEF KeyTypeOK
    <3>3. QED
      BY <2>1, <2>3, <3>1, <3>2 DEF KeyInv
  <2>4. CASE lk' = [lk EXCEPT ![c] = MAX] /\ UNCHANGED <<created, at>>
    <3>1. exchanging' = exchanging /\ \A d \in exchanging : lk'[d] = lk[d]
      BY <1>1, <2>2, <2>4 DEF KeyTypeOK, exchanging
    <3>2. KeyTypeOK'
      BY <1>1, <2>1, <2>4 DEF KeyTypeOK
    <3>3. QED
      BY <2>1, <2>4, <3>1, <3>2 DEF KeyInv
  <2>5. CASE /\ at' # [at EXCEPT ![c] = "reload"] \/ ~UNCHANGED <<created, lk>>
             /\ lk' # [lk EXCEPT ![c] = MAX] \/ ~UNCHANGED <<created, at>>
    <3>1. PICK k \in Keys \ created :
            /\ created' = created \cup {k} /\ lk' = [lk EXCEPT ![c] = k]
            /\ at' = [at EXCEPT ![c] = "exchange"]
      <4> DEFINE k == CHOOSE k \in Keys \ created : TRUE
      <4>1. /\ created # Keys /\ created' = created \cup {k} /\ lk' = [lk EXCEPT ![c] = k]
            /\ at' = [at EXCEPT ![c] = "exchange"]
        BY <1>3, <2>5 DEF CreateKey
      <4>2. Keys \ created # {}
        BY <1>1, <4>1 DEF KeyTypeOK
      <4>3. k \in Keys \ created
        BY <4>2
      <4>4. QED
        BY <4>1, <4>3
    <3>2. exchanging' = exchanging \cup {c}
      BY <1>1, <3>1 DEF KeyTypeOK, exchanging
    <3>3. lk'[c] = k /\ \A d \in exchanging : lk'[d] = lk[d]
      BY <1>1, <2>2, <3>1 DEF KeyTypeOK, exchanging
    <3>4. KeyTypeOK'
      BY <1>1, <2>1, <3>1 DEF KeyTypeOK
    <3>5. k # DESTRUCTOR_KEY
      BY <1>0, <3>1 DEF KeyInv
    <3>6. QED
      BY <2>1, <2>2, <3>1, <3>2, <3>3, <3>4, <3>5 DEF KeyInv
  <2>6. QED
    BY <2>3, <2>4, <2>5
<1>4. CASE ReloadKey(c)
  BY <1>4, KeyReturn DEF ReloadKey
<1>5. CASE ExchangeKey(c)
  <2>1. at[c] = "exchange"
    BY <1>5 DEF ExchangeKey
  <2>2. CASE DESTRUCTOR_KEY = MAX
    <3>1. /\ DESTRUCTOR_KEY' = lk[c] /\ at' = [at EXCEPT ![c] = "create"]
          /\ UNCHANGED <<created, lk, key>>
      BY <1>5, <2>2 DEF ExchangeKey
    <3>2. c \in exchanging /\ exchanging' = exchanging \ {c}
      BY <1>1, <2>1, <3>1 DEF KeyTypeOK, exchanging
    <3>3. KeyTypeOK'
      BY <1>1, <3>1 DEF KeyTypeOK
    <3>4. \A d \in Callers : key[d] \notin Keys
      BY <1>0, <2>2 DEF KeyInv
    <3>5. \A d \in exchanging' : lk[d] # lk[c]
      BY <3>2 DEF KeyInv
    <3>6. \A k \in created : k = lk[c] \/ \E d \in exchanging' : lk[d] = k
      BY <1>0, <1>1, <2>2, <3>2 DEF KeyInv, KeyTypeOK
    <3>7. lk[c] \in created
      BY <3>2 DEF KeyInv
    <3>8. QED
      BY <3>1, <3>2, <3>3, <3>4, <3>5, <3>6, <3>7 DEF KeyInv
  <2>3. CASE DESTRUCTOR_KEY # MAX
    BY <1>5, <2>1, <2>3, KeyReturn DEF ExchangeKey
  <2>4. QED
    BY <2>2, <2>3
<1>6. CASE UseKey(c)
  <2>1. key' = [key EXCEPT ![c] = MAX] /\ UNCHANGED <<DESTRUCTOR_KEY, created, at, lk>>
    BY <1>6 DEF UseKey
  <2>2. \A d \in Callers : key'[d] = IF d = c THEN MAX ELSE key[d]
    BY <1>1, <2>1 DEF KeyTypeOK
  <2>3. KeyTypeOK' /\ exchanging' = exchanging
    BY <1>1, <2>1 DEF KeyTypeOK, exchanging
  <2>4. QED
    BY <1>0, <2>1, <2>2, <2>3 DEF KeyInv
<1>7. QED
  BY <1>2, <1>3, <1>4, <1>5, <1>6 DEF get_key

LEMMA KeyKept ==
  ASSUME KeyInv, UNCHANGED keyVars
  PROVE  KeyInv'
<1>1. UNCHANGED <<DESTRUCTOR_KEY, created, at, lk, key>>
  BY DEF keyVars
<1>2. exchanging' = exchanging /\ KeyTypeOK'
  BY <1>1 DEF exchanging, KeyInv, KeyTypeOK
<1>3. QED
  BY <1>1, <1>2 DEF KeyInv

LEMMA KeyInvOne ==
  ASSUME KeyInv
  PROVE  OneKey
<1>0. MAX \notin Keys
  BY KeyAssumption
<1>1. \A c \in Callers : key[c] \in Keys => key[c] = DESTRUCTOR_KEY /\ key[c] \in created
  BY <1>0 DEF KeyInv
<1>2. (\A c \in Callers : at[c] = "out") => exchanging = {}
  BY DEF exchanging
<1>3. QED
  BY <1>1, <1>2 DEF KeyInv, OneKey
-----------------------------------------------------------------------------
(***************************************************************************)
(* The latest call.                                                        *)
(***************************************************************************)
LEMMA LatestExists ==
  ASSUME NEW S, S \subseteq 1..MaxDepth, S # {}
  PROVE  \E k \in S : \A j \in S : j <= k
<1> DEFINE T == {MaxDepth - k : k \in S}
<1>1. MaxDepth \in Nat
  BY UnSyncAssumption
<1>2. T \subseteq Nat /\ T # {}
  <2>1. \A k \in 1..MaxDepth : MaxDepth - k \in Nat
    BY <1>1
  <2>2. QED
    BY <2>1
<1>3. PICK x \in T : \A y \in T : ~(<<y, x>> \in OpToRel(<, Nat))
  BY <1>2, NatLessThanWellFounded, WFMin
<1>4. \A y \in T : ~(y < x)
  BY <1>2, <1>3 DEF OpToRel
<1>5. PICK k \in S : x = MaxDepth - k
  BY <1>3
<1>6. ASSUME NEW j \in S PROVE j <= k
  <2>1. MaxDepth - j \in T
    OBVIOUS
  <2>2. ~(MaxDepth - j < MaxDepth - k)
    BY <1>4, <1>5, <2>1
  <2>3. j \in 1..MaxDepth /\ k \in 1..MaxDepth
    OBVIOUS
  <2>4. QED
    BY <1>1, <2>2, <2>3
<1>7. QED
  BY <1>6

LEMMA TopFacts ==
  ASSUME base \in 0..MaxDepth
  PROVE  /\ Open \subseteq Threads /\ \A k \in Open : k > base /\ k <= Top
         /\ Open # {} => Top \in Open
         /\ Open = {} => Top = base
         /\ Top \in 0..MaxDepth /\ base <= Top
         /\ Top < MaxDepth => Top + 1 \in Threads /\ Top + 1 > base
<1>1. /\ MaxDepth \in Nat /\ Threads = 1..MaxDepth /\ base \in 0..MaxDepth
  BY UnSyncAssumption
<1>2. Open \subseteq 1..MaxDepth /\ \A k \in Open : k > base
  BY <1>1 DEF Open
<1>3. CASE Open = {}
  BY <1>1, <1>2, <1>3 DEF Top
<1>4. CASE Open # {}
  <2>1. \E k \in Open : \A j \in Open : j <= k
    BY <1>2, <1>4, LatestExists
  <2>2. Top \in Open /\ \A j \in Open : j <= Top
    BY <1>4, <2>1 DEF Top
  <2>3. QED
    BY <1>1, <1>2, <1>4, <2>2
<1>5. QED
  BY <1>3, <1>4
-----------------------------------------------------------------------------
(***************************************************************************)
(* The Cell.                                                               *)
(***************************************************************************)
LEMMA ReadersFinite ==
  ASSUME NEW R \in SUBSET Threads
  PROVE  IsFiniteSet(R) /\ Cardinality(R) \in 0..MaxDepth
<1>1. MaxDepth \in Nat /\ Threads = 1..MaxDepth
  BY UnSyncAssumption
<1>2. IsFiniteSet(Threads) /\ Cardinality(Threads) = MaxDepth
  BY <1>1, FS_Interval
<1>3. IsFiniteSet(R) /\ Cardinality(R) <= MaxDepth
  BY <1>2, FS_Subset
<1>4. QED
  BY <1>1, <1>3, FS_CardinalityType

LEMMA CellBits ==
  ASSUME NEW n \in 0..MaxDepth
  PROVE  /\ READER_BITS(n) = n /\ ~is_locked(n) /\ is_locked(LOCKED_BIT)
         /\ n \in 0..(4 * Overf - 1) /\ LOCKED_BIT \in 0..(4 * Overf - 1)
         /\ n # Overf - 1
<1>1. MaxDepth \in Nat /\ Overf \in Nat /\ MaxDepth < Overf - 1
  BY UnSyncAssumption
<1>2. n \in Nat /\ n < Overf /\ Overf > 0
  BY <1>1
<1>3. n % Overf = n
  BY <1>1, <1>2
<1>4. QED
  BY <1>1, <1>2, <1>3 DEF READER_BITS, is_locked, LOCKED_BIT

(* CellInv is all there is to CellExact, guards excluding each other.      *)
LEMMA CellInvExact ==
  ASSUME LazyInv, CellInv
  PROVE  CellExact /\ cell \in [Statics -> 0..(4 * Overf - 1)]
<1>1. ASSUME NEW s \in Statics
      PROVE  /\ cell[s] = IF writers[s] # {} THEN LOCKED_BIT ELSE Cardinality(readers[s])
             /\ writers[s] # {} => readers[s] = {}
             /\ write_conflict(cell[s]) <=> writers[s] \cup readers[s] # {}
             /\ read_conflict(cell[s]) <=> writers[s] # {}
             /\ cell[s] \in 0..(4 * Overf - 1)
  <2>1. cell[s] = IF writers[s] # {} THEN LOCKED_BIT ELSE Cardinality(readers[s])
    BY DEF CellInv, units
  <2>2. readers[s] \in SUBSET Threads /\ writers[s] \in SUBSET Threads
    BY DEF LazyInv, TypeOK
  <2>3. writers[s] # {} => readers[s] = {}
    BY <2>2 DEF LazyInv, GuardsInv, GuardOK
  <2>4. IsFiniteSet(readers[s]) /\ Cardinality(readers[s]) \in 0..MaxDepth
    BY <2>2, ReadersFinite
  <2>5. Cardinality(readers[s]) = 0 <=> readers[s] = {}
    BY <2>4, FS_EmptySet
  <2>6. 0 \in 0..MaxDepth
    BY UnSyncAssumption
  <2>7. CASE writers[s] # {}
    BY <2>1, <2>3, <2>6, <2>7, CellBits DEF write_conflict, read_conflict
  <2>8. CASE writers[s] = {}
    BY <2>1, <2>4, <2>5, <2>8, CellBits DEF write_conflict, read_conflict
  <2>9. QED
    BY <2>1, <2>3, <2>7, <2>8
<1>2. cell \in [Statics -> 0..(4 * Overf - 1)]
  BY <1>1 DEF CellInv
<1>3. QED
  BY <1>1, <1>2 DEF CellExact

LEMMA CellKept ==
  ASSUME CellInv, UNCHANGED <<cell, writers, readers>>
  PROVE  CellInv'
BY DEF CellInv, units

(* The guards of s change, and its Cell with them.                         *)
LEMMA CellChanges ==
  ASSUME CellInv, NEW s \in Statics, cell' = [cell EXCEPT ![s] = units(writers'[s], readers'[s])],
         \A r \in Statics \ {s} : writers'[r] = writers[r] /\ readers'[r] = readers[r]
  PROVE  CellInv'
<1>1. \A r \in Statics \ {s} : units(writers'[r], readers'[r]) = units(writers[r], readers[r])
  OBVIOUS
<1>2. cell' = [r \in Statics |-> units(writers'[r], readers'[r])]
  BY <1>1 DEF CellInv
<1>3. QED
  BY <1>2 DEF CellInv, units, LOCKED_BIT

(* A call that has the static for itself changes its guards only.          *)
Only(k) ==
  /\ \A r \in Statics \ {on[k]} : writers'[r] = writers[r] /\ readers'[r] = readers[r]
  /\ readers'[on[k]] \in {{}, {k}}

LEMMA CellSet ==
  ASSUME CellInv, NEW k \in Threads, on[k] \in Statics, SetCell(k), Only(k)
  PROVE  CellInv'
<1>1. Cardinality({}) = 0 /\ Cardinality({k}) = 1
  BY FS_EmptySet, FS_Singleton
<1>2. units(writers'[on[k]], readers'[on[k]]) =
        IF writers'[on[k]] # {} THEN LOCKED_BIT ELSE IF k \in readers'[on[k]] THEN 1 ELSE 0
  BY <1>1 DEF units, Only
<1>3. cell' = [cell EXCEPT ![on[k]] = units(writers'[on[k]], readers'[on[k]])]
  BY <1>2 DEF SetCell
<1>4. QED
  BY <1>3, CellChanges DEF Only

LEMMA CellAdd ==
  ASSUME LazyInv, CellInv, NEW s \in Statics, NEW k \in Threads, k \notin readers[s],
         writers[s] = {}, readers' = [readers EXCEPT ![s] = @ \cup {k}], UNCHANGED writers, AddReader(s)
  PROVE  CellInv'
<1>1. readers \in [Statics -> SUBSET Threads]
  BY DEF LazyInv, TypeOK
<1>2. IsFiniteSet(readers[s])
  BY <1>1, ReadersFinite
<1>3. Cardinality(readers[s] \cup {k}) = Cardinality(readers[s]) + 1
  BY <1>2, FS_AddElement
<1>4. cell[s] = Cardinality(readers[s])
  BY DEF CellInv, units
<1>5. readers'[s] = readers[s] \cup {k} /\ \A r \in Statics \ {s} : readers'[r] = readers[r]
  BY <1>1
<1>6. cell' = [cell EXCEPT ![s] = units(writers'[s], readers'[s])]
  BY <1>3, <1>4, <1>5 DEF AddReader, units
<1>7. QED
  BY <1>5, <1>6, CellChanges

LEMMA CellSub ==
  ASSUME LazyInv, CellInv, NEW s \in Statics, NEW k \in Threads, k \in readers[s],
         writers[s] = {}, readers' = [readers EXCEPT ![s] = @ \ {k}], UNCHANGED writers, SubReader(s)
  PROVE  CellInv'
<1>1. readers \in [Statics -> SUBSET Threads]
  BY DEF LazyInv, TypeOK
<1>2. IsFiniteSet(readers[s])
  BY <1>1, ReadersFinite
<1>3. Cardinality(readers[s] \ {k}) = Cardinality(readers[s]) - 1
  BY <1>2, FS_RemoveElement
<1>4. cell[s] = Cardinality(readers[s])
  BY DEF CellInv, units
<1>5. readers'[s] = readers[s] \ {k} /\ \A r \in Statics \ {s} : readers'[r] = readers[r]
  BY <1>1
<1>6. cell' = [cell EXCEPT ![s] = units(writers'[s], readers'[s])]
  BY <1>3, <1>4, <1>5 DEF SubReader, units
<1>7. QED
  BY <1>5, <1>6, CellChanges

LEMMA OnlyUnlock ==
  ASSUME TypeOK, NEW k \in Threads, on[k] \in Statics, readers[on[k]] = {}, NEW p,
         Unlock(on[k], p), UNCHANGED readers \/ readers' = [readers EXCEPT ![on[k]] = @ \cup {k}]
  PROVE  Only(k)
BY DEF TypeOK, Only, Unlock

LEMMA OnlyComplete ==
  ASSUME TypeOK, NEW k \in Threads, on[k] \in Statics, readers[on[k]] = {}, NEW p, Complete(k, p)
  PROVE  Only(k)
BY DEF TypeOK, Only, Complete, Unlock

LEMMA OnlyTransition ==
  ASSUME TypeOK, NEW k \in Threads, on[k] \in Statics, readers[on[k]] = {}, NEW l, NEW p,
         Transition(k, l, p)
  PROVE  Only(k)
BY DEF TypeOK, Only, Transition

LEMMA OnlyStartInit ==
  ASSUME TypeOK, NEW k \in Threads, on[k] \in Statics, readers[on[k]] = {}, NEW r, StartInit(k, r)
  PROVE  Only(k)
BY OnlyComplete, OnlyTransition DEF StartInit

(* The calls that own or take the write guard.                             *)
LEMMA OnlyWriting ==
  ASSUME LazyInv, NEW k \in Threads,
         \/ LockWrite(k) \/ Generate(k) \/ GeneratorPanics(k) \/ FinalyReturns(k) \/ FinalyPanics(k)
         \/ Downgrade(k) \/ (op[k] \in writing /\ (PrimedAnswer(k, FALSE) \/ Release(k)))
         \/ \E a \in {"registered", "refused"} : Register(k, a)
  PROVE  on[k] \in Statics /\ Only(k)
<1>0. TypeOK /\ ThreadOK(k)
  BY DEF LazyInv, ThreadsInv
<1>1. CASE LockWrite(k)
  <2>1. pc[k] = "lock" /\ readers[on[k]] = {}
    BY <1>1 DEF LockWrite
  <2>2. on[k] \in Statics
    BY <1>0, <2>1 DEF ThreadOK, OpOK, TypeOK
  <2>3. CASE op[k] = "finalize_callback"
    <3>1. Transition(k, "finaly", phase[on[k]] \cup {"FINALIZATION_PANICKED"})
      BY <1>1, <2>3 DEF LockWrite, initializing
    <3>2. QED
      BY <1>0, <2>1, <2>2, <3>1, OnlyTransition
  <2>4. CASE op[k] # "finalize_callback"
    <3>1. \/ lazy_initialization(k) \/ Complete(k, phase[on[k]])
      BY <1>1, <2>4 DEF LockWrite
    <3>2. QED
      BY <1>0, <2>1, <2>2, <3>1, OnlyTransition, OnlyStartInit, OnlyComplete DEF lazy_initialization
  <2>5. QED
    BY <2>3, <2>4
<1>2. CASE ~LockWrite(k)
  <2>1. writes(pc[k], op[k])
    <3>1. CASE Release(k) /\ op[k] \in writing
      BY <1>0, <3>1 DEF Release, ThreadOK, OpOK, writes, writing, reading
    <3>2. CASE ~(Release(k) /\ op[k] \in writing)
      BY <1>2, <3>2 DEF Generate, GeneratorPanics, FinalyReturns, FinalyPanics, Downgrade, PrimedAnswer,
           Register, writes
    <3>3. QED
      BY <3>1, <3>2
  <2>2. on[k] \in Statics /\ readers[on[k]] = {}
    BY <2>1, WriterAlone
  <2>3. CASE Generate(k)
    BY <1>0, <2>2, <2>3, OnlyComplete DEF Generate
  <2>4. CASE GeneratorPanics(k) \/ FinalyPanics(k)
    BY <1>0, <2>2, <2>4, OnlyUnlock DEF GeneratorPanics, FinalyPanics, Unwind
  <2>5. CASE FinalyReturns(k)
    BY <1>0, <2>2, <2>5, OnlyUnlock DEF FinalyReturns
  <2>6. CASE Downgrade(k)
    BY <1>0, <2>2, <2>6, OnlyUnlock DEF Downgrade
  <2>7. CASE op[k] \in writing /\ PrimedAnswer(k, FALSE)
    <3>1. CASE UNCHANGED locker
      BY <2>2, <3>1 DEF locker, Only
    <3>2. CASE ~UNCHANGED locker
      BY <1>0, <2>2, <2>7, <3>2, OnlyUnlock DEF PrimedAnswer
    <3>3. QED
      BY <2>2, <3>1, <3>2
  <2>8. CASE op[k] \in writing /\ Release(k)
    BY <1>0, <2>2, <2>8, OnlyUnlock DEF Release
  <2>9. ASSUME NEW a \in {"registered", "refused"}, Register(k, a) PROVE Only(k)
    BY <1>0, <2>2, <2>9, OnlyStartInit DEF Register
  <2>10. QED
    BY <1>2, <2>2, <2>3, <2>4, <2>5, <2>6, <2>7, <2>8, <2>9
<1>3. QED
  BY <1>1, <1>2

LEMMA CellSteps ==
  ASSUME LazyInv, CellInv, NEW k \in Threads,
         \/ Lock(k) \/ TryLockFails(k) \/ LockPanics(k) \/ AnswerPrimed(k) \/ EndGenerator(k) \/ EndFinaly(k)
         \/ DropGuard(k) \/ ConvertGuard(k) \/ (FinalyPanics(k) /\ SetCell(k))
         \/ \E a \in {"registered", "refused"} : Register(k, a) /\ SetCell(k)
  PROVE  CellInv'
<1>0. TypeOK /\ ThreadOK(k) /\ \A s \in Statics : GuardOK(s, k)
  BY DEF LazyInv, ThreadsInv, GuardsInv
<1>1. CASE Lock(k)
  <2>1. pc[k] = "lock" /\ on[k] \in Statics
    BY <1>0, <1>1 DEF Lock, ThreadOK, OpOK, TypeOK
  <2>2. CASE LockNone(k) /\ UNCHANGED cell
    BY <2>2, CellKept DEF LockNone, locker
  <2>3. CASE LockRead(k) /\ IF k \in readers'[on[k]] THEN AddReader(on[k]) ELSE UNCHANGED cell
    <3>1. k \notin readers[on[k]]
      BY <2>1, NoGuard
    <3>2. /\ writers[on[k]] = {} /\ UNCHANGED writers
          /\ \/ readers' = [readers EXCEPT ![on[k]] = @ \cup {k}]
             \/ readers' = [readers EXCEPT ![on[k]] = @]
      BY <2>3 DEF LockRead
    <3>3. CASE readers' = [readers EXCEPT ![on[k]] = @ \cup {k}]
      <4>1. k \in readers'[on[k]]
        BY <1>0, <2>1, <3>3 DEF TypeOK
      <4>2. QED
        BY <2>1, <2>3, <3>1, <3>2, <3>3, <4>1, CellAdd
    <3>4. CASE readers' = [readers EXCEPT ![on[k]] = @]
      <4>1. UNCHANGED readers
        BY <1>0, <2>1, <3>4 DEF TypeOK
      <4>2. QED
        BY <2>3, <3>1, <3>2, <4>1, CellKept
    <3>5. QED
      BY <3>2, <3>3, <3>4
  <2>4. CASE LockWrite(k) /\ SetCell(k)
    BY <2>4, OnlyWriting, CellSet
  <2>5. QED
    BY <1>1, <2>2, <2>3, <2>4 DEF Lock
<1>2. CASE TryLockFails(k) \/ LockPanics(k)
  BY <1>2, CellKept DEF TryLockFails, TryFails, LockPanics, locker
<1>3. CASE AnswerPrimed(k)
  <2>1. CASE op[k] \in writing
    BY <1>3, <2>1, OnlyWriting, CellSet DEF AnswerPrimed
  <2>2. CASE op[k] \notin writing
    BY <1>3, <2>2, CellKept DEF AnswerPrimed, PrimedAnswer, locker
  <2>3. QED
    BY <2>1, <2>2
<1>4. CASE EndGenerator(k)
  BY <1>4, OnlyWriting, CellSet DEF EndGenerator
<1>5. CASE EndFinaly(k)
  BY <1>5, OnlyWriting, CellSet DEF EndFinaly
<1>6. CASE ConvertGuard(k)
  BY <1>6, OnlyWriting, CellSet DEF ConvertGuard
<1>7. CASE FinalyPanics(k) /\ SetCell(k)
  BY <1>7, OnlyWriting, CellSet
<1>8. ASSUME NEW a \in {"registered", "refused"}, Register(k, a), SetCell(k)
      PROVE  CellInv'
  BY <1>8, OnlyWriting, CellSet
<1>9. CASE DropGuard(k)
  <2>1. Release(k) /\ pc[k] \in {"using", "fallback"}
    BY <1>9 DEF DropGuard, Release
  <2>2. on[k] \in Statics
    BY <1>0, <2>1 DEF ThreadOK, OpOK, TypeOK
  <2>3. CASE op[k] \in writing
    <3>1. writes(pc[k], op[k])
      BY <1>0, <2>1, <2>3 DEF ThreadOK, OpOK, writes, writing, reading
    <3>2. writers[on[k]] = {k}
      BY <3>1, WriterAlone
    <3>3. SetCell(k)
      BY <1>9, <3>2 DEF DropGuard
    <3>4. QED
      BY <2>1, <2>3, <3>3, OnlyWriting, CellSet
  <2>4. CASE op[k] \notin writing
    <3>1. writers[on[k]] # {k}
      BY <1>0, <2>1, <2>2, <2>4 DEF GuardOK, writes
    <3>2. UNCHANGED writers /\ readers' = [readers EXCEPT ![on[k]] = @ \ {k}]
      BY <2>1, <2>4 DEF Release
    <3>3. CASE k \in readers[on[k]]
      <4>1. SubReader(on[k])
        BY <1>9, <3>1, <3>3 DEF DropGuard
      <4>2. reads(pc[k], op[k])
        BY <1>0, <2>2, <3>3 DEF GuardOK
      <4>3. writers[on[k]] = {}
        BY <4>2, ReaderShares
      <4>4. QED
        BY <2>2, <3>2, <3>3, <4>1, <4>3, CellSub
    <3>4. CASE k \notin readers[on[k]]
      <4>1. UNCHANGED cell
        BY <1>9, <3>1, <3>4 DEF DropGuard
      <4>2. readers[on[k]] \ {k} = readers[on[k]]
        BY <3>4
      <4>3. UNCHANGED readers
        BY <1>0, <2>2, <3>2, <4>2 DEF TypeOK
      <4>4. QED
        BY <3>2, <4>1, <4>3, CellKept
    <3>5. QED
      BY <3>3, <3>4
  <2>5. QED
    BY <2>3, <2>4
<1>10. QED
  BY <1>1, <1>2, <1>3, <1>4, <1>5, <1>6, <1>7, <1>8, <1>9

LEMMA CellEnter ==
  ASSUME CellInv, NEW s, Enter(s)
  PROVE  CellInv'
BY CellKept DEF Enter, Access, Call, TryGet, locker

LEMMA CellClone ==
  ASSUME LazyInv, CellInv, base \in 0..MaxDepth, NEW k \in Threads, CloneGuard(k)
  PROVE  CellInv'
<1>1. Top + 1 \in Threads /\ Clone(k, Top + 1) /\ AddReader(on[k])
  BY TopFacts DEF CloneGuard
<1>2. /\ pc[k] \in {"using", "fallback"} /\ op[k] \in reading /\ pc[Top + 1] = "idle"
      /\ readers' = [readers EXCEPT ![on[k]] = @ \cup {Top + 1}] /\ UNCHANGED writers
  BY <1>1 DEF Clone
<1>3. on[k] \in Statics /\ writers[on[k]] = {}
  BY <1>2, ReaderShares DEF reads
<1>4. Top + 1 \notin readers[on[k]]
  BY <1>1, <1>2, <1>3, NoGuard
<1>5. QED
  BY <1>1, <1>2, <1>3, <1>4, CellAdd
-----------------------------------------------------------------------------
(***************************************************************************)
(* Call k goes on, begins or ends.                                         *)
(***************************************************************************)
Turns(k) ==
  /\ Moves(k)
  /\ on'[k] # NoStatic => on'[k] = on[k] \/ built(on'[k])
  /\ op'[k] = "finalize_callback" => op[k] = "finalize_callback" /\ on'[k] = on[k]
  /\ op[k] = "finalize_callback" =>
       \/ op'[k] = "finalize_callback" \/ stage' = "aborted"
       \/ "INITIALIZED" \notin phase[on[k]] \/ "FINALIZED" \in phase'[on[k]]
  /\ \A s \in Statics : "INITIALIZED" \in phase[s] => "INITIALIZED" \in phase'[s]
  /\ StaysFinalized

LEMMA TurnsProceed ==
  ASSUME LazyInv, WordInv, NEW k \in Threads,
         Proceed(k) \/ \E a \in {"registered", "refused"} : Register(k, a),
         \A r \in Statics : node[r] # "out" => node'[r] # "out"
  PROVE  WordInv' /\ Turns(k)
<1>1. TypeOK /\ Acts(k)
  BY DEF LazyInv, Acts
<1>2. WordInv' /\ StaysFinalized
  BY <1>1, WordActs
<1>3. \A s \in Statics : "INITIALIZED" \in phase[s] => "INITIALIZED" \in phase'[s]
  BY <1>1, HistoryActs DEF HistoryOK
<1>4. Moves(k)
  BY <1>1, ActsMoves
<1>5. \/ op'[k] = op[k] /\ on'[k] = on[k]
      \/ /\ op'[k] = "none" /\ on'[k] = NoStatic
         /\ op[k] = "finalize_callback" =>
              "INITIALIZED" \notin phase[on[k]] \/ "FINALIZED" \in phase'[on[k]]
  BY ProceedOp
<1>6. QED
  BY <1>2, <1>3, <1>4, <1>5 DEF Turns

(* A call that is not finalize_callback, and does not become it.           *)
LEMMA TurnsActs ==
  ASSUME LazyInv, WordInv, NEW k \in Threads, Acts(k),
         UNCHANGED node \/ \A r \in Statics : node[r] # "out" => node'[r] # "out",
         op[k] = "finalize_callback" => stage' = "aborted",
         op'[k] # "finalize_callback",
         on'[k] \in {on[k], NoStatic} \/ built(on'[k])
  PROVE  WordInv' /\ Turns(k)
<1>1. TypeOK
  BY DEF LazyInv
<1>2. WordInv' /\ StaysFinalized
  BY WordActs
<1>3. \A s \in Statics : "INITIALIZED" \in phase[s] => "INITIALIZED" \in phase'[s]
  BY HistoryActs DEF HistoryOK
<1>4. Moves(k)
  BY <1>1, ActsMoves
<1>5. QED
  BY <1>2, <1>3, <1>4 DEF Turns

(* The steps of the calls that are open.                                   *)
LEMMA TurnsOpen ==
  ASSUME LazyInv, WordInv, DropsAreLocked, NEW k \in Threads,
         \/ Lock(k) \/ TryLockFails(k) \/ EndGenerator(k) \/ EndFinaly(k) \/ DropGuard(k)
         \/ AnswerPrimed(k) \/ ConvertGuard(k)
  PROVE  LazyInv' /\ WordInv' /\ Turns(k) /\ UNCHANGED node
<1>0. ThreadOK(k) /\ TypeOK
  BY DEF LazyInv, ThreadsInv
<1>1. CASE \/ Lock(k) \/ TryLockFails(k) \/ EndGenerator(k) \/ EndFinaly(k) \/ DropGuard(k)
  <2>1. Proceed(k) /\ UNCHANGED node
    BY <1>1 DEF Lock, TryLockFails, EndGenerator, EndFinaly, DropGuard, Proceed, LockNone, LockRead,
         LockWrite, TryFails, Generate, GeneratorPanics, Release, FinalyReturns
  <2>2. QED
    BY <2>1, ProceedStep, TurnsProceed
<1>2. CASE AnswerPrimed(k)
  <2>1. PrimedAnswer(k, FALSE) /\ UNCHANGED node /\ pc[k] = "primed"
    BY <1>2 DEF AnswerPrimed, PrimedAnswer
  <2>2. op[k] # "finalize_callback"
    BY <1>0, <2>1 DEF ThreadOK, OpOK
  <2>3. op'[k] \in {op[k], "primed_read"} /\ on' = on
    BY <1>0, <2>1 DEF PrimedAnswer, TypeOK
  <2>4. Acts(k)
    BY <2>1 DEF Acts
  <2>5. LazyInv'
    BY <2>1, PrimedAnswerStep
  <2>6. QED
    BY <2>1, <2>2, <2>3, <2>4, <2>5, TurnsActs
<1>3. CASE ConvertGuard(k)
  <2>1. Downgrade(k) /\ UNCHANGED node /\ pc[k] = "using"
    BY <1>3 DEF ConvertGuard, Downgrade
  <2>2. op[k] # "finalize_callback"
    BY <1>0, <2>1 DEF ThreadOK, OpOK
  <2>3. op'[k] = "read_lock" /\ on' = on
    BY <1>0, <2>1 DEF Downgrade, TypeOK
  <2>4. Acts(k)
    BY <2>1 DEF Acts
  <2>5. LazyInv'
    BY <2>1, DowngradeStep
  <2>6. QED
    BY <2>1, <2>2, <2>3, <2>4, <2>5, TurnsActs
<1>4. QED
  BY <1>1, <1>2, <1>3

LEMMA TurnsEnter ==
  ASSUME LazyInv, WordInv, DropsAreLocked, base \in 0..MaxDepth, NEW s \in Statics, built(s), Enter(s)
  PROVE  /\ Top + 1 \in Threads /\ Top + 1 > base /\ UNCHANGED node
         /\ LazyInv' /\ WordInv' /\ Turns(Top + 1)
<1> DEFINE k == Top + 1
<1>0. TypeOK /\ \A j \in Threads : ThreadOK(j)
  BY DEF LazyInv, ThreadsInv
<1>1. k \in Threads /\ k > base /\ Access(k, s)
  BY TopFacts DEF Enter
<1> HIDE DEF k
<1>2. pc[k] = "idle" /\ UNCHANGED node
  BY <1>1 DEF Access, Call, TryGet
<1>3. op[k] # "finalize_callback"
  BY <1>0, <1>1, <1>2 DEF ThreadOK, OpOK
<1>4. \A q \in Calls[s] : q \in Operations /\ q # "finalize_callback"
  BY LazyAssumption
<1>5. op'[k] # "finalize_callback" /\ on'[k] = s
  BY <1>0, <1>1, <1>4 DEF Access, Call, TryGet, TypeOK
<1>6. Acts(k)
  BY <1>1, <1>4 DEF Access, Acts
<1>7. LazyInv'
  BY <1>1, AccessStep
<1>8. WordInv' /\ Turns(k)
  BY <1>1, <1>2, <1>3, <1>5, <1>6, TurnsActs
<1>9. QED
  BY <1>1, <1>2, <1>7, <1>8 DEF k

LEMMA TurnsClone ==
  ASSUME LazyInv, WordInv, BuiltInv, base \in 0..MaxDepth, NEW k \in Threads, CloneGuard(k)
  PROVE  /\ Top + 1 \in Threads /\ Top + 1 > base /\ UNCHANGED node
         /\ LazyInv' /\ WordInv' /\ Turns(Top + 1)
<1> DEFINE u == Top + 1
<1>0. TypeOK /\ \A j \in Threads : ThreadOK(j)
  BY DEF LazyInv, ThreadsInv
<1>1. u \in Threads /\ u > base /\ Clone(k, u)
  BY TopFacts DEF CloneGuard
<1> HIDE DEF u
<1>2. pc[u] = "idle" /\ pc[k] \in {"using", "fallback"} /\ UNCHANGED node
  BY <1>1 DEF Clone
<1>3. op[u] # "finalize_callback" /\ op[k] # "finalize_callback"
  BY <1>0, <1>1, <1>2 DEF ThreadOK, OpOK
<1>4. op'[u] = op[k] /\ on'[u] = on[k]
  BY <1>0, <1>1 DEF Clone, TypeOK
<1>5. on[k] = NoStatic \/ built(on[k])
  BY DEF BuiltInv
<1>6. Acts(u)
  BY <1>1 DEF Acts
<1>7. LazyInv'
  BY <1>1, CloneStep
<1>8. WordInv' /\ Turns(u)
  BY <1>1, <1>2, <1>3, <1>4, <1>5, <1>6, TurnsActs
<1>9. QED
  BY <1>1, <1>2, <1>7, <1>8 DEF u

(* A panic on the way to finalize_callback, or in it, ends the process.    *)
LEMMA TurnsPanic ==
  ASSUME LazyInv, WordInv, DropsAreLocked, NEW k \in Threads,
         \/ LockPanics(k) /\ stage' = IF op[k] = "finalize_callback" THEN "aborted" ELSE stage
         \/ FinalyPanics(k) /\ stage' = "aborted"
  PROVE  /\ LazyInv' /\ WordInv' /\ Turns(k) /\ UNCHANGED node
         /\ stage' = stage \/ (stage' = "aborted" /\ op[k] = "finalize_callback" /\ op'[k] = "none")
<1>0. ThreadOK(k) /\ TypeOK
  BY DEF LazyInv, ThreadsInv
<1>1. CASE LockPanics(k) /\ stage' = IF op[k] = "finalize_callback" THEN "aborted" ELSE stage
  <2>1. pc[k] = "lock" /\ Idle(k) /\ UNCHANGED <<locker, data, finals, node>>
    BY <1>1 DEF LockPanics
  <2>2. LazyInv'
    BY <2>1, IdleStep
  <2>3. WordInv' /\ StaysFinalized
    BY <2>1, WordKept DEF locker
  <2>4. op'[k] = "none" /\ on'[k] = NoStatic /\ Moves(k) /\ UNCHANGED phase
    BY <1>0, <2>1 DEF Idle, Moves, TypeOK, locker
  <2>5. QED
    BY <1>1, <2>1, <2>2, <2>3, <2>4 DEF Turns
<1>2. CASE FinalyPanics(k) /\ stage' = "aborted"
  <2>1. pc[k] = "finaly" /\ UNCHANGED node /\ Idle(k)
    BY <1>2 DEF FinalyPanics, Unwind
  <2>2. op[k] = "finalize_callback"
    BY <1>0, <2>1 DEF ThreadOK, OpOK
  <2>3. op'[k] = "none" /\ on'[k] = NoStatic
    BY <1>0, <2>1 DEF Idle, TypeOK
  <2>4. Acts(k) /\ LazyInv'
    BY <1>2, FinalyPanicsStep DEF Acts
  <2>5. QED
    BY <1>2, <2>1, <2>2, <2>3, <2>4, TurnsActs
<1>3. QED
  BY <1>1, <1>2
-----------------------------------------------------------------------------
(***************************************************************************)
(* Calls that leave the list alone.                                        *)
(***************************************************************************)
quietVars == <<node, base, backend, how, REGISTER, next, list, executing, DONE, DESTROYING, atexit,
               specific, ITERATION_COUNT, round, visited, due>>

(* finalize_callback is called within the walk, one call at a time.        *)
LEMMA CallbackOpen ==
  ASSUME LazyInv, CallbackInv, NEW k \in Threads, op[k] = "finalize_callback"
  PROVE  k \in Open /\ \A j \in Threads : op[j] = "finalize_callback" => j = k
<1>1. pc[k] # "idle" /\ k > base
  BY DEF LazyInv, ThreadsInv, ThreadOK, OpOK, CallbackInv
<1>2. QED
  BY <1>1 DEF LazyInv, OneFinalizer, CallbackInv, Open

LEMMA QuietStep ==
  ASSUME LazyInv, PlaceInv, NEW k \in Threads, Turns(k), UNCHANGED quietVars,
         foreign' \in 0..MaxForeign, foreign' >= foreign,
         stage' = stage \/ (stage' = "aborted" /\ op[k] = "finalize_callback" /\ op'[k] = "none"),
         Open # {} \/ stage = "alive" \/ (stage = "other" /\ foreign' > foreign),
         stage = "alive" => foreign' = foreign
  PROVE  PlaceInv'
<1>0. UNCHANGED <<node, base, backend, how, REGISTER, next, list, executing, DONE, DESTROYING,
                  atexit, specific, ITERATION_COUNT, round, visited, due>>
  BY DEF quietVars
<1>1. /\ PlaceTypeOK /\ BuiltInv /\ ListInv /\ StageInv /\ CalledInv /\ CallbackInv /\ DueInv
      /\ foreign \in 0..MaxForeign /\ MaxForeign \in Nat
  BY ThreadExitAssumption DEF PlaceInv, PlaceTypeOK
<1>2. PlaceTypeOK'
  BY <1>0, <1>1 DEF PlaceTypeOK
<1>3. BuiltInv'
  BY <1>0, <1>1 DEF BuiltInv, Turns, Moves, built
<1>4. stage' = stage \/ (stage = "walk" /\ stage' = "aborted")
  BY <1>1 DEF CallbackInv
<1>5. \A s \in Statics : OnRegister(s)' = OnRegister(s) /\ OnList(s)' = OnList(s)
  BY <1>0 DEF OnRegister, OnList, OnChain
<1>6. ListInv'
  <2>1. ChainsInv'
    BY <1>0, <1>1 DEF ListInv, ChainsInv
  <2>2. DistinctInv'
    BY <1>0, <1>1 DEF ListInv, DistinctInv
  <2>3. CoverInv'
    BY <1>0, <1>1, <1>4, <1>5 DEF ListInv, CoverInv
  <2>4. QED
    BY <2>1, <2>2, <2>3 DEF ListInv
<1>7. StageInv'
  <2>1. stage = "walk" => executing
    BY <1>1 DEF StageInv
  <2>2. stage' = "other" /\ foreign' = 0 => FALSE
    <3>1. stage' = "other" /\ foreign' = 0 => stage = "other" /\ foreign = 0 /\ Open # {}
      BY <1>1, <1>4
    <3>2. QED
      BY <1>1, <3>1 DEF StageInv
  <2>3. QED
    BY <1>0, <1>1, <1>4, <2>1, <2>2 DEF StageInv
<1>8. CalledInv'
  <2>1. foreign' = 0 => foreign = 0
    BY <1>1
  <2>2. QED
    BY <1>0, <1>1, <1>4, <2>1 DEF CalledInv
<1>9. CallbackInv'
  <2>1. stage' = "aborted" /\ stage = "walk" => \A j \in Threads : op'[j] # "finalize_callback"
    BY <1>1, CallbackOpen DEF Turns, Moves
  <2>2. QED
    BY <1>0, <1>1, <1>4, <2>1 DEF CallbackInv, Turns, Moves
<1>10. DueInv'
  <2> SUFFICES ASSUME stage' # "aborted", NEW s \in due
               PROVE  /\ "INITIALIZED" \in phase'[s]
                      /\ \/ Waiting(s)' \/ "FINALIZED" \in phase'[s]
                         \/ \E j \in Threads : op'[j] = "finalize_callback" /\ on'[j] = s
    BY <1>0 DEF DueInv
  <2>1. s \in Statics /\ stage' = stage
    BY <1>1, <1>4 DEF PlaceTypeOK
  <2>2. /\ "INITIALIZED" \in phase[s]
        /\ \/ Waiting(s) \/ "FINALIZED" \in phase[s]
           \/ \E j \in Threads : op[j] = "finalize_callback" /\ on[j] = s
    BY <1>1, <2>1 DEF DueInv
  <2>3. "INITIALIZED" \in phase'[s]
    BY <2>1, <2>2 DEF Turns
  <2>4. CASE Waiting(s)
    BY <1>0, <1>5, <2>1, <2>3, <2>4 DEF Waiting
  <2>5. CASE "FINALIZED" \in phase[s]
    BY <2>1, <2>3, <2>5 DEF Turns, StaysFinalized
  <2>6. ASSUME NEW j \in Threads, op[j] = "finalize_callback", on[j] = s
        PROVE  \/ "FINALIZED" \in phase'[s]
               \/ \E i \in Threads : op'[i] = "finalize_callback" /\ on'[i] = s
    BY <2>2, <2>6 DEF Turns, Moves
  <2>7. QED
    BY <2>2, <2>3, <2>4, <2>5, <2>6
<1>11. QED
  BY <1>2, <1>3, <1>6, <1>7, <1>8, <1>9, <1>10 DEF PlaceInv
-----------------------------------------------------------------------------
(***************************************************************************)
(* finalize_at_thread_exit.                                                *)
(***************************************************************************)
LEMMA RegisterFacts ==
  ASSUME LazyInv, PlaceInv, NEW k \in Threads, pc[k] = "register"
  PROVE  /\ on[k] \in Statics /\ node[on[k]] = "out" /\ next[on[k]] = NoStatic /\ built(on[k])
         /\ op[k] # "finalize_callback"
<1>0. NoStatic \notin Statics
  BY LazyAssumption
<1>1. on[k] \in Statics
  BY WriterAlone DEF writes
<1>2. ThreadOK(k)
  BY DEF LazyInv, ThreadsInv
<1>3. node[on[k]] = "out" /\ op[k] # "finalize_callback"
  BY <1>2 DEF ThreadOK, HoldsOK, OpOK
<1>4. QED
  BY <1>0, <1>1, <1>3 DEF PlaceInv, BuiltInv, ListInv, ChainsInv

(* The statics that were on the lists are, and so is the new one.          *)
LEMMA PushList ==
  ASSUME PlaceInv, NEW s \in Statics, node \in [Statics -> {"out", "in", "taken"}],
         node[s] = "out", next[s] = NoStatic,
         node' = [node EXCEPT ![s] = "in"], REGISTER' = s, next' = [next EXCEPT ![s] = REGISTER],
         UNCHANGED <<backend, stage, list, executing>>
  PROVE  /\ ListInv' /\ OnRegister(s)'
         /\ \A x \in Statics : (OnList(x) => OnList(x)') /\ (OnRegister(x) => OnRegister(x)')
<1>0. NoStatic \notin Statics
  BY LazyAssumption
<1>1. /\ next \in Links /\ REGISTER \in Statics \cup {NoStatic} /\ list \in Statics \cup {NoStatic}
      /\ ChainsInv /\ DistinctInv /\ CoverInv
  BY DEF PlaceInv, PlaceTypeOK, ListInv
<1>2. s # REGISTER /\ s # list /\ \A x \in Statics : next[x] # s
  BY <1>0, <1>1 DEF ChainsInv
<1>3. /\ node'[s] = "in" /\ next'[s] = REGISTER
      /\ \A x \in Statics \ {s} : node'[x] = node[x] /\ next'[x] = next[x]
  BY <1>1 DEF Links
<1>4. ChainsInv'
  BY <1>0, <1>1, <1>2, <1>3 DEF ChainsInv
<1>5. DistinctInv'
  <2>1. \A x \in Statics : next'[x] # s
    BY <1>2, <1>3
  <2>2. QED
    BY <1>0, <1>1, <1>2, <1>3, <2>1 DEF DistinctInv
<1>6. OnRegister(s)'
  BY <1>0 DEF OnRegister, OnChain
<1>7. ASSUME NEW x \in Statics PROVE (OnList(x) => OnList(x)') /\ (OnRegister(x) => OnRegister(x)')
  <2>1. list # NoStatic /\ OnChain(next, list, x) => OnChain(next', list, x)
    BY <1>1, ChainPush
  <2>2. REGISTER # NoStatic /\ OnChain(next, REGISTER, x) => OnChain(next', s, x)
    BY <1>1, ChainPush
  <2>3. (OnList(x)' <=> list' # NoStatic /\ OnChain(next', list', x))
        /\ (OnRegister(x)' <=> REGISTER' # NoStatic /\ OnChain(next', REGISTER', x))
    BY DEF OnList, OnRegister, OnChain
  <2>4. QED
    BY <1>0, <2>1, <2>2, <2>3 DEF OnList, OnRegister
<1>8. CoverInv'
  BY <1>1, <1>3, <1>6, <1>7 DEF CoverInv
<1>9. QED
  BY <1>4, <1>5, <1>6, <1>7, <1>8 DEF ListInv

LEMMA PushStep ==
  ASSUME LazyInv, PlaceInv, NEW k \in Threads, k \in Open, pc[k] = "register", Turns(k),
         stage \notin {"over", "aborted"},
         node' = [node EXCEPT ![on[k]] = "in"],
         REGISTER' = on[k],
         next' = [next EXCEPT ![on[k]] = IF backend = "cxa" /\ REGISTER = NoStatic THEN @ ELSE REGISTER],
         \/ backend = "windows" /\ UNCHANGED <<atexit, specific, ITERATION_COUNT>>
         \/ /\ backend = "cxa" /\ UNCHANGED <<specific, ITERATION_COUNT>>
            /\ atexit' = IF REGISTER = NoStatic /\ ~DESTROYING THEN atexit + 1 ELSE atexit
         \/ /\ backend = "pthread" /\ UNCHANGED atexit /\ specific' = TRUE
            /\ ITERATION_COUNT' = IF specific THEN ITERATION_COUNT ELSE ITERATION_COUNT + 1
            /\ specific \/ iterations_left,
         UNCHANGED <<backend, how, stage, list, executing, DONE, DESTROYING, round, visited, foreign,
                     due, base>>
  PROVE  PlaceInv'
<1>a. PICK s \in Statics : on[k] = s
  BY RegisterFacts
<1>0. NoStatic \notin Statics
  BY LazyAssumption
<1>1. /\ node[s] = "out" /\ next[s] = NoStatic /\ built(s)
      /\ op[k] # "finalize_callback"
  BY <1>a, RegisterFacts
<1>2. /\ PlaceTypeOK /\ BuiltInv /\ ListInv /\ StageInv /\ CalledInv /\ CallbackInv /\ DueInv
      /\ node \in [Statics -> {"out", "in", "taken"}]
  BY DEF PlaceInv, LazyInv, TypeOK
<1>3. next' = [next EXCEPT ![s] = REGISTER] /\ node' = [node EXCEPT ![s] = "in"] /\ REGISTER' = s
  BY <1>a, <1>1
<1>4. /\ ListInv' /\ OnRegister(s)'
      /\ \A x \in Statics : (OnList(x) => OnList(x)') /\ (OnRegister(x) => OnRegister(x)')
  BY <1>1, <1>2, <1>3, PushList
<1>5. node'[s] = "in" /\ \A x \in Statics \ {s} : node'[x] = node[x]
  BY <1>2, <1>3
<1>6. PlaceTypeOK'
  <2>1. REGISTER' \in Statics /\ next' \in Links
    BY <1>1, <1>2, <1>3 DEF PlaceTypeOK, Links
  <2>2. atexit' \in Nat /\ ITERATION_COUNT' \in 0..Iterations
    BY <1>2, ThreadExitAssumption DEF PlaceTypeOK, iterations_left
  <2>3. specific' \in BOOLEAN
    BY <1>2 DEF PlaceTypeOK
  <2>4. QED
    BY <1>2, <2>1, <2>2, <2>3 DEF PlaceTypeOK
<1>7. BuiltInv'
  <2>1. \A j \in Threads : on'[j] # NoStatic => built(on'[j])
    BY <1>2 DEF BuiltInv, Turns, Moves
  <2>2. \A x \in Statics : node'[x] = "in" => built(x)
    BY <1>1, <1>2, <1>5 DEF BuiltInv
  <2>3. QED
    BY <2>1, <2>2 DEF BuiltInv, built
<1>8. Open # {} /\ (stage = "walk" => executing /\ list # NoStatic) /\ ~(stage = "other" /\ foreign = 0)
  BY <1>2 DEF StageInv
<1>9. StageInv'
  BY <1>2, <1>5, <1>8 DEF StageInv
<1>10. CalledInv'
  <2>1. backend = "cxa" /\ stage \in {"alive", "other"} => atexit' > 0
    <3>1. stage \in {"alive", "other"} => ~DESTROYING
      BY <1>2 DEF StageInv
    <3>2. atexit \in Nat
      BY <1>2 DEF PlaceTypeOK
    <3>3. QED
      BY <1>2, <3>1, <3>2 DEF CalledInv
  <2>2. QED
    BY <1>8, <2>1 DEF CalledInv
<1>11. CallbackInv'
  BY <1>1, <1>2 DEF CallbackInv, Turns, Moves
<1>12. DueInv'
  <2> SUFFICES ASSUME NEW x \in due
               PROVE  /\ "INITIALIZED" \in phase'[x]
                      /\ \/ Waiting(x)' \/ "FINALIZED" \in phase'[x]
                         \/ \E j \in Threads : op'[j] = "finalize_callback" /\ on'[j] = x
    BY DEF DueInv
  <2>1. x \in Statics
    BY <1>2 DEF PlaceTypeOK
  <2>2. /\ "INITIALIZED" \in phase[x]
        /\ \/ Waiting(x) \/ "FINALIZED" \in phase[x]
           \/ \E j \in Threads : op[j] = "finalize_callback" /\ on[j] = x
    BY <1>2 DEF DueInv
  <2>3. "INITIALIZED" \in phase'[x]
    BY <2>1, <2>2 DEF Turns
  <2>4. CASE Waiting(x)
    BY <1>1, <1>4, <1>5, <2>1, <2>3, <2>4 DEF Waiting
  <2>5. CASE "FINALIZED" \in phase[x]
    BY <2>1, <2>3, <2>5 DEF Turns, StaysFinalized
  <2>6. ASSUME NEW j \in Threads, op[j] = "finalize_callback", on[j] = x
        PROVE  \E i \in Threads : op'[i] = "finalize_callback" /\ on'[i] = x
    BY <1>1, <2>6 DEF Turns, Moves
  <2>7. QED
    BY <2>2, <2>3, <2>4, <2>5, <2>6
<1>13. QED
  BY <1>4, <1>6, <1>7, <1>9, <1>10, <1>11, <1>12 DEF PlaceInv
-----------------------------------------------------------------------------
(***************************************************************************)
(* The exit of the thread.                                                 *)
(***************************************************************************)

(* Between two calls of finalize_callback.                                 *)
LEMMA NoCallback ==
  ASSUME LazyInv, PlaceInv, stage # "walk" \/ ~executing \/ Open = {}
  PROVE  /\ \A k \in Threads : op[k] # "finalize_callback"
         /\ stage # "aborted" =>
              \A s \in due : "INITIALIZED" \in phase[s] /\ (Waiting(s) \/ "FINALIZED" \in phase[s])
<1>1. \A k \in Threads : op[k] # "finalize_callback"
  BY CallbackOpen DEF PlaceInv, CallbackInv
<1>2. QED
  BY <1>1 DEF PlaceInv, DueInv

LEMMA BuiltKept ==
  ASSUME BuiltInv, UNCHANGED <<on, node, backend>>
  PROVE  BuiltInv'
BY DEF BuiltInv, built

LEMMA ExitStep ==
  ASSUME LazyInv, WordInv, PlaceInv, NEW h \in {"thread", "process"}, Exit(h)
  PROVE  PlaceInv'
<1>1. /\ stage = "alive" /\ how' = h /\ stage' = "other" /\ round' = 1 /\ base' = Top
      /\ due' = {s \in Statics : {"INITIALIZED", "REGISTERED"} \subseteq phase[s]}
      /\ UNCHANGED <<phase, node, pc, op, on, backend, REGISTER, next, list, executing, DONE,
                     DESTROYING, atexit, specific, ITERATION_COUNT, visited, foreign>>
  BY DEF Exit, vars, walkVars
<1>2. /\ PlaceTypeOK /\ BuiltInv /\ ListInv /\ StageInv /\ CalledInv /\ CallbackInv
      /\ node \in [Statics -> {"out", "in", "taken"}]
  BY DEF PlaceInv, LazyInv, TypeOK
<1>3. Top \in 0..MaxDepth /\ Open' = {}
  <2>1. base \in 0..MaxDepth /\ Threads = 1..MaxDepth /\ MaxDepth \in Nat
    BY <1>2, UnSyncAssumption DEF PlaceTypeOK
  <2>2. Top \in 0..MaxDepth /\ base <= Top /\ \A k \in Open : k <= Top
    BY <2>1, TopFacts
  <2>3. \A k \in Threads : k > Top => pc[k] = "idle"
    <3>1. SUFFICES ASSUME NEW k \in Threads, k > Top, pc[k] # "idle" PROVE FALSE
      OBVIOUS
    <3>2. k > base /\ ~(k <= Top)
      BY <2>1, <2>2, <3>1
    <3>3. k \in Open
      BY <3>1, <3>2 DEF Open
    <3>4. QED
      BY <2>2, <3>2, <3>3
  <2>4. QED
    BY <1>1, <2>2, <2>3 DEF Open
<1>4. PlaceTypeOK'
  <2>1. 1 \in 0..Iterations
    BY ThreadExitAssumption
  <2>2. QED
    BY <1>1, <1>2, <1>3, <2>1 DEF PlaceTypeOK
<1>5. BuiltInv'
  BY <1>1, <1>2, BuiltKept
<1>6. /\ list = NoStatic /\ ~DESTROYING /\ ~executing /\ ~visited
      /\ \A s \in Statics : node[s] # "taken"
  BY <1>1, <1>2 DEF StageInv
<1>7. \A s \in Statics : (OnRegister(s)' <=> OnRegister(s)) /\ (OnList(s)' <=> OnList(s))
  BY <1>1 DEF OnRegister, OnList, OnChain
<1>8. ListInv'
  <2>1. ChainsInv' /\ DistinctInv'
    BY <1>1, <1>2 DEF ListInv, ChainsInv, DistinctInv
  <2>2. CoverInv'
    BY <1>1, <1>2, <1>7 DEF ListInv, CoverInv
  <2>3. QED
    BY <2>1, <2>2 DEF ListInv
<1>9. StageInv'
  BY <1>1, <1>3, <1>6 DEF StageInv
<1>10. CalledInv'
  BY <1>1, <1>2, <1>6 DEF CalledInv
<1>11. CallbackInv'
  BY <1>1, NoCallback DEF CallbackInv
<1>12. DueInv'
  <2> SUFFICES ASSUME NEW s \in due'
               PROVE  "INITIALIZED" \in phase'[s] /\ Waiting(s)'
    BY DEF DueInv
  <2>1. s \in Statics /\ "INITIALIZED" \in phase[s] /\ "REGISTERED" \in phase[s]
    BY <1>1
  <2>2. node[s] = "in"
    BY <1>2, <1>6, <2>1 DEF WordInv, WordOK
  <2>3. OnRegister(s)
    BY <1>1, <1>2, <1>6, <2>1, <2>2 DEF ListInv, CoverInv, OnList
  <2>4. QED
    BY <1>1, <1>6, <1>7, <2>1, <2>2, <2>3 DEF Waiting
<1>13. QED
  BY <1>4, <1>5, <1>8, <1>9, <1>10, <1>11, <1>12 DEF PlaceInv

(* The system calls, and the walk takes over what is registered.           *)
LEMMA DestroyStep ==
  ASSUME LazyInv, PlaceInv, execute_destroy
  PROVE  PlaceInv'
<1>1. /\ stage = "other" /\ Open = {} /\ list' = REGISTER /\ REGISTER' = NoStatic /\ stage' = "walk"
      /\ UNCHANGED <<phase, node, pc, op, on, base, backend, how, next, executing, DONE,
                     ITERATION_COUNT, round, foreign, due>>
      /\ Called
  BY DEF execute_destroy, vars, unsyncVars
<1>2. /\ PlaceTypeOK /\ BuiltInv /\ ListInv /\ StageInv /\ CalledInv /\ CallbackInv
  BY DEF PlaceInv
<1>3. /\ backend = "cxa" \/ visited' = TRUE
      /\ atexit' \in Nat /\ {specific', visited', DESTROYING'} \subseteq BOOLEAN
  <2>1. atexit \in Nat /\ {specific, visited, DESTROYING} \subseteq BOOLEAN
    BY <1>2 DEF PlaceTypeOK
  <2>2. CASE backend = "cxa"
    <3>1. /\ atexit > 0 /\ atexit' = atexit - 1 /\ DESTROYING' = TRUE
          /\ UNCHANGED <<visited, specific>>
      BY <1>1, <2>2 DEF Called
    <3>2. atexit' \in Nat
      BY <2>1, <3>1
    <3>3. QED
      BY <2>1, <2>2, <3>1, <3>2
  <2>3. CASE backend # "cxa"
    <3>1. /\ visited' = TRUE /\ UNCHANGED <<DESTROYING, atexit>>
          /\ specific' = specific \/ specific' = (specific /\ how = "process")
      BY <1>1, <2>3 DEF Called
    <3>2. QED
      BY <2>1, <3>1
  <2>4. QED
    BY <2>2, <2>3
<1>4. PlaceTypeOK'
  BY <1>1, <1>2, <1>3 DEF PlaceTypeOK
<1>5. BuiltInv'
  BY <1>1, <1>2, BuiltKept
<1>6. list = NoStatic /\ ~executing
  BY <1>1, <1>2 DEF StageInv
<1>7. \A s \in Statics : (OnList(s)' <=> OnRegister(s)) /\ ~OnList(s)
  BY <1>1, <1>6 DEF OnRegister, OnList, OnChain
<1>8. ListInv'
  <2>1. ChainsInv' /\ DistinctInv'
    BY <1>1, <1>2, <1>6 DEF ListInv, ChainsInv, DistinctInv
  <2>2. CoverInv'
    BY <1>1, <1>2, <1>7 DEF ListInv, CoverInv
  <2>3. QED
    BY <2>1, <2>2 DEF ListInv
<1>9. StageInv'
  <2>1. Open' = {}
    BY <1>1 DEF Open
  <2>2. QED
    BY <1>1, <1>3, <1>6, <2>1 DEF StageInv
<1>10. CalledInv'
  BY <1>1 DEF CalledInv
<1>11. CallbackInv'
  BY <1>1, NoCallback DEF CallbackInv
<1>12. DueInv'
  <2>1. \A s \in due : "INITIALIZED" \in phase[s] /\ (Waiting(s) \/ "FINALIZED" \in phase[s])
    BY <1>1, NoCallback
  <2>2. \A s \in due : s \in Statics /\ (Waiting(s) => Waiting(s)')
    BY <1>1, <1>2, <1>7 DEF Waiting, PlaceTypeOK
  <2>3. QED
    BY <1>1, <2>1, <2>2 DEF DueInv
<1>13. QED
  BY <1>4, <1>5, <1>8, <1>9, <1>10, <1>11, <1>12 DEF PlaceInv

LEMMA ExecuteFacts ==
  ASSUME PlaceInv, execute
  PROVE  list \in Statics /\ node[list] = "in" /\ base + 1 \in Threads
<1>1. /\ list # NoStatic /\ ~executing /\ base < MaxDepth
  BY DEF execute
<1>2. list \in Statics /\ base \in 0..MaxDepth
  BY <1>1 DEF PlaceInv, PlaceTypeOK
<1>3. base + 1 \in Threads
  BY <1>1, <1>2, UnSyncAssumption
<1>4. QED
  BY <1>1, <1>2, <1>3 DEF PlaceInv, ListInv, ChainsInv

LEMMA ExecuteStep ==
  ASSUME LazyInv, PlaceInv, execute
  PROVE  PlaceInv'
<1>a. PICK l \in Statics, k \in Threads : l = list /\ k = base + 1
  BY ExecuteFacts
<1>1. /\ stage = "walk" /\ ~executing /\ executing' = TRUE
      /\ Call(k, l, "finalize_callback") /\ node' = [node EXCEPT ![l] = "taken"]
      /\ UNCHANGED <<phase, base, backend, how, stage, REGISTER, next, list, DONE, DESTROYING,
                     atexit, specific, ITERATION_COUNT, round, visited, foreign, due>>
  BY <1>a DEF execute, Call, locker, unsyncVars, osVars
<1>2. /\ PlaceTypeOK /\ BuiltInv /\ ListInv /\ StageInv /\ CalledInv /\ CallbackInv
      /\ TypeOK /\ node[l] = "in"
  BY <1>a, ExecuteFacts DEF PlaceInv, LazyInv
<1>3. /\ k > base /\ op'[k] = "finalize_callback" /\ on'[k] = l
      /\ \A j \in Threads \ {k} : op'[j] = op[j] /\ on'[j] = on[j]
  <2>1. base \in 0..MaxDepth
    BY <1>2 DEF PlaceTypeOK
  <2>2. k > base
    BY <1>a, <2>1
  <2>3. QED
    BY <1>1, <1>2, <2>2 DEF Call, TypeOK
<1>4. node'[l] = "taken" /\ \A x \in Statics \ {l} : node'[x] = node[x]
  BY <1>1, <1>2 DEF TypeOK
<1>5. PlaceTypeOK'
  BY <1>1, <1>2 DEF PlaceTypeOK
<1>6. BuiltInv'
  <2>1. \A j \in Threads : on'[j] # NoStatic => built(on'[j])
    BY <1>2, <1>3 DEF BuiltInv
  <2>2. \A x \in Statics : node'[x] = "in" => built(x)
    BY <1>2, <1>4 DEF BuiltInv
  <2>3. QED
    BY <1>1, <2>1, <2>2 DEF BuiltInv, built
<1>7. \A s \in Statics : (OnRegister(s)' <=> OnRegister(s)) /\ (OnList(s)' <=> OnList(s))
  BY <1>1 DEF OnRegister, OnList, OnChain
<1>8. ListInv'
  <2>0. NoStatic \notin Statics
    BY LazyAssumption
  <2>1. l # REGISTER /\ \A x \in Statics : next[x] # l
    BY <1>a, <1>1, <1>2, <2>0 DEF ListInv, DistinctInv
  <2>2. ChainsInv'
    BY <1>a, <1>1, <1>2, <1>4, <2>1 DEF ListInv, ChainsInv, PlaceTypeOK, Links
  <2>3. DistinctInv'
    BY <1>1, <1>2 DEF ListInv, DistinctInv
  <2>4. CoverInv'
    BY <1>1, <1>2, <1>4, <1>7 DEF ListInv, CoverInv
  <2>5. QED
    BY <2>2, <2>3, <2>4 DEF ListInv
<1>9. StageInv'
  <2>1. NoStatic \notin Statics
    BY LazyAssumption
  <2>2. QED
    BY <1>a, <1>1, <1>2, <2>1 DEF StageInv
<1>10. CalledInv'
  BY <1>1, <1>2 DEF CalledInv
<1>11. CallbackInv'
  BY <1>a, <1>1, <1>3, NoCallback DEF CallbackInv
<1>12. DueInv'
  <2>1. \A s \in due : "INITIALIZED" \in phase[s] /\ (Waiting(s) \/ "FINALIZED" \in phase[s])
    BY <1>1, NoCallback
  <2>2. \A s \in due : s # l => s \in Statics /\ (Waiting(s) => Waiting(s)')
    BY <1>1, <1>2, <1>4, <1>7 DEF Waiting, PlaceTypeOK
  <2>3. QED
    BY <1>1, <1>3, <2>1, <2>2 DEF DueInv
<1>13. QED
  BY <1>5, <1>6, <1>8, <1>9, <1>10, <1>11, <1>12 DEF PlaceInv

(* The static that is finalized leaves the list.  What was registered      *)
(* meanwhile is lost on windows, and there only.                           *)
LEMMA TakeNextStep ==
  ASSUME LazyInv, PlaceInv, take_next
  PROVE  PlaceInv'
<1>0. NoStatic \notin Statics
  BY LazyAssumption
<1>1. /\ stage = "walk" /\ executing /\ Open = {} /\ executing' = FALSE
      /\ list' = IF next[list] = NoStatic /\ backend # "windows" THEN REGISTER ELSE next[list]
      /\ next' = [next EXCEPT ![list] = NoStatic]
      /\ REGISTER' = IF next[list] = NoStatic THEN NoStatic ELSE REGISTER
      /\ UNCHANGED <<phase, node, pc, op, on, base, backend, how, stage, DONE, DESTROYING,
                     atexit, specific, ITERATION_COUNT, round, visited, foreign, due>>
  BY DEF take_next, vars, unsyncVars, osVars
<1>2. /\ PlaceTypeOK /\ BuiltInv /\ ListInv /\ StageInv /\ CalledInv /\ CallbackInv
      /\ next \in Links /\ REGISTER \in Statics \cup {NoStatic}
  BY DEF PlaceInv, PlaceTypeOK
<1>3. PICK l \in Statics : l = list /\ node[l] = "taken" /\ next[l] \in Statics \cup {NoStatic}
  BY <1>1, <1>2 DEF StageInv, PlaceTypeOK, ListInv, ChainsInv, Links
<1>4. next'[l] = NoStatic /\ \A x \in Statics \ {l} : next'[x] = next[x]
  BY <1>1, <1>2, <1>3 DEF Links
<1>5. l # REGISTER /\ \A x \in Statics : next[x] # l
  BY <1>0, <1>2, <1>3 DEF ListInv, ChainsInv
<1>6. PlaceTypeOK'
  <2>1. next' \in Links /\ list' \in Statics \cup {NoStatic}
    BY <1>1, <1>2, <1>3 DEF Links
  <2>2. QED
    BY <1>1, <1>2, <2>1 DEF PlaceTypeOK
<1>7. BuiltInv'
  BY <1>1, <1>2, BuiltKept
<1>8. ASSUME NEW s \in Statics, node[s] = "in"
      PROVE  /\ OnRegister(s) /\ backend # "windows" => OnRegister(s)' \/ OnList(s)'
             /\ OnList(s) => OnList(s)'
  <2>1. s # l
    BY <1>3, <1>8
  <2>2. /\ OnList(s)' <=> list' # NoStatic /\ OnChain(next', list', s)
        /\ OnRegister(s)' <=> REGISTER' # NoStatic /\ OnChain(next', REGISTER', s)
    BY DEF OnList, OnRegister, OnChain
  <2>3. next' = [next EXCEPT ![l] = NoStatic]
    BY <1>1, <1>3
  <2>4. ASSUME OnRegister(s), backend # "windows" PROVE OnRegister(s)' \/ OnList(s)'
    <3>1. REGISTER \in Statics /\ OnChain(next, REGISTER, s)
      BY <1>2, <2>4 DEF OnRegister
    <3>2. OnChain(next', REGISTER, s)
      BY <1>2, <1>5, <2>1, <2>3, <3>1, ChainCut
    <3>3. QED
      BY <1>0, <1>1, <2>2, <2>4, <3>1, <3>2
  <2>5. ASSUME OnList(s) PROVE OnList(s)'
    <3>1. OnChain(next, l, s)
      BY <1>3, <2>5 DEF OnList
    <3>2. next[l] # NoStatic /\ OnChain(next', next[l], s)
      BY <1>0, <1>2, <2>1, <2>3, <3>1, ChainRest
    <3>3. list' = next[l]
      BY <1>1, <1>3, <3>2
    <3>4. QED
      BY <2>2, <3>2, <3>3
  <2>6. QED
    BY <2>4, <2>5
<1>9. ListInv'
  <2>1. ChainsInv'
    BY <1>1, <1>2, <1>3, <1>4 DEF ListInv, ChainsInv
  <2>2. DistinctInv'
    <3>1. \A x \in Statics : next'[x] # NoStatic => x # l /\ next'[x] = next[x]
      BY <1>4
    <3>2. next[l] # NoStatic => next[l] # REGISTER
      BY <1>2 DEF ListInv, DistinctInv
    <3>3. \A x, y \in Statics : next'[x] = next'[y] /\ next'[x] # NoStatic => x = y
      BY <1>2, <3>1 DEF ListInv, DistinctInv
    <3>4. ASSUME NEW x \in Statics, next'[x] # NoStatic PROVE next'[x] # REGISTER' /\ next'[x] # list'
      BY <1>1, <1>2, <1>3, <3>1, <3>4 DEF ListInv, DistinctInv
    <3>5. list' # NoStatic => list' # REGISTER'
      BY <1>1, <1>3, <3>2
    <3>6. QED
      BY <3>3, <3>4, <3>5 DEF DistinctInv
  <2>3. CoverInv'
    BY <1>1, <1>2, <1>8 DEF ListInv, CoverInv
  <2>4. QED
    BY <2>1, <2>2, <2>3 DEF ListInv
<1>10. StageInv'
  <2>1. Open' = {}
    BY <1>1 DEF Open
  <2>2. QED
    BY <1>1, <1>2, <1>3, <2>1 DEF StageInv
<1>11. CalledInv'
  BY <1>1, <1>2 DEF CalledInv
<1>12. CallbackInv'
  BY <1>1, NoCallback DEF CallbackInv
<1>13. DueInv'
  <2>1. \A s \in due : "INITIALIZED" \in phase[s] /\ (Waiting(s) \/ "FINALIZED" \in phase[s])
    BY <1>1, NoCallback
  <2>2. \A s \in due : s \in Statics /\ (Waiting(s) => Waiting(s)')
    BY <1>1, <1>2, <1>8 DEF Waiting, PlaceTypeOK
  <2>3. QED
    BY <1>1, <2>1, <2>2 DEF DueInv
<1>14. QED
  BY <1>6, <1>7, <1>9, <1>10, <1>11, <1>12, <1>13 DEF PlaceInv

(* The walk ends, the key is passed, or the thread is over.                *)
LEMMA StageStep ==
  ASSUME LazyInv, PlaceInv, EndWalk \/ PassKey \/ ThreadOver
  PROVE  PlaceInv'
<1>1. /\ stage \in {"other", "walk"} /\ stage' \in {"other", "over"}
      /\ UNCHANGED <<phase, node, pc, op, on, base, backend, how, REGISTER, next, list, executing,
                     atexit, specific, ITERATION_COUNT, foreign, due>>
  BY DEF EndWalk, PassKey, ThreadOver, vars, unsyncVars, walkVars, osVars
<1>2. /\ PlaceTypeOK /\ BuiltInv /\ ListInv /\ StageInv /\ CalledInv /\ CallbackInv
  BY DEF PlaceInv
<1>3. list = NoStatic /\ ~executing /\ Open = {} /\ ~DESTROYING'
  <2>1. CASE EndWalk
    <3>1. stage = "walk" /\ list = NoStatic /\ DESTROYING' = FALSE
      BY <2>1 DEF EndWalk
    <3>2. ~executing
      BY <1>2, <3>1 DEF StageInv
    <3>3. QED
      BY <1>2, <3>1, <3>2 DEF StageInv
  <2>2. CASE PassKey \/ ThreadOver
    <3>1. stage = "other" /\ Open = {} /\ UNCHANGED DESTROYING
      BY <2>2 DEF PassKey, ThreadOver
    <3>2. QED
      BY <1>2, <3>1 DEF StageInv
  <2>3. QED
    BY <2>1, <2>2
<1>4. PlaceTypeOK'
  <2>1. {DONE', DESTROYING', visited'} \subseteq BOOLEAN
    <3>1. {DONE, DESTROYING, visited} \subseteq BOOLEAN
      BY <1>2 DEF PlaceTypeOK
    <3>2. /\ DONE' = DONE \/ DONE' = (DONE \/ backend = "windows")
          /\ DESTROYING' = DESTROYING \/ DESTROYING' = FALSE
          /\ visited' = visited \/ visited' = TRUE \/ visited' = FALSE
      BY DEF EndWalk, PassKey, ThreadOver, osVars
    <3>3. QED
      BY <3>1, <3>2
  <2>2. round' \in 0..Iterations
    <3>1. round' = round \/ (round < Iterations /\ round' = round + 1)
      BY DEF EndWalk, PassKey, ThreadOver, osVars
    <3>2. QED
      BY <1>2, <3>1, ThreadExitAssumption DEF PlaceTypeOK
  <2>3. QED
    BY <1>1, <1>2, <2>1, <2>2 DEF PlaceTypeOK
<1>5. BuiltInv'
  BY <1>1, <1>2, BuiltKept
<1>6. \A s \in Statics : (OnRegister(s)' <=> OnRegister(s)) /\ (OnList(s)' <=> OnList(s)) /\ ~OnList(s)
  BY <1>1, <1>3 DEF OnRegister, OnList, OnChain
<1>7. ListInv'
  <2>1. ChainsInv' /\ DistinctInv'
    BY <1>1, <1>2 DEF ListInv, ChainsInv, DistinctInv
  <2>2. CoverInv'
    BY <1>1, <1>2, <1>6 DEF ListInv, CoverInv
  <2>3. QED
    BY <2>1, <2>2 DEF ListInv
<1>8. backend \in {"windows", "cxa", "pthread"}
  BY <1>2, ThreadExitAssumption DEF PlaceTypeOK
<1>9. Open' = {}
  BY <1>1, <1>3 DEF Open
<1>10. /\ stage' = "over" => visited' \/ backend = "cxa"
       /\ stage' = "over" /\ backend = "cxa" => REGISTER = NoStatic
  <2>1. CASE ThreadOver
    <3>1. /\ stage = "other" /\ UNCHANGED visited
          /\ backend = "cxa" => atexit = 0
          /\ backend # "cxa" => visited
      BY <1>8, <2>1 DEF ThreadOver, osVars
    <3>2. QED
      BY <1>2, <3>1 DEF CalledInv
  <2>2. CASE EndWalk \/ PassKey
    BY <1>1, <2>2 DEF EndWalk, PassKey
  <2>3. QED
    BY <2>1, <2>2
<1>11. StageInv'
  BY <1>1, <1>3, <1>9, <1>10 DEF StageInv
<1>12. CalledInv' /\ \A s \in due : s \in Statics /\ (Waiting(s) => Waiting(s)')
  <2>1. CASE EndWalk
    <3>1. stage = "walk" /\ (backend # "windows" => REGISTER = NoStatic)
      BY <1>2, <2>1 DEF EndWalk, StageInv
    <3>2. CalledInv'
      BY <1>1, <3>1 DEF CalledInv
    <3>3. QED
      BY <1>1, <1>2, <1>6, <3>1, <3>2 DEF Waiting, PlaceTypeOK
  <2>2. CASE PassKey
    <3>1. /\ backend = "pthread" /\ stage = "other" /\ stage' = "other"
          /\ \/ ~visited /\ ~specific
             \/ visited /\ visited' = FALSE
      BY <1>1, <2>2 DEF PassKey
    <3>2. CASE visited /\ visited' = FALSE
      BY <1>1, <1>2, <1>6, <3>1, <3>2 DEF CalledInv, Waiting, PlaceTypeOK
    <3>3. CASE ~visited /\ ~specific
      <4>1. REGISTER = NoStatic
        BY <1>2, <3>1, <3>3 DEF CalledInv
      <4>2. QED
        BY <1>1, <1>2, <1>6, <3>1, <4>1 DEF CalledInv, Waiting, PlaceTypeOK, OnRegister
    <3>4. QED
      BY <3>1, <3>2, <3>3
  <2>3. CASE ThreadOver
    <3>1. /\ stage = "other" /\ stage' = "over" /\ UNCHANGED visited
          /\ backend # "cxa" => visited
      BY <1>8, <2>3 DEF ThreadOver, osVars
    <3>2. CalledInv'
      BY <1>1, <1>2, <3>1 DEF CalledInv
    <3>3. QED
      BY <1>1, <1>2, <1>6, <3>1, <3>2 DEF Waiting, PlaceTypeOK
  <2>4. QED
    BY <2>1, <2>2, <2>3
<1>13. CallbackInv'
  BY <1>1, <1>3, NoCallback DEF CallbackInv
<1>14. DueInv'
  <2>1. \A s \in due : "INITIALIZED" \in phase[s] /\ (Waiting(s) \/ "FINALIZED" \in phase[s])
    BY <1>1, <1>3, NoCallback
  <2>2. QED
    BY <1>1, <1>12, <2>1 DEF DueInv
<1>15. QED
  BY <1>4, <1>5, <1>7, <1>11, <1>12, <1>13, <1>14 DEF PlaceInv
-----------------------------------------------------------------------------
(***************************************************************************)
(* Each step preserves the invariant.                                      *)
(***************************************************************************)
LEMMA RegisteringStep ==
  ASSUME ThreadInv, DropsAreLocked, NEW k \in Threads, k \in Open, finalize_at_thread_exit(k),
         stage \notin {"over", "aborted"}
  PROVE  ThreadInv'
<1>0. LazyInv /\ WordInv /\ KeyInv /\ CellInv /\ PlaceInv
  BY DEF ThreadInv
<1>1. /\ pc[k] = "register" /\ (Refuse(k) \/ Push(k)) /\ (backend = "cxa" => Push(k))
      /\ UNCHANGED <<backend, how, stage, list, executing, DONE, DESTROYING, round, visited,
                     foreign, due, base>>
  BY DEF finalize_at_thread_exit, RegisterWindows, RegisterCxa, RegisterPthread, walkVars, osVars
<1>2. /\ on[k] \in Statics /\ node[on[k]] = "out" /\ built(on[k])
      /\ node \in [Statics -> {"out", "in", "taken"}]
  BY <1>0, <1>1, RegisterFacts DEF LazyInv, TypeOK
<1>3. PICK a \in {"registered", "refused"} :
        /\ Register(k, a) /\ SetCell(k)
        /\ a = "registered" <=> Push(k)
        /\ a = "refused" => Refuse(k)
  <2>1. CASE Push(k)
    BY <2>1 DEF Push
  <2>2. CASE ~Push(k)
    BY <1>1, <2>2 DEF Refuse
  <2>3. QED
    BY <2>1, <2>2
<1>4. LazyInv'
  <2>1. Tolerance[on[k]].REG_ALWAYS => a = "registered"
    BY <1>1, <1>2, <1>3 DEF built
  <2>2. QED
    BY <1>0, <1>3, <2>1, RegisterStep
<1>5. node' = [node EXCEPT ![on[k]] = IF a = "registered" THEN "in" ELSE @]
  BY <1>3 DEF Register
<1>6. \A r \in Statics : node[r] # "out" => node'[r] # "out"
  BY <1>2, <1>5
<1>7. WordInv' /\ Turns(k)
  BY <1>0, <1>3, <1>6, TurnsProceed
<1>8. CellInv'
  BY <1>0, <1>3, CellSteps
<1>9. KeyInv'
  <2>1. UNCHANGED keyVars \/ UseKey(Self)
    BY DEF finalize_at_thread_exit, RegisterWindows, RegisterCxa, RegisterPthread
  <2>2. QED
    BY <1>0, <2>1, KeyKept, KeyStep, ThreadExitAssumption
<1>10. PlaceInv'
  <2>1. CASE a = "registered"
    <3>1. /\ Push(k) /\ node' = [node EXCEPT ![on[k]] = "in"]
      BY <1>3, <1>5, <2>1
    <3>2. /\ REGISTER' = on[k]
          /\ next' = [next EXCEPT ![on[k]] =
                        IF backend = "cxa" /\ REGISTER = NoStatic THEN @ ELSE REGISTER]
      BY <3>1 DEF Push
    <3>3. \/ backend = "windows" /\ UNCHANGED <<atexit, specific, ITERATION_COUNT>>
          \/ /\ backend = "cxa" /\ UNCHANGED <<specific, ITERATION_COUNT>>
             /\ atexit' = IF REGISTER = NoStatic /\ ~DESTROYING THEN atexit + 1 ELSE atexit
          \/ /\ backend = "pthread" /\ UNCHANGED atexit /\ specific' = TRUE
             /\ ITERATION_COUNT' = IF specific THEN ITERATION_COUNT ELSE ITERATION_COUNT + 1
             /\ specific \/ iterations_left
      <4>1. ~Refuse(k)
        BY <1>0, <1>2, <3>1 DEF Refuse, Register
      <4>2. QED
        BY <4>1 DEF finalize_at_thread_exit, RegisterWindows, RegisterCxa, RegisterPthread
    <3>4. QED
      BY <1>0, <1>1, <1>7, <3>1, <3>2, <3>3, PushStep
  <2>2. CASE a = "refused"
    <3>1. UNCHANGED <<REGISTER, next, atexit, specific, ITERATION_COUNT>>
      BY <1>3, <2>2 DEF Refuse
    <3>2. UNCHANGED node
      BY <1>2, <1>5, <2>2
    <3>3. UNCHANGED quietVars
      BY <1>1, <3>1, <3>2 DEF quietVars
    <3>4. foreign' \in 0..MaxForeign /\ foreign' >= foreign
      BY <1>0, <1>1, ThreadExitAssumption DEF PlaceInv, PlaceTypeOK
    <3>5. QED
      BY <1>0, <1>1, <1>7, <3>3, <3>4, QuietStep
  <2>3. QED
    BY <2>1, <2>2
<1>11. QED
  BY <1>4, <1>7, <1>8, <1>9, <1>10 DEF ThreadInv

LEMMA UserStep ==
  ASSUME ThreadInv, DropsAreLocked, UserCode
  PROVE  ThreadInv'
<1>0. /\ LazyInv /\ WordInv /\ KeyInv /\ CellInv /\ PlaceInv /\ BuiltInv
      /\ base \in 0..MaxDepth /\ foreign \in 0..MaxForeign /\ MaxForeign \in Nat
  BY ThreadExitAssumption DEF ThreadInv, PlaceInv, PlaceTypeOK
<1>1. ASSUME NEW s \in Statics, Client(s) PROVE ThreadInv'
  <2>1. /\ Enter(s) /\ built(s)
        /\ UNCHANGED <<base, keyVars, backend, how, stage, REGISTER, next, list, executing, DONE,
                       DESTROYING, atexit, specific, ITERATION_COUNT, round, visited, due>>
        /\ \/ Open # {} /\ foreign' = foreign
           \/ stage = "alive" /\ foreign' = foreign
           \/ stage = "other" /\ foreign < MaxForeign /\ foreign' = foreign + 1
    BY <1>1 DEF Client, walkVars, InForeignCode
  <2>2. /\ Top + 1 \in Threads /\ UNCHANGED node
        /\ LazyInv' /\ WordInv' /\ Turns(Top + 1)
    BY <1>0, <2>1, TurnsEnter
  <2>3. UNCHANGED quietVars
    BY <2>1, <2>2 DEF quietVars
  <2>4. CellInv' /\ KeyInv'
    BY <1>0, <2>1, CellEnter, KeyKept
  <2>5. /\ foreign' \in 0..MaxForeign /\ foreign' >= foreign
        /\ Open # {} \/ stage = "alive" \/ (stage = "other" /\ foreign' > foreign)
        /\ stage = "alive" => foreign' = foreign
    BY <1>0, <2>1
  <2>6. PlaceInv'
    BY <1>0, <2>1, <2>2, <2>3, <2>5, QuietStep
  <2>7. QED
    BY <2>2, <2>4, <2>6 DEF ThreadInv
<1>2. ASSUME NEW k \in Threads, Guards(k) PROVE ThreadInv'
  <2>1. /\ DropGuard(k) \/ CloneGuard(k) \/ ConvertGuard(k)
        /\ Open # {} /\ UNCHANGED <<base, keyVars, exitVars>>
    BY <1>2 DEF Guards, DropGuard
  <2>2. PICK j \in Threads : LazyInv' /\ WordInv' /\ Turns(j) /\ UNCHANGED node
    BY <1>0, <2>1, TurnsOpen, TurnsClone
  <2>3. CellInv' /\ KeyInv'
    BY <1>0, <2>1, CellSteps, CellClone, KeyKept
  <2>4. UNCHANGED quietVars /\ UNCHANGED <<stage, foreign>>
    BY <2>1, <2>2 DEF quietVars, exitVars
  <2>5. foreign' \in 0..MaxForeign /\ foreign' >= foreign
    BY <1>0, <2>4
  <2>6. PlaceInv'
    BY <1>0, <2>1, <2>2, <2>4, <2>5, QuietStep
  <2>7. QED
    BY <2>2, <2>3, <2>6 DEF ThreadInv
<1>3. QED
  BY <1>1, <1>2 DEF UserCode

LEMMA AdvanceStep ==
  ASSUME ThreadInv, DropsAreLocked, Advance \/ FinalyAborts, stage \notin {"over", "aborted"}
  PROVE  ThreadInv'
<1>0. /\ LazyInv /\ WordInv /\ KeyInv /\ CellInv /\ PlaceInv
      /\ base \in 0..MaxDepth /\ foreign \in 0..MaxForeign /\ MaxForeign \in Nat
  BY ThreadExitAssumption DEF ThreadInv, PlaceInv, PlaceTypeOK
<1>1. Open # {}
  BY DEF Advance, FinalyAborts
<1>2. PICK k \in Threads : k = Top /\ k \in Open
  BY <1>0, <1>1, TopFacts
<1>3. CASE finalize_at_thread_exit(k)
  BY <1>2, <1>3, RegisteringStep
<1>4. CASE ~finalize_at_thread_exit(k)
  <2>1. \/ /\ Lock(k) \/ TryLockFails(k) \/ AnswerPrimed(k) \/ EndGenerator(k) \/ EndFinaly(k)
           /\ UNCHANGED stage
        \/ LockPanics(k) /\ stage' = IF op[k] = "finalize_callback" THEN "aborted" ELSE stage
        \/ FinalyPanics(k) /\ SetCell(k) /\ stage' = "aborted"
    BY <1>2, <1>4 DEF Advance, FinalyAborts, exitVars
  <2>2. UNCHANGED <<base, keyVars, backend, how, REGISTER, next, list, executing, DONE, DESTROYING,
                    atexit, specific, ITERATION_COUNT, round, visited, foreign, due>>
    BY <1>2, <1>4 DEF Advance, FinalyAborts, exitVars, walkVars, osVars
  <2>3. /\ LazyInv' /\ WordInv' /\ Turns(k) /\ UNCHANGED node
        /\ stage' = stage \/ (stage' = "aborted" /\ op[k] = "finalize_callback" /\ op'[k] = "none")
    BY <1>0, <2>1, TurnsOpen, TurnsPanic
  <2>4. CellInv' /\ KeyInv'
    BY <1>0, <2>1, <2>2, CellSteps, KeyKept
  <2>5. UNCHANGED quietVars
    BY <2>2, <2>3 DEF quietVars
  <2>6. foreign' \in 0..MaxForeign /\ foreign' >= foreign
    BY <1>0, <2>2
  <2>7. PlaceInv'
    BY <1>0, <1>1, <2>2, <2>3, <2>5, <2>6, QuietStep
  <2>8. QED
    BY <2>3, <2>4, <2>7 DEF ThreadInv
<1>5. QED
  BY <1>3, <1>4

LEMMA SystemStep ==
  ASSUME ThreadInv, System \/ \E h \in {"thread", "process"} : Exit(h)
  PROVE  ThreadInv'
<1>0. LazyInv /\ WordInv /\ KeyInv /\ CellInv /\ PlaceInv
  BY DEF ThreadInv
<1>1. UNCHANGED keyVars /\ UNCHANGED <<phase, writers, readers, pending, cell>>
  BY DEF System, execute_destroy, execute, take_next, EndWalk, PassKey, ThreadOver, Exit, Call, vars,
       locker, unsyncVars
<1>2. KeyInv' /\ CellInv'
  BY <1>0, <1>1, KeyKept, CellKept
<1>3. CASE execute
  <2>1. list \in Statics /\ node[list] = "in" /\ base + 1 \in Threads
    BY <1>0, <1>3, ExecuteFacts
  <2>2. Call(base + 1, list, "finalize_callback") /\ node' = [node EXCEPT ![list] = "taken"]
    BY <1>3 DEF execute
  <2>3. Finalize(base + 1, list)
    BY <2>1, <2>2 DEF Finalize
  <2>4. LazyInv'
    BY <1>0, <2>1, <2>3, FinalizeStep
  <2>5. \A r \in Statics : node[r] # "out" => node'[r] # "out"
    BY <1>0, <2>1, <2>2 DEF LazyInv, TypeOK
  <2>6. WordInv'
    BY <1>0, <1>1, <2>5, WordKept
  <2>7. QED
    BY <1>0, <1>2, <1>3, <2>4, <2>6, ExecuteStep DEF ThreadInv
<1>4. CASE ~execute
  <2>1. UNCHANGED vars
    BY <1>4 DEF System, execute_destroy, take_next, EndWalk, PassKey, ThreadOver, Exit
  <2>2. LazyInv' /\ UNCHANGED node
    BY <1>0, <2>1, LazyUnchanged DEF vars
  <2>3. WordInv'
    BY <1>0, <1>1, <2>2, WordKept
  <2>4. PlaceInv'
    BY <1>0, <1>4, ExitStep, DestroyStep, TakeNextStep, StageStep DEF System
  <2>5. QED
    BY <1>2, <2>2, <2>3, <2>4 DEF ThreadInv
<1>5. QED
  BY <1>3, <1>4

(* get_key leaves the rest alone.                                          *)
LEMMA KeyOnlyStep ==
  ASSUME ThreadInv, UNCHANGED <<vars, unsyncVars, exitVars>>, KeyInv'
  PROVE  ThreadInv'
<1>0. LazyInv /\ WordInv /\ CellInv /\ PlaceInv
  BY DEF ThreadInv
<1>1. UNCHANGED <<phase, writers, readers, pending, node, pc, op, on, cell, base>>
  BY DEF vars, unsyncVars
<1>2. UNCHANGED <<backend, how, stage, REGISTER, next, list, executing, DONE, DESTROYING, atexit,
                  specific, ITERATION_COUNT, round, visited, foreign, due>>
  BY DEF exitVars
<1>3. LazyInv' /\ WordInv' /\ CellInv'
  BY <1>0, <1>1, LazyUnchanged, WordKept, CellKept
<1>4. PlaceTypeOK' /\ BuiltInv'
  BY <1>0, <1>1, <1>2, BuiltKept DEF PlaceInv, PlaceTypeOK
<1>5. \A s \in Statics : (OnRegister(s)' <=> OnRegister(s)) /\ (OnList(s)' <=> OnList(s))
  BY <1>2 DEF OnRegister, OnList, OnChain
<1>6. ListInv'
  BY <1>0, <1>1, <1>2, <1>5 DEF PlaceInv, ListInv, ChainsInv, DistinctInv, CoverInv
<1>7. StageInv' /\ CalledInv' /\ CallbackInv'
  BY <1>0, <1>1, <1>2 DEF PlaceInv, StageInv, CalledInv, CallbackInv, Open
<1>8. DueInv'
  <2>1. due \subseteq Statics
    BY <1>0 DEF PlaceInv, PlaceTypeOK
  <2>2. \A s \in due : Waiting(s) => Waiting(s)'
    BY <1>1, <1>2, <1>5, <2>1 DEF Waiting
  <2>3. QED
    BY <1>0, <1>1, <1>2, <2>2 DEF PlaceInv, DueInv
<1>9. QED
  BY <1>3, <1>4, <1>6, <1>7, <1>8 DEF ThreadInv, PlaceInv

LEMMA ThreadInitInv ==
  ASSUME ThreadInit
  PROVE  ThreadInv
<1>0. NoStatic \notin Statics /\ MAX \notin Keys
  BY LazyAssumption, KeyAssumption
<1>1. Init /\ KeyInit /\ cell = [s \in Statics |-> 0] /\ base = 0
  BY DEF ThreadInit, UnSyncInit
<1>2. LazyInv
  BY <1>1, LazyInit
<1>3. WordInv
  BY <1>1 DEF Init, WordInv, WordOK
<1>4. KeyInv
  BY <1>0, <1>1 DEF KeyInit, KeyInv, KeyTypeOK, exchanging
<1>5. CellInv
  <2>1. \A s \in Statics : units(writers[s], readers[s]) = 0
    BY <1>1, FS_EmptySet DEF Init, units
  <2>2. QED
    BY <1>1, <2>1 DEF CellInv
<1>6. PlaceTypeOK
  <2>1. 0 \in 0..MaxDepth /\ 0 \in 0..Iterations /\ 0 \in 0..MaxForeign
    BY UnSyncAssumption, ThreadExitAssumption
  <2>2. QED
    BY <1>1, <2>1 DEF ThreadInit, PlaceTypeOK, Links
<1>7. BuiltInv /\ ListInv
  BY <1>1 DEF ThreadInit, Init, BuiltInv, ListInv, ChainsInv, DistinctInv, CoverInv
<1>8. StageInv /\ CalledInv /\ CallbackInv /\ DueInv
  BY <1>1 DEF ThreadInit, Init, StageInv, CalledInv, CallbackInv, DueInv
<1>9. QED
  BY <1>2, <1>3, <1>4, <1>5, <1>6, <1>7, <1>8 DEF ThreadInv, PlaceInv

LEMMA ThreadNextInv ==
  ASSUME ThreadInv, DropsAreLocked, [ThreadNext]_allVars
  PROVE  ThreadInv'
<1>1. CASE UNCHANGED allVars
  BY <1>1, KeyOnlyStep, KeyKept DEF allVars, ThreadInv
<1>2. CASE /\ stage \notin {"over", "aborted"}
           /\ \/ \E h \in {"thread", "process"} : Exit(h)
              \/ System \/ UserCode \/ Advance \/ FinalyAborts
  BY <1>2, SystemStep, UserStep, AdvanceStep
<1>3. ASSUME NEW c \in Callers, GetKey(c) PROVE ThreadInv'
  BY <1>3, KeyOnlyStep, KeyStep DEF GetKey, ThreadInv
<1>4. QED
  BY <1>1, <1>2, <1>3 DEF ThreadNext, Ended

(* Whatever the back end, and whatever the destructors of the thread do    *)
(* with its statics, the list that finalize_at_thread_exit builds is sound *)
(* and holds what is due.                                                  *)
THEOREM ThreadInvariance ==
  ASSUME DropsAreLocked
  PROVE  ThreadSpec => []ThreadInv
<1>1. ThreadInit => ThreadInv
  BY ThreadInitInv
<1>2. ThreadInv /\ [ThreadNext]_allVars => ThreadInv'
  BY ThreadNextInv
<1>3. QED
  BY <1>1, <1>2, PTL DEF ThreadSpec

(* ITERATION_COUNT and the rounds of pthread keep their bounds, the Cells  *)
(* their width, and the list holds statics.                                *)
THEOREM ThreadTypeCorrect ==
  ASSUME DropsAreLocked
  PROVE  ThreadSpec => []ThreadTypeOK
<1>1. ThreadInv => ThreadTypeOK
  <2>1. ThreadInv => TypeOK /\ cell \in [Statics -> 0..(4 * Overf - 1)] /\ KeyTypeOK /\ PlaceTypeOK
    BY CellInvExact DEF ThreadInv, LazyInv, KeyInv, PlaceInv
  <2>2. QED
    BY <2>1 DEF ThreadTypeOK, UnSyncTypeOK, PlaceTypeOK, Links
<1>2. QED
  BY <1>1, ThreadInvariance, PTL

(* Accesses to thread-local statics are sound while the thread exits, with *)
(* calls nested in generators and in finaly; finaly is called once, and    *)
(* the assertions of the lazy sequentializer hold.                         *)
THEOREM ThreadAccessIsSound ==
  ASSUME DropsAreLocked
  PROVE  ThreadSpec => [](AccessSound /\ FinalyOnce /\ AssertionsHold)
<1>1. ThreadInv => AccessSound /\ FinalyOnce /\ AssertionsHold
  BY LazyInvSound, LazyInvFinaly, LazyInvAssertions DEF ThreadInv
<1>2. QED
  BY <1>1, ThreadInvariance, PTL

(* A target is dropped while nobody has a guard on it, if it can only be   *)
(* reached through guards: what the attribute drop of a thread_local that  *)
(* is not mut lets happen is all that can go wrong.                        *)
THEOREM ThreadDropsAreExclusive ==
  ASSUME DropsAreLocked
  PROVE  ThreadSpec => []DropExclusive
<1>1. ASSUME ThreadInv, base \in 0..MaxDepth PROVE DropExclusive
  <2>1. FinalyOnce /\ Open \subseteq Threads
    BY <1>1, LazyInvFinaly, TopFacts DEF ThreadInv
  <2>2. QED
    BY <2>1 DEF FinalyOnce, DropExclusive, holding
<1>2. ThreadInv => base \in 0..MaxDepth
  BY DEF ThreadInv, PlaceInv, PlaceTypeOK
<1>3. QED
  BY <1>1, <1>2, ThreadInvariance, PTL

(* The Cell of the thread-local locker counts the guards, so that lock     *)
(* panics if and only if the new guard would conflict with one.            *)
THEOREM CellIsExact ==
  ASSUME DropsAreLocked
  PROVE  ThreadSpec => []CellExact
<1>1. ThreadInv => CellExact
  BY CellInvExact DEF ThreadInv
<1>2. QED
  BY <1>1, ThreadInvariance, PTL

(* The threads agree on one pthread key.                                   *)
THEOREM KeysAgree ==
  ASSUME DropsAreLocked
  PROVE  ThreadSpec => []OneKey
<1>1. ThreadInv => OneKey
  BY KeyInvOne DEF ThreadInv
<1>2. QED
  BY <1>1, ThreadInvariance, PTL

(* What was due when the thread began to exit is finalized when it has     *)
(* exited; with cxa, and with pthread while the list is walked, so is what *)
(* was registered later.                                                   *)
THEOREM ThreadNoneIsLost ==
  ASSUME DropsAreLocked
  PROVE  ThreadSpec => []ThreadNoneLost
<1>1. ASSUME ThreadInv, stage = "over"
      PROVE  /\ \A s \in due : "FINALIZED" \in phase[s]
             /\ \/ backend = "cxa"
                \/ backend = "pthread" /\ how = "thread" /\ foreign = 0
                => \A s \in Statics : node[s] # "in"
  <2>1. LazyInv /\ PlaceInv /\ StageInv /\ CalledInv /\ ListInv /\ PlaceTypeOK
    BY <1>1 DEF ThreadInv, PlaceInv
  <2>2. list = NoStatic /\ (visited \/ backend = "cxa")
    BY <1>1, <2>1 DEF StageInv
  <2>3. backend = "cxa" \/ (backend = "pthread" /\ foreign = 0) => REGISTER = NoStatic
    BY <1>1, <2>1, <2>2 DEF StageInv, CalledInv
  <2>4. \A s \in Statics : ~OnList(s) /\ (REGISTER = NoStatic => ~OnRegister(s))
    BY <2>2 DEF OnList, OnRegister
  <2>5. backend \in {"cxa", "pthread"} /\ REGISTER = NoStatic => \A s \in Statics : node[s] # "in"
    BY <2>1, <2>4 DEF ListInv, CoverInv
  <2>6. \A s \in due : s \in Statics /\ (Waiting(s) \/ "FINALIZED" \in phase[s])
    BY <1>1, <2>1, NoCallback DEF PlaceTypeOK
  <2>7. \A s \in due : ~Waiting(s)
    BY <1>1, <2>3, <2>4, <2>5, <2>6 DEF Waiting
  <2>8. QED
    BY <2>3, <2>5, <2>6, <2>7
<1>2. ThreadInv => ThreadNoneLost
  BY <1>1 DEF ThreadNoneLost
<1>3. QED
  BY <1>2, ThreadInvariance, PTL
=============================================================================
