----------------------------- MODULE RawStatic -----------------------------
(***************************************************************************)
(* The program that contains the expanded static, from its constructors to *)
(* its destructors: raw statics (#[dynamic(<priority>)] and drop_only) of  *)
(* src/src/raw_static.rs in debug mode, functions with #[constructor] and  *)
(* #[destructor], and the constructors of the lesser lazies.               *)
(*                                                                         *)
(* What the linker and the C run time do is external: the functions of     *)
(* .init_array.NNNNN are called before main in the order of NNNNN, those   *)
(* of .fini_array.NNNNN after it in the reverse order, each in one thread; *)
(* the order of equal NNNNN is that of the link.  main returns or calls    *)
(* exit; constructors do not call exit.                                    *)
(***************************************************************************)
EXTENDS DynamicMacro

CONSTANTS
  This,          \* the static that #[dynamic] expands
  Others,        \* other raw statics
  MaxPriority    \* u16::MAX

ASSUME RawAssumption ==
  /\ This \notin Others
  /\ (Others \cup {This}) \cap {"none", "constructor", "destructor", "__lazy_init", "mark_inited"} = {}
  /\ MaxPriority \in Nat /\ \A p \in Priorities : p <= MaxPriority

VARIABLES
  mode,              \* init_mode and drop_mode in the StaticInfo of each raw static
  status,            \* 0 uninitialized, 1 initialized, 2 dropped
  init_array, fini_array,
  cur,               \* the function that runs, with its priority
  CUR_INIT_PRIO, CUR_DROP_PRIO,
  lazy_inited,       \* the lesser lazies whose constructor has run
  LAZY_INIT_ENSURED

runVars == <<mode, status, init_array, fini_array, cur, CUR_INIT_PRIO, CUR_DROP_PRIO, lazy_inited, LAZY_INIT_ENSURED>>

MIN == -1   \* i32::MIN, below all priorities
NoCode == [fn |-> "none", prio |-> MIN]
Functions == [fn : {This, "constructor", "destructor", "__lazy_init", "mark_inited"} \cup Others,
              prio : Priorities \cup {0, 1}]

(* The modes with which parse_dyn_options accepts a raw static.            *)
RawModes ==
  {m \in [init : {"Const", "Dynamic"}, init_prio : Priorities \cup {0, NoPriority},
          drop : {"None", "Dynamic"}, drop_prio : Priorities \cup {0, NoPriority}] :
     /\ m.init = "Dynamic" <=> m.init_prio # NoPriority
     /\ m.drop = "Dynamic" <=> m.drop_prio # NoPriority
     /\ m.init = "Const" => m.drop = "Dynamic"}

RawTypeOK ==
  /\ MacroTypeOK
  /\ stage \in {"source", "parsed", "rejected", "expanded",
                "constructors", "main", "destructors", "ended", "aborted"}
  /\ DOMAIN mode \subseteq Others \cup {This}
  /\ \A s \in DOMAIN mode : mode[s] \in RawModes
  /\ status \in [DOMAIN mode -> 0..2]
  /\ init_array \subseteq Functions /\ fini_array \subseteq Functions
  /\ cur \in Functions \cup {NoCode}
  /\ {CUR_INIT_PRIO, CUR_DROP_PRIO} \subseteq Priorities \cup {0, MIN}
  /\ lazy_inited \in BOOLEAN /\ LAZY_INIT_ENSURED \in BOOLEAN

RawInit ==
  /\ MacroInit
  /\ mode = <<>> /\ status = <<>>
  /\ init_array = {} /\ fini_array = {} /\ cur = NoCode
  /\ CUR_INIT_PRIO = MIN /\ CUR_DROP_PRIO = MIN
  /\ lazy_inited = FALSE /\ LAZY_INIT_ENSURED = FALSE
-----------------------------------------------------------------------------
(* The sections of the constructors and destructors.                       *)
init_section(p) == MaxPriority - p
fini_section(p) == MaxPriority - p

entry(f, p) == [fn |-> f, prio |-> p]

(* The program is linked: with the other raw statics, one constructor and  *)
(* one destructor of some priority, and where priorities are supported the *)
(* one that sets LAZY_INIT_ENSURED.  Of the source only the mode is left.  *)
Link ==
  /\ stage = "expanded" /\ typ \in Raw \cup Global
  /\ \E others \in [Others -> RawModes], p, q \in Priorities :
       LET this == [init |-> opt.init, init_prio |-> opt.init_prio, drop |-> opt.drop, drop_prio |-> opt.drop_prio]
           m == [s \in Others \cup (IF typ \in Raw THEN {This} ELSE {}) |->
                   IF s = This THEN this ELSE others[s]]
       IN /\ platform = "mach_o" => \A s \in Others : {m[s].init_prio, m[s].drop_prio} \subseteq {0, NoPriority}
          /\ platform = "mach_o" => p = 0 /\ q = 0
          /\ mode' = m
          /\ status' = [s \in DOMAIN m |-> IF m[s].init = "Const" THEN 1 ELSE 0]
          /\ init_array' =
               {entry(s, m[s].init_prio) : s \in {s \in DOMAIN m : m[s].init = "Dynamic"}}
               \cup {entry("constructor", p)}
               \cup (IF support_priority THEN {entry("mark_inited", 0)} ELSE {})
               \cup (IF support_priority /\ typ \in Global THEN {entry("__lazy_init", 1)} ELSE {})
          /\ fini_array' =
               {entry(s, m[s].drop_prio) : s \in {s \in DOMAIN m : m[s].drop = "Dynamic"}}
               \cup {entry("destructor", q)}
          /\ lazy_inited' = (typ \notin Global)
  /\ stage' = "constructors"
  /\ args' = <<>> /\ init_set' = FALSE /\ drop_set' = FALSE /\ typ' = "none"
  /\ item' = [mutable |-> FALSE, thread_local |-> FALSE, match |-> FALSE]
  /\ opt' = [init |-> "Lazy", init_prio |-> NoPriority, drop |-> "None", drop_prio |-> NoPriority,
             init_fail |-> TRUE, registration_fail |-> FALSE, priming |-> FALSE]
  /\ UNCHANGED <<platform, cur, CUR_INIT_PRIO, CUR_DROP_PRIO, LAZY_INIT_ENSURED>>
-----------------------------------------------------------------------------
sourceVars == <<platform, item, args, opt, init_set, drop_set, typ>>

(* A constructor begins; __static_init_initializer of a raw static sets    *)
(* CUR_INIT_PRIO first.                                                    *)
CallConstructor(f) ==
  /\ stage = "constructors" /\ cur = NoCode /\ f \in init_array
  /\ \A g \in init_array : init_section(f.prio) <= init_section(g.prio)
  /\ init_array' = init_array \ {f}
  /\ cur' = f
  /\ CUR_INIT_PRIO' = IF f.fn \in DOMAIN mode THEN f.prio ELSE CUR_INIT_PRIO
  /\ UNCHANGED <<sourceVars, stage, mode, status, fini_array, CUR_DROP_PRIO, lazy_inited, LAZY_INIT_ENSURED>>

(* It ends: set_to, and __set_init_prio(i32::MIN).                         *)
EndConstructor ==
  /\ stage = "constructors" /\ cur # NoCode
  /\ status' = IF cur.fn \in DOMAIN mode THEN [status EXCEPT ![cur.fn] = 1] ELSE status
  /\ CUR_INIT_PRIO' = IF cur.fn \in DOMAIN mode THEN MIN ELSE CUR_INIT_PRIO
  /\ lazy_inited' = (lazy_inited \/ cur.fn = "__lazy_init")
  /\ LAZY_INIT_ENSURED' = (LAZY_INIT_ENSURED \/ cur.fn = "mark_inited")
  /\ cur' = NoCode
  /\ UNCHANGED <<sourceVars, stage, mode, init_array, fini_array, CUR_DROP_PRIO>>

Main ==
  /\ \/ stage = "constructors" /\ cur = NoCode /\ init_array = {} /\ stage' = "main"
     \/ stage = "main" /\ stage' = "destructors"
     \/ stage = "destructors" /\ cur = NoCode /\ fini_array = {} /\ stage' = "ended"
  /\ UNCHANGED <<sourceVars, runVars>>

(* A destructor begins: Static::drop up to drop_in_place.                  *)
CallDestructor(f) ==
  /\ stage = "destructors" /\ cur = NoCode /\ f \in fini_array
  /\ \A g \in fini_array : fini_section(f.prio) >= fini_section(g.prio)
  /\ fini_array' = fini_array \ {f}
  /\ cur' = f
  /\ CUR_DROP_PRIO' = IF f.fn \in DOMAIN mode THEN f.prio ELSE CUR_DROP_PRIO
  /\ UNCHANGED <<sourceVars, stage, mode, status, init_array, CUR_INIT_PRIO, lazy_inited, LAZY_INIT_ENSURED>>

EndDestructor ==
  /\ stage = "destructors" /\ cur # NoCode
  /\ status' = IF cur.fn \in DOMAIN mode THEN [status EXCEPT ![cur.fn] = 2] ELSE status
  /\ CUR_DROP_PRIO' = IF cur.fn \in DOMAIN mode THEN MIN ELSE CUR_DROP_PRIO
  /\ cur' = NoCode
  /\ UNCHANGED <<sourceVars, stage, mode, init_array, fini_array, CUR_INIT_PRIO, lazy_inited, LAZY_INIT_ENSURED>>

check_status_only(y) ==   \* mutant: the priorities are not compared
  IF status[y] = 0 THEN "before initialization" ELSE IF status[y] = 2 THEN "after drop" ELSE "ok"

(* The panics of check_access, or ok.                                      *)
check_access(y) ==
  LET m == mode[y]
  IN IF status[y] = 0 THEN "before initialization"
     ELSE IF status[y] = 2 THEN "after drop"
     ELSE IF m.drop = "Dynamic" /\ CUR_DROP_PRIO = m.drop_prio THEN "not sequenced before drop"
     ELSE IF m.drop = "Dynamic" /\ CUR_DROP_PRIO > m.drop_prio THEN "bug of static_init"
     ELSE IF m.init = "Dynamic" /\ CUR_INIT_PRIO = m.init_prio THEN "not sequenced after construction"
     ELSE IF m.init = "Dynamic" /\ CUR_INIT_PRIO > m.init_prio THEN "bug of static_init"
     ELSE "ok"

(* The code that runs accesses y, and a panic leaves an extern "C"         *)
(* function; an access that check_access allows changes nothing here.      *)
Access(y) ==
  /\ cur # NoCode
  /\ check_access(y) # "ok"
  /\ stage' = "aborted"
  /\ UNCHANGED <<sourceVars, runVars>>

Over == stage \in {"rejected", "ended", "aborted"} \/ (stage = "expanded" /\ typ \notin Raw \cup Global)

RawNext ==
  \/ Expand /\ UNCHANGED runVars
  \/ Link
  \/ \E f \in init_array : CallConstructor(f)
  \/ \E f \in fini_array : CallDestructor(f)
  \/ EndConstructor \/ EndDestructor \/ Main
  \/ \E y \in DOMAIN mode : Access(y)
  \/ Over /\ UNCHANGED <<macroVars, runVars>>

RawSpec == RawInit /\ [][RawNext]_<<macroVars, runVars>>
-----------------------------------------------------------------------------
(***************************************************************************)
(* Properties.                                                             *)
(***************************************************************************)

(* check_access knows the order of initialization and drop from two cells: *)
(* whatever order the linker gives to equal priorities, an access from the *)
(* initializer or the drop of a raw static is allowed if and only if the   *)
(* priorities sequence it; from other constructors and destructors, which  *)
(* set no priority, it is allowed if they do and not if they sequence it   *)
(* the other way; what it reports as "a bug of static_init library" never  *)
(* happens.  In main every access is allowed.  And the hint of the lesser  *)
(* lazies is set when their constructors have run.                         *)
Sequenced ==
  /\ cur # NoCode => \A y \in DOMAIN mode :
       LET m == mode[y]
           before == IF stage = "constructors" THEN m.init = "Const" \/ m.init_prio > cur.prio
                                               ELSE m.drop = "None" \/ m.drop_prio > cur.prio
           after == IF stage = "constructors" THEN m.init = "Dynamic" /\ m.init_prio < cur.prio
                                              ELSE m.drop = "Dynamic" /\ m.drop_prio < cur.prio
           ok == check_access(y) = "ok"
       IN stage # "aborted" =>
            /\ check_access(y) # "bug of static_init"
            /\ before => ok
            /\ after => ~ok
            /\ cur.fn \in DOMAIN mode /\ ~before => ~ok
  /\ stage = "main" => \A y \in DOMAIN mode : check_access(y) = "ok"
  /\ LAZY_INIT_ENSURED => lazy_inited
=============================================================================
