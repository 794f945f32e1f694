---------------------------- MODULE DynamicMacro ----------------------------
(***************************************************************************)
(* #[dynamic(..)] of src/static_init_macro/src/lib.rs: the arguments of    *)
(* the attribute are parsed one at a time into a DynMode, which is then    *)
(* checked, and the item is expanded: its type is replaced by a raw static *)
(* or by one of the lazies of src/src/lazy.rs, with a constructor or a     *)
(* destructor beside it.                                                   *)
(*                                                                         *)
(* A compile_error! ends the compilation: stage "rejected".                *)
(***************************************************************************)
EXTENDS Integers, Sequences

CONSTANTS
  Priorities,   \* priorities that the source mentions
  Platforms,    \* among elf (windows has the same sections), mach_o and none
  MaxArgs       \* bound: arguments of the attribute

ASSUME MacroAssumption ==
  /\ Priorities \subseteq Nat /\ MaxArgs \in Nat
  /\ Platforms \subseteq {"elf", "mach_o", "none"}

NoPriority == -1

(* An argument is a word, a word with a priority, or a priority alone      *)
(* (literal).  "other" is whatever is not expected, an ill-formed priority *)
(* and a word with or without a priority that should not be so included.   *)
Words == {"init", "drop", "finalize", "lazy", "lesser_lazy", "try_init_once", "tolerate_leak",
          "prime", "other"}
Args == [id : Words, prio : {NoPriority}] \cup [id : {"init", "drop", "drop_only", "literal"}, prio : Priorities]

VARIABLES
  platform,
  item,              \* the attributed static: mut, thread_local, initialized by a match
  args,              \* the arguments that have been read
  opt,               \* DynMode
  init_set, drop_set,
  typ,               \* the type of the expanded static
  stage

macroVars == <<platform, item, args, opt, init_set, drop_set, typ, stage>>

constructor_destructor == platform # "none"
support_priority == platform = "elf"

LazyModes == {"Lazy", "LesserLazy"}
DynModes ==
  [init : {"Const", "Dynamic"} \cup LazyModes, init_prio : Priorities \cup {0, NoPriority},
   drop : {"None", "Drop", "Finalize", "Dynamic"}, drop_prio : Priorities \cup {0, NoPriority},
   init_fail : BOOLEAN, registration_fail : BOOLEAN, priming : BOOLEAN]

(* The types, by what lazy.rs makes of them: the data, checker and         *)
(* sequentializer each of them is built from.                              *)
Raw == {"ConstStatic", "Static"}
Droped == {"UnSyncLazyDroped", "LockedLazyDroped", "LesserLockedLazyDroped", "UnSyncLockedLazyDroped",
           "PrimedLockedLazyDroped", "PrimedLesserLockedLazyDroped", "UnSyncPrimedLockedLazyDroped"}
Finalized == {"LazyFinalize", "LesserLazyFinalize", "UnSyncLazyFinalize",
              "LockedLazyFinalize", "LesserLockedLazyFinalize", "UnSyncLockedLazyFinalize"}
Primed == {"PrimedLockedLazy", "PrimedLesserLockedLazy", "UnSyncPrimedLockedLazy",
           "PrimedLockedLazyDroped", "PrimedLesserLockedLazyDroped", "UnSyncPrimedLockedLazyDroped"}
Global == {"LesserLazy", "LesserLazyFinalize", "LesserLockedLazy", "LesserLockedLazyFinalize",
           "LesserLockedLazyDroped", "PrimedLesserLockedLazy", "PrimedLesserLockedLazyDroped"}
UnSync == {"UnSyncLazy", "UnSyncLazyFinalize", "UnSyncLazyDroped", "UnSyncLockedLazy",
           "UnSyncLockedLazyFinalize", "UnSyncLockedLazyDroped",
           "UnSyncPrimedLockedLazy", "UnSyncPrimedLockedLazyDroped"}
ByReference == {"Lazy", "LesserLazy", "LazyFinalize", "LesserLazyFinalize",
                "UnSyncLazy", "UnSyncLazyFinalize", "UnSyncLazyDroped"}
Types == Raw \cup Droped \cup Finalized \cup Primed \cup Global \cup UnSync \cup ByReference
         \cup {"LockedLazy"}

MacroTypeOK ==
  /\ platform \in Platforms
  /\ item \in [mutable : BOOLEAN, thread_local : BOOLEAN, match : BOOLEAN]
  /\ args \in Seq(Args) /\ Len(args) <= MaxArgs
  /\ opt \in DynModes
  /\ opt.init = "Dynamic" <=> opt.init_prio # NoPriority
  /\ opt.drop = "Dynamic" <=> opt.drop_prio # NoPriority
  /\ {init_set, drop_set} \subseteq BOOLEAN
  /\ typ \in Types \cup {"none"}

MacroInit ==
  /\ platform \in Platforms
  /\ item \in [mutable : BOOLEAN, thread_local : BOOLEAN, match : BOOLEAN]
  /\ args = <<>>
  /\ opt = [init |-> "LesserLazy", init_prio |-> NoPriority, drop |-> "None", drop_prio |-> NoPriority,
            init_fail |-> TRUE, registration_fail |-> FALSE, priming |-> FALSE]
  /\ init_set = FALSE /\ drop_set = FALSE
  /\ typ = "none"
  /\ stage = "source"
-----------------------------------------------------------------------------
(***************************************************************************)
(* parse_dyn_options.                                                      *)
(***************************************************************************)
sets_init(a) == a.id \in {"init", "literal", "lazy", "lesser_lazy", "drop_only"}
sets_drop_no_only(a) == a.id \in {"drop", "finalize"}   \* mutant: drop_only sets init only
sets_drop(a) == a.id \in {"drop", "finalize", "drop_only"}

unexpected(a) ==
  \/ a.id = "other"
  \/ a.id \in {"drop", "finalize"} /\ a.prio = NoPriority /\ ~constructor_destructor

init_mode(a) ==
  CASE a.id = "lazy" -> "Lazy" [] a.id = "lesser_lazy" -> "LesserLazy"
    [] a.id = "drop_only" -> "Const" [] OTHER -> "Dynamic"
drop_mode(a) ==
  IF a.id = "finalize" THEN "Finalize" ELSE IF a.prio = NoPriority THEN "Drop" ELSE "Dynamic"

read(a) ==
  [init |-> IF sets_init(a) THEN init_mode(a) ELSE opt.init,
   init_prio |-> CASE a.id = "init" /\ a.prio = NoPriority -> 0
                   [] a.id \in {"init", "literal"} /\ a.prio # NoPriority -> a.prio
                   [] OTHER -> opt.init_prio,
   drop |-> IF a.id \in {"drop", "finalize", "drop_only"} THEN drop_mode(a) ELSE opt.drop,
   drop_prio |-> IF a.id \in {"drop", "drop_only"} THEN a.prio ELSE opt.drop_prio,
   init_fail |-> opt.init_fail /\ a.id # "try_init_once",
   registration_fail |-> opt.registration_fail \/ a.id = "tolerate_leak",
   priming |-> opt.priming \/ a.id = "prime"]

ParseArg(a) ==
  /\ stage = "source" /\ Len(args) < MaxArgs
  /\ args' = Append(args, a)
  /\ \/ /\ unexpected(a) \/ (sets_init(a) /\ init_set) \/ (sets_drop(a) /\ drop_set)
        /\ stage' = "rejected"
        /\ UNCHANGED <<opt, init_set, drop_set>>
     \/ /\ ~unexpected(a) /\ ~(sets_init(a) /\ init_set) /\ ~(sets_drop(a) /\ drop_set)
        /\ opt' = read(a)
        /\ init_set' = (init_set \/ sets_init(a))
        /\ drop_set' = (drop_set \/ sets_drop(a))
        /\ UNCHANGED stage
  /\ UNCHANGED <<platform, item, typ>>

(* What parse_dyn_options makes of o after the last argument.              *)
incompatible(o) ==
  \/ o.drop = "None" /\ o.registration_fail
  \/ o.priming /\ o.init \notin LazyModes
  \/ o.init \in LazyModes /\ o.drop = "Dynamic"
  \/ o.init = "Dynamic" /\ (~o.init_fail \/ o.registration_fail \/ o.drop = "Finalize")

default_drop_unset(o) ==   \* mutant: the priority is forgotten
  IF o.init = "Dynamic" /\ o.drop = "Drop" THEN [o EXCEPT !.drop = "Dynamic"] ELSE o

(* drop is short for the drop priority that equals the init priority.      *)
default_drop(o) ==
  IF o.init = "Dynamic" /\ o.drop = "Drop"
    THEN [o EXCEPT !.drop = "Dynamic", !.drop_prio = o.init_prio] ELSE o

EndArgs ==
  LET o == [opt EXCEPT !.init = IF @ = "LesserLazy" /\ ~constructor_destructor THEN "Lazy" ELSE @]
  IN /\ stage = "source"
     /\ \/ incompatible(o) /\ stage' = "rejected" /\ UNCHANGED opt
        \/ /\ ~incompatible(o)
           /\ opt' = default_drop(o)
           /\ stage' = "parsed"
     /\ UNCHANGED <<platform, item, args, init_set, drop_set, typ>>
-----------------------------------------------------------------------------
(***************************************************************************)
(* gen_dyn_init.                                                           *)
(***************************************************************************)
either(const, mutable) == IF item.mutable THEN mutable ELSE const

(* The chain of else if that selects the type; "error" is a compile_error!.*)
select_primed ==
  IF item.thread_local /\ opt.drop = "None" THEN either("error", "UnSyncPrimedLockedLazy")
  ELSE IF item.thread_local THEN either("error", "UnSyncPrimedLockedLazyDroped")
  ELSE IF opt.init = "Lazy" /\ opt.drop = "None" THEN either("error", "PrimedLockedLazy")
  ELSE IF opt.drop = "None" THEN either("error", "PrimedLesserLockedLazy")
  ELSE IF opt.init = "Lazy" THEN either("error", "PrimedLockedLazyDroped")
  ELSE either("error", "PrimedLesserLockedLazyDroped")

select_any_drop ==   \* mutant: finalize is taken for drop
  IF opt.drop # "None" THEN either("UnSyncLazyDroped", "UnSyncLockedLazyDroped")
  ELSE either("UnSyncLazy", "UnSyncLockedLazy")

select_thread_local ==
  IF opt.drop = "Finalize" THEN either("UnSyncLazyFinalize", "UnSyncLockedLazyFinalize")
  ELSE IF opt.drop = "Drop" THEN either("UnSyncLazyDroped", "UnSyncLockedLazyDroped")
  ELSE either("UnSyncLazy", "UnSyncLockedLazy")

select ==
  LET lesser == opt.init = "LesserLazy"
  IN IF opt.init \notin LazyModes THEN either("ConstStatic", "Static")
     ELSE IF opt.priming THEN select_primed
     ELSE IF item.thread_local THEN select_thread_local
     ELSE IF opt.drop = "Finalize" /\ lesser THEN either("LesserLazyFinalize", "LesserLockedLazyFinalize")
     ELSE IF opt.drop = "Finalize" THEN either("LazyFinalize", "LockedLazyFinalize")
     ELSE IF opt.drop = "Drop" /\ ~lesser THEN either("error", "LockedLazyDroped")
     ELSE IF opt.drop = "Drop" THEN either("error", "LesserLockedLazyDroped")
     ELSE IF lesser THEN either("LesserLazy", "LesserLockedLazy")
     ELSE either("Lazy", "LockedLazy")

(* init_section and fini_section refuse a priority, or any section.        *)
no_section(p) == platform = "none" \/ (platform = "mach_o" /\ p # 0)

gen_dyn_init ==
  /\ stage = "parsed"
  /\ LET fails == \/ item.thread_local /\ opt.init \notin LazyModes
                  \/ select = "error"
                  \/ opt.priming /\ ~item.match
                  \/ opt.init = "Dynamic" /\ no_section(opt.init_prio)
                  \/ opt.drop = "Dynamic" /\ no_section(opt.drop_prio)
     IN /\ stage' = IF fails THEN "rejected" ELSE "expanded"
        /\ typ' = IF fails THEN typ ELSE select
  /\ UNCHANGED <<platform, item, args, opt, init_set, drop_set>>

Expand == (\E a \in Args : ParseArg(a)) \/ EndArgs \/ gen_dyn_init
-----------------------------------------------------------------------------
(***************************************************************************)
(* Properties.                                                             *)
(***************************************************************************)

(* What the arguments say, whatever their order, as the documentation of   *)
(* #[dynamic] has it (lib.rs 856-1150): which of them combine, which of    *)
(* the combinations are legal, and what they mean.                         *)
given(W) == {i \in 1..Len(args) : args[i].id \in W}
the(W) == args[CHOOSE i \in given(W) : TRUE]
says(W) == given(W) # {}
twice(W) == \E i, j \in given(W) : i # j

raw == says({"init", "literal"})
const == says({"drop_only"})
dropping == {"drop", "finalize", "drop_only"}
prioritized == says({"drop"}) /\ the({"drop"}).prio # NoPriority

combined ==
  /\ ~says({"other"})
  /\ ~twice({"init", "literal", "lazy", "lesser_lazy", "drop_only"}) /\ ~twice(dropping)
  /\ says({"tolerate_leak"}) => says(dropping) /\ ~raw
  /\ raw => ~says({"finalize", "try_init_once"})
  /\ raw \/ const => ~says({"prime"})
  /\ prioritized => raw
  /\ platform = "none" /\ ~prioritized => ~says({"drop", "finalize"})

(* drop_only=p "is equivalent to #[dynamic(0,drop=p)] except that the      *)
(* static will be const initialized", so it has no more use than that for  *)
(* the tolerances; parse_dyn_options refuses them to InitMode::Dynamic     *)
(* only.                                                                   *)
tolerances == {"try_init_once", "tolerate_leak"}
legal == combined /\ ~(const /\ says(tolerances))
lenient == combined /\ const /\ says(tolerances)

given_prio ==
  IF ~raw THEN NoPriority
  ELSE IF the({"init", "literal"}).prio = NoPriority THEN 0 ELSE the({"init", "literal"}).prio

means ==
  [init |-> IF raw THEN "Dynamic" ELSE IF const THEN "Const"
            ELSE IF says({"lazy"}) \/ platform = "none" THEN "Lazy" ELSE "LesserLazy",
   init_prio |-> given_prio,
   drop |-> IF says({"finalize"}) THEN "Finalize" ELSE IF ~says(dropping) THEN "None"
            ELSE IF raw \/ const THEN "Dynamic" ELSE "Drop",
   drop_prio |-> IF const THEN the({"drop_only"}).prio
                 ELSE IF prioritized THEN the({"drop"}).prio
                 ELSE IF says({"drop"}) THEN given_prio ELSE NoPriority,
   init_fail |-> ~says({"try_init_once"}),
   registration_fail |-> says({"tolerate_leak"}),
   priming |-> says({"prime"})]

(* What the documentation allows for the item: only lazies are             *)
(* thread_local, primed statics are mut and initialized by a match, and    *)
(* mach_o has no priorities.                                               *)
fitting(o) ==
  /\ o.init \in LazyModes \/ ~item.thread_local
  /\ o.priming => item.mutable /\ item.match
  /\ platform # "elf" => {o.init_prio, o.drop_prio} \subseteq {NoPriority} \cup
                           (IF platform = "mach_o" THEN {0} ELSE {})

(* "Even if the static is not mut, dropped statics are always locked"      *)
(* (lib.rs): gen_dyn_init has no such type, and refuses the static.        *)
strict(o) == o.drop = "Drop" /\ ~item.mutable /\ ~item.thread_local

(* The arguments mean the same in every order: an attribute is accepted if *)
(* and only if it is legal for the item, and it is given its meaning,      *)
(* although parse_dyn_options stops at the first clash and overwrites what *)
(* earlier arguments and defaults have set.  The code departs from the     *)
(* documentation in two places and no other: lenient and strict.           *)
MacroMeans ==
  /\ stage \in {"parsed", "expanded"} => (legal \/ lenient) /\ opt = means
  /\ stage = "expanded" => fitting(opt) /\ ~strict(opt)
  /\ stage = "rejected" => ~((legal \/ lenient) /\ fitting(means)) \/ strict(means)

(* The type that the chain selects does what the options ask for: it is    *)
(* thread-local, locked, primed, initialized before main, finalized or     *)
(* dropped if and only if the attribute says so; "finalize/drop actualy    *)
(* means uninit for primed lazy" (lib.rs).  A thread_local that is dropped *)
(* and not mut is handed out by reference: see DropExclusive.              *)
TypeFits ==
  stage = "expanded" =>
    /\ typ \in Raw <=> opt.init \notin LazyModes
    /\ typ \in UnSync <=> item.thread_local
    /\ typ \in Primed <=> opt.priming
    /\ typ \in Global <=> opt.init = "LesserLazy" /\ ~item.thread_local
    /\ typ \in Droped \cup Finalized <=> opt.drop \in {"Drop", "Finalize"}
    /\ typ \in Finalized <=> opt.drop = "Finalize" /\ ~opt.priming
    /\ typ \in ByReference \cup {"ConstStatic"} <=> ~item.mutable
=============================================================================
