-------------------------- MODULE RawStatic_proof --------------------------
(***************************************************************************)
(* Proofs about DynamicMacro and RawStatic: #[dynamic] gives an attribute  *)
(* its meaning or refuses it, and check_access of the raw statics knows    *)
(* the order of initialization and drop, whatever the priorities, however  *)
(* many raw statics there are and however the linker orders equals.        *)
(***************************************************************************)
EXTENDS RawStatic, TLAPS

(***************************************************************************)
(* The arguments.                                                          *)
(***************************************************************************)
initWords == {"init", "literal", "lazy", "lesser_lazy", "drop_only"}

(* What each argument that has been read left in the options.              *)
Left(a) ==
  /\ a.id # "other"
  /\ a.id \in {"drop", "finalize"} /\ a.prio = NoPriority => platform # "none"
  /\ a.id \in {"init", "literal"} =>
       opt.init = "Dynamic" /\ opt.init_prio = IF a.prio = NoPriority THEN 0 ELSE a.prio
  /\ a.id = "lazy" => opt.init = "Lazy"
  /\ a.id = "lesser_lazy" => opt.init = "LesserLazy"
  /\ a.id = "drop_only" => opt.init = "Const" /\ opt.drop = "Dynamic" /\ opt.drop_prio = a.prio
  /\ a.id = "finalize" => opt.drop = "Finalize"
  /\ a.id = "drop" => /\ opt.drop = IF a.prio = NoPriority THEN "Drop" ELSE "Dynamic"
                      /\ opt.drop_prio = a.prio

SourceInv ==
  /\ \A i \in 1..Len(args) : Left(args[i])
  /\ ~twice(initWords) /\ ~twice(dropping)
  /\ init_set <=> says(initWords)
  /\ drop_set <=> says(dropping)
  /\ opt.init_fail <=> ~says({"try_init_once"})
  /\ opt.registration_fail <=> says({"tolerate_leak"})
  /\ opt.priming <=> says({"prime"})
  /\ ~init_set => opt.init = "LesserLazy"
  /\ drop_set <=> opt.drop # "None"

(* What gen_dyn_init expands: what the documentation allows for the item,  *)
(* but for strict.                                                         *)
Compiles(o) == fitting(o) /\ ~strict(o)

(* The modes that gen_dyn_init is given.                                   *)
ParsedInv ==
  /\ ~incompatible(opt)
  /\ opt.init \in {"Const", "Dynamic"} => opt.drop \in {"None", "Dynamic"}

MacroInv ==
  /\ MacroTypeOK
  /\ opt.init = "Const" => opt.drop = "Dynamic"
  /\ stage = "source" => SourceInv
  /\ stage \in {"parsed", "expanded"} => ParsedInv
  /\ MacroMeans /\ TypeFits
-----------------------------------------------------------------------------
(***************************************************************************)
(* The run.                                                                *)
(***************************************************************************)
compiling == {"source", "parsed", "rejected", "expanded"}
running == {"constructors", "main", "destructors", "ended"}

(* The constructors and destructors of the raw statics that are to run.    *)
toInit(y) == mode[y].init = "Dynamic" /\ entry(y, mode[y].init_prio) \in init_array \cup {cur}
toDrop(y) == mode[y].drop = "Dynamic" /\ entry(y, mode[y].drop_prio) \in fini_array \cup {cur}
current == IF cur = NoCode THEN {} ELSE {cur}

(* The entries are those of Link, and the two cells hold the priority of   *)
(* the raw static that is initialized or dropped.                          *)
EntriesInv ==
  /\ \A f \in init_array : f.fn \in DOMAIN mode =>
       mode[f.fn].init = "Dynamic" /\ f.prio = mode[f.fn].init_prio
  /\ \A f \in fini_array : f.fn \in DOMAIN mode =>
       mode[f.fn].drop = "Dynamic" /\ f.prio = mode[f.fn].drop_prio
  /\ stage # "destructors" => CUR_DROP_PRIO = MIN
  /\ stage # "constructors" => CUR_INIT_PRIO = MIN
  /\ stage = "constructors" => CUR_INIT_PRIO = IF cur.fn \in DOMAIN mode THEN cur.prio ELSE MIN
  /\ stage = "destructors" => CUR_DROP_PRIO = IF cur.fn \in DOMAIN mode THEN cur.prio ELSE MIN
  /\ stage \notin {"constructors", "destructors"} => cur = NoCode

(* Constructors run from the highest priority down.                        *)
InitInv ==
  stage = "constructors" =>
    /\ cur \notin init_array
    /\ \A f \in init_array, g \in current : f.prio <= g.prio
    /\ \A f \in current : f.fn \in DOMAIN mode =>
         mode[f.fn].init = "Dynamic" /\ f.prio = mode[f.fn].init_prio
    /\ \A y \in DOMAIN mode :
         /\ status[y] = IF toInit(y) THEN 0 ELSE 1
         /\ mode[y].init = "Dynamic" /\ ~toInit(y) =>
              \A f \in init_array \cup current : f.prio <= mode[y].init_prio
         /\ mode[y].drop = "Dynamic" => entry(y, mode[y].drop_prio) \in fini_array

(* Destructors run from the lowest priority up.                            *)
DropInv ==
  /\ stage = "main" => \A y \in DOMAIN mode :
       status[y] = 1 /\ (mode[y].drop = "Dynamic" => entry(y, mode[y].drop_prio) \in fini_array)
  /\ stage = "destructors" =>
       /\ cur \notin fini_array
       /\ \A f \in fini_array, g \in current : f.prio >= g.prio
       /\ \A f \in current : f.fn \in DOMAIN mode =>
            mode[f.fn].drop = "Dynamic" /\ f.prio = mode[f.fn].drop_prio
       /\ \A y \in DOMAIN mode :
            /\ status[y] = IF mode[y].drop = "None" \/ toDrop(y) THEN 1 ELSE 2
            /\ mode[y].drop = "Dynamic" /\ ~toDrop(y) =>
                 \A f \in fini_array \cup current : f.prio >= mode[y].drop_prio

(* The constructor of a lesser lazy has priority 1, the one that sets the  *)
(* hint 0.                                                                 *)
HintInv ==
  /\ LAZY_INIT_ENSURED => lazy_inited
  /\ stage = "constructors" =>
       /\ cur.fn = "mark_inited" => lazy_inited
       /\ \A f \in init_array : f.fn = "mark_inited" =>
            f.prio = 0 /\ (lazy_inited \/ entry("__lazy_init", 1) \in init_array \cup {cur})

RunInv ==
  /\ stage \in compiling => mode = <<>> /\ LAZY_INIT_ENSURED = FALSE /\ cur = NoCode
                              /\ CUR_INIT_PRIO = MIN /\ CUR_DROP_PRIO = MIN
  /\ stage \in running => EntriesInv /\ InitInv /\ DropInv
  /\ HintInv

(* The inductive invariant.                                                *)
RawInv == MacroInv /\ RawTypeOK /\ RunInv
-----------------------------------------------------------------------------
(***************************************************************************)
(* Parsing.                                                                *)
(***************************************************************************)
LEMMA Appended ==
  ASSUME NEW s \in Seq(Args), NEW a \in Args
  PROVE  /\ Append(s, a) \in Seq(Args) /\ Len(Append(s, a)) = Len(s) + 1 /\ Len(s) \in Nat
         /\ Append(s, a)[Len(s) + 1] = a
         /\ \A i \in 1..Len(s) : Append(s, a)[i] = s[i] /\ s[i] \in Args
         /\ 1..(Len(s) + 1) = (1..Len(s)) \cup {Len(s) + 1} /\ Len(s) + 1 \notin 1..Len(s)
OBVIOUS

LEMMA GivenAppend ==
  ASSUME MacroTypeOK, NEW a \in Args, args' = Append(args, a), NEW W
  PROVE  /\ given(W)' = given(W) \cup (IF a.id \in W THEN {Len(args) + 1} ELSE {})
         /\ Len(args) + 1 \notin given(W)
         /\ says(W)' <=> says(W) \/ a.id \in W
         /\ twice(W)' <=> twice(W) \/ (says(W) /\ a.id \in W)
<1>1. args \in Seq(Args)
  BY DEF MacroTypeOK
<1>2. given(W)' = given(W) \cup (IF a.id \in W THEN {Len(args) + 1} ELSE {})
  BY <1>1, Appended DEF given
<1>3. Len(args) + 1 \notin given(W)
  BY <1>1, Appended DEF given
<1>4. (says(W)' <=> given(W)' # {}) /\ (twice(W)' <=> \E i, j \in given(W)' : i # j)
  BY DEF says, twice, given
<1>5. QED
  BY <1>2, <1>3, <1>4 DEF says, twice

LEMMA TheGiven ==
  ASSUME NEW W, says(W)
  PROVE  \E i \in 1..Len(args) : the(W) = args[i] /\ args[i].id \in W
<1>1. (CHOOSE i \in given(W) : TRUE) \in given(W)
  BY DEF says
<1>2. QED
  BY <1>1 DEF the, given

(* The fields that read leaves behind.                                     *)
LEMMA ReadFields ==
  ASSUME MacroTypeOK, NEW a \in Args
  PROVE  /\ read(a).init = IF sets_init(a) THEN init_mode(a) ELSE opt.init
         /\ read(a).init_prio = CASE a.id = "init" /\ a.prio = NoPriority -> 0
                                  [] a.id \in {"init", "literal"} /\ a.prio # NoPriority -> a.prio
                                  [] OTHER -> opt.init_prio
         /\ read(a).drop = IF sets_drop(a) THEN drop_mode(a) ELSE opt.drop
         /\ read(a).drop_prio = IF a.id \in {"drop", "drop_only"} THEN a.prio ELSE opt.drop_prio
         /\ read(a).init_fail = (opt.init_fail /\ a.id # "try_init_once")
         /\ read(a).registration_fail = (opt.registration_fail \/ a.id = "tolerate_leak")
         /\ read(a).priming = (opt.priming \/ a.id = "prime")
         /\ read(a) \in DynModes
<1>1. opt \in DynModes /\ a.prio \in Priorities \cup {NoPriority}
  BY DEF MacroTypeOK, Args
<1>2. /\ init_mode(a) \in {"Const", "Dynamic"} \cup LazyModes
      /\ drop_mode(a) \in {"None", "Drop", "Finalize", "Dynamic"}
  BY DEF init_mode, drop_mode, LazyModes
<1>3. read(a) \in DynModes
  BY <1>1, <1>2 DEF read, DynModes, sets_drop
<1>4. QED
  BY <1>3 DEF read, sets_drop

LEMMA ParseAccepts ==
  ASSUME MacroInv, NEW a \in Args, stage = "source", Len(args) < MaxArgs, args' = Append(args, a),
         ~unexpected(a), ~(sets_init(a) /\ init_set), ~(sets_drop(a) /\ drop_set),
         opt' = read(a), init_set' = (init_set \/ sets_init(a)), drop_set' = (drop_set \/ sets_drop(a)),
         UNCHANGED <<platform, item, typ, stage>>
  PROVE  MacroInv'
<1>0. MacroTypeOK /\ SourceInv /\ (opt.init = "Const" => opt.drop = "Dynamic") /\ MaxArgs \in Nat
  BY MacroAssumption DEF MacroInv
<1>1. /\ a.id \in Words \cup {"drop_only", "literal"} /\ a.prio \in Priorities \cup {NoPriority}
      /\ a.id \in {"drop_only", "literal"} => a.prio # NoPriority
      /\ a.prio # NoPriority => a.id \in {"init", "drop", "drop_only", "literal"}
      /\ 0 # NoPriority /\ NoPriority \notin Priorities
  BY MacroAssumption DEF Args, Words, NoPriority
<1>2. /\ opt'.init = IF sets_init(a) THEN init_mode(a) ELSE opt.init
      /\ opt'.drop = IF sets_drop(a) THEN drop_mode(a) ELSE opt.drop
      /\ opt'.drop_prio = IF a.id \in {"drop", "drop_only"} THEN a.prio ELSE opt.drop_prio
      /\ opt'.init_fail = (opt.init_fail /\ a.id # "try_init_once")
      /\ opt'.registration_fail = (opt.registration_fail \/ a.id = "tolerate_leak")
      /\ opt'.priming = (opt.priming \/ a.id = "prime")
      /\ opt' \in DynModes
  BY <1>0, ReadFields
<1>3. opt'.init_prio = IF a.id \in {"init", "literal"} THEN IF a.prio = NoPriority THEN 0 ELSE a.prio
                                                       ELSE opt.init_prio
  <2>1. opt'.init_prio = CASE a.id = "init" /\ a.prio = NoPriority -> 0
                           [] a.id \in {"init", "literal"} /\ a.prio # NoPriority -> a.prio
                           [] OTHER -> opt.init_prio
    BY <1>0, ReadFields
  <2>2. QED
    BY <1>1, <2>1
<1>4. /\ ~sets_init(a) => opt'.init = opt.init /\ opt'.init_prio = opt.init_prio
      /\ a.id \in {"init", "literal"} => opt'.init = "Dynamic"
      /\ a.id = "lazy" => opt'.init = "Lazy"
      /\ a.id = "lesser_lazy" => opt'.init = "LesserLazy"
      /\ a.id = "drop_only" => opt'.init = "Const"
  BY <1>2, <1>3 DEF sets_init, init_mode
<1>5. /\ ~sets_drop(a) => opt'.drop = opt.drop /\ opt'.drop_prio = opt.drop_prio
      /\ a.id = "finalize" => opt'.drop = "Finalize" /\ opt'.drop_prio = opt.drop_prio
      /\ a.id = "drop" => /\ opt'.drop = IF a.prio = NoPriority THEN "Drop" ELSE "Dynamic"
                          /\ opt'.drop_prio = a.prio
      /\ a.id = "drop_only" => opt'.drop = "Dynamic" /\ opt'.drop_prio = a.prio
  <2>1. drop_mode(a) = IF a.id = "finalize" THEN "Finalize"
                       ELSE IF a.prio = NoPriority THEN "Drop" ELSE "Dynamic"
    BY DEF drop_mode
  <2>2. /\ ~sets_drop(a) => a.id \notin {"drop", "drop_only", "finalize"}
        /\ a.id \in {"drop", "drop_only", "finalize"} => sets_drop(a)
    BY DEF sets_drop
  <2>3. QED
    BY <1>1, <1>2, <2>1, <2>2
<1>6. /\ ~init_set => opt.init = "LesserLazy" /\ opt.init_prio = NoPriority
      /\ ~drop_set => opt.drop = "None" /\ opt.drop_prio = NoPriority
  BY <1>0 DEF SourceInv, MacroTypeOK
<1>7. MacroTypeOK'
  <2>1. args' \in Seq(Args) /\ Len(args') <= MaxArgs
    BY <1>0, Appended DEF MacroTypeOK
  <2>2. opt'.init = "Dynamic" <=> opt'.init_prio # NoPriority
    BY <1>0, <1>1, <1>3, <1>4, <1>6 DEF MacroTypeOK, sets_init
  <2>3. opt'.drop = "Dynamic" <=> opt'.drop_prio # NoPriority
    BY <1>0, <1>1, <1>5, <1>6 DEF MacroTypeOK, sets_drop
  <2>4. init_set' \in BOOLEAN /\ drop_set' \in BOOLEAN
    OBVIOUS
  <2>5. QED
    BY <1>0, <1>2, <2>1, <2>2, <2>3, <2>4 DEF MacroTypeOK
<1>8. opt'.init = "Const" => opt'.drop = "Dynamic"
  BY <1>0, <1>1, <1>4, <1>5, <1>6 DEF sets_init, sets_drop
<1>9. SourceInv'
  <2>1. /\ \A W : says(W)' <=> says(W) \/ a.id \in W
        /\ \A W : twice(W)' <=> twice(W) \/ (says(W) /\ a.id \in W)
    BY <1>0, GivenAppend
  <2>2. /\ sets_init(a) <=> a.id \in initWords
        /\ sets_drop(a) <=> a.id \in dropping
    BY DEF sets_init, sets_drop, initWords, dropping
  <2>3. /\ ~twice(initWords)' /\ ~twice(dropping)'
        /\ init_set' <=> says(initWords)'
        /\ drop_set' <=> says(dropping)'
    BY <1>0, <2>1, <2>2 DEF SourceInv
  <2>4. /\ opt'.init_fail <=> ~says({"try_init_once"})'
        /\ opt'.registration_fail <=> says({"tolerate_leak"})'
        /\ opt'.priming <=> says({"prime"})'
    BY <1>0, <1>2, <2>1 DEF SourceInv
  <2>5. /\ ~init_set' => opt'.init = "LesserLazy"
        /\ drop_set' <=> opt'.drop # "None"
    BY <1>0, <1>1, <1>4, <1>5, <1>6 DEF SourceInv, sets_drop
  <2>6. ASSUME NEW i \in 1..Len(args') PROVE Left(args[i])'
    <3>0. args \in Seq(Args)
      BY <1>0 DEF MacroTypeOK
    <3>1. CASE i = Len(args) + 1
      <4>1. args'[i] = a
        BY <3>0, <3>1, Appended
      <4>2. a.id # "other" /\ (a.id \in {"drop", "finalize"} /\ a.prio = NoPriority => platform # "none")
        BY DEF unexpected, constructor_destructor
      <4>3. QED
        BY <1>3, <1>4, <1>5, <4>1, <4>2 DEF Left
    <3>2. CASE i # Len(args) + 1
      <4>1. i \in 1..Len(args) /\ args'[i] = args[i]
        BY <3>0, <3>2, Appended
      <4>2. Left(args[i])
        BY <1>0, <4>1 DEF SourceInv
      <4>3. /\ args[i].id \in initWords => ~sets_init(a)
            /\ args[i].id \in dropping => ~sets_drop(a)
        BY <1>0, <4>1 DEF SourceInv, says, given
      <4>4. QED
        BY <1>4, <1>5, <4>1, <4>2, <4>3 DEF Left, initWords, dropping
    <3>3. QED
      BY <3>1, <3>2
  <2>7. QED
    BY <2>3, <2>4, <2>5, <2>6 DEF SourceInv
<1>10. MacroMeans' /\ TypeFits'
  BY DEF MacroMeans, legal, lenient, Compiles, TypeFits
<1>11. QED
  BY <1>7, <1>8, <1>9, <1>10 DEF MacroInv

LEMMA ParseRejects ==
  ASSUME MacroInv, NEW a \in Args, stage = "source", Len(args) < MaxArgs, args' = Append(args, a),
         unexpected(a) \/ (sets_init(a) /\ init_set) \/ (sets_drop(a) /\ drop_set),
         stage' = "rejected", UNCHANGED <<opt, init_set, drop_set>>, UNCHANGED <<platform, item, typ>>
  PROVE  MacroInv'
<1>0. MacroTypeOK /\ SourceInv /\ (opt.init = "Const" => opt.drop = "Dynamic") /\ MaxArgs \in Nat
  BY MacroAssumption DEF MacroInv
<1>1. /\ \A W : says(W)' <=> says(W) \/ a.id \in W
      /\ \A W : twice(W)' <=> twice(W) \/ (says(W) /\ a.id \in W)
  BY <1>0, GivenAppend
<1>2. ~combined'
  <2>1. CASE a.id = "other"
    BY <1>1, <2>1 DEF combined
  <2>2. CASE sets_init(a) /\ init_set
    BY <1>0, <1>1, <2>2 DEF combined, sets_init, SourceInv, initWords
  <2>3. CASE sets_drop(a) /\ drop_set
    BY <1>0, <1>1, <2>3 DEF combined, sets_drop, SourceInv, dropping
  <2>4. CASE a.id \in {"drop", "finalize"} /\ a.prio = NoPriority /\ platform = "none"
    <3>1. says({"drop", "finalize"})'
      BY <1>1, <2>4
    <3>2. CASE ~prioritized'
      BY <2>4, <3>1, <3>2 DEF combined
    <3>3. CASE prioritized'
      <4>1. PICK i \in given({"drop"})' : args'[i].prio # NoPriority
        BY <3>3 DEF prioritized, says, the
      <4>2. i \in given(dropping)'
        BY <4>1 DEF given, dropping
      <4>3. Len(args) + 1 \in given(dropping)' /\ args'[Len(args) + 1] = a
        BY <1>0, <2>4, Appended DEF given, dropping, MacroTypeOK
      <4>4. twice(dropping)'
        BY <2>4, <4>1, <4>2, <4>3 DEF twice
      <4>5. QED
        BY <4>4 DEF combined
    <3>4. QED
      BY <3>2, <3>3
  <2>5. QED
    BY <2>1, <2>2, <2>3, <2>4 DEF unexpected, constructor_destructor
<1>3. MacroTypeOK'
  <2>1. args' \in Seq(Args) /\ Len(args') <= MaxArgs
    BY <1>0, Appended DEF MacroTypeOK
  <2>2. QED
    BY <1>0, <2>1 DEF MacroTypeOK
<1>4. QED
  BY <1>0, <1>2, <1>3 DEF MacroInv, MacroMeans, legal, lenient, Compiles, TypeFits

(***************************************************************************)
(* The options, read as the documentation reads the arguments.             *)
(***************************************************************************)
LEMMA Meaning ==
  ASSUME MacroInv, stage = "source"
  PROVE  /\ raw <=> opt.init = "Dynamic"
         /\ const <=> opt.init = "Const"
         /\ says({"lazy"}) <=> opt.init = "Lazy"
         /\ says(dropping) <=> opt.drop # "None"
         /\ says({"finalize"}) <=> opt.drop = "Finalize"
         /\ prioritized <=> opt.drop = "Dynamic" /\ ~const
         /\ says({"drop"}) <=> opt.drop = "Drop" \/ prioritized
         /\ given_prio = opt.init_prio
         /\ const => the({"drop_only"}).prio = opt.drop_prio
         /\ prioritized => the({"drop"}).prio = opt.drop_prio
         /\ ~says({"other"})
         /\ platform = "none" /\ ~prioritized => ~says({"drop", "finalize"})
<1>0. MacroTypeOK /\ SourceInv
  BY DEF MacroInv
<1>1. \A i \in 1..Len(args) : Left(args[i]) /\ args[i] \in Args
  BY <1>0 DEF SourceInv, MacroTypeOK
<1>2. \A W : says(W) <=> \E i \in 1..Len(args) : args[i].id \in W
  BY DEF says, given
<1>3. opt.init # "LesserLazy" => \E i \in 1..Len(args) : args[i].id \in initWords
  BY <1>0, <1>2 DEF SourceInv
<1>4. /\ raw <=> opt.init = "Dynamic"
      /\ const <=> opt.init = "Const"
      /\ says({"lazy"}) <=> opt.init = "Lazy"
  BY <1>1, <1>2, <1>3 DEF raw, const, Left, initWords
<1>5. says(dropping) <=> opt.drop # "None"
  BY <1>0 DEF SourceInv
<1>6. opt.drop # "None" => \E i \in 1..Len(args) : args[i].id \in dropping
  BY <1>2, <1>5
<1>7. says({"finalize"}) <=> opt.drop = "Finalize"
  BY <1>1, <1>2, <1>6 DEF Left, dropping
<1>8. ASSUME const, says({"drop"}) PROVE FALSE
  <2>1. PICK i \in 1..Len(args) : args[i].id = "drop_only"
    BY <1>2, <1>8 DEF const
  <2>2. PICK j \in 1..Len(args) : args[j].id = "drop"
    BY <1>2, <1>8
  <2>3. i \in given(dropping) /\ j \in given(dropping) /\ i # j
    BY <2>1, <2>2 DEF given, dropping
  <2>4. QED
    BY <1>0, <2>3 DEF SourceInv, twice
<1>9. says({"drop"}) =>
        /\ opt.drop = IF the({"drop"}).prio = NoPriority THEN "Drop" ELSE "Dynamic"
        /\ opt.drop_prio = the({"drop"}).prio
  BY <1>1, TheGiven DEF Left
<1>10. opt.drop \in {"Drop", "Dynamic"} => const \/ says({"drop"})
  BY <1>1, <1>2, <1>6 DEF Left, dropping, const
<1>11. const => opt.drop = "Dynamic" /\ the({"drop_only"}).prio = opt.drop_prio
  BY <1>1, TheGiven DEF Left, const
<1>12. /\ prioritized <=> opt.drop = "Dynamic" /\ ~const
       /\ says({"drop"}) <=> opt.drop = "Drop" \/ prioritized
       /\ prioritized => the({"drop"}).prio = opt.drop_prio
  BY <1>8, <1>9, <1>10, <1>11 DEF prioritized
<1>13. given_prio = opt.init_prio
  <2>1. raw => opt.init_prio = IF the({"init", "literal"}).prio = NoPriority THEN 0
                               ELSE the({"init", "literal"}).prio
    BY <1>1, TheGiven DEF Left, raw
  <2>2. ~raw => opt.init_prio = NoPriority
    BY <1>0, <1>4 DEF MacroTypeOK
  <2>3. QED
    BY <2>1, <2>2 DEF given_prio
<1>14. ~says({"other"})
  BY <1>1, <1>2 DEF Left
<1>15. platform = "none" /\ ~prioritized => ~says({"drop", "finalize"})
  <2>1. ASSUME platform = "none", NEW i \in 1..Len(args), args[i].id \in {"drop", "finalize"}
        PROVE  prioritized
    <3>1. args[i].prio # NoPriority
      BY <1>1, <2>1 DEF Left
    <3>2. args[i].id = "drop"
      BY <1>1, <2>1, <3>1 DEF Args
    <3>3. opt.drop = "Dynamic" /\ says({"drop"})
      BY <1>1, <1>2, <3>1, <3>2 DEF Left
    <3>4. QED
      BY <1>8, <1>12, <3>3
  <2>2. QED
    BY <1>2, <2>1
<1>16. QED
  BY <1>4, <1>5, <1>7, <1>11, <1>12, <1>13, <1>14, <1>15

LEMMA SameModes ==
  ASSUME NEW o \in DynModes, NEW p \in DynModes,
         o.init = p.init, o.init_prio = p.init_prio, o.drop = p.drop, o.drop_prio = p.drop_prio,
         o.init_fail = p.init_fail, o.registration_fail = p.registration_fail, o.priming = p.priming
  PROVE  o = p
BY DEF DynModes

LEMMA DefaultDrop ==
  ASSUME NEW o \in DynModes
  PROVE  LET d == default_drop(o)
             both == o.init = "Dynamic" /\ o.drop = "Drop"
         IN /\ d \in DynModes
            /\ d.init = o.init /\ d.init_prio = o.init_prio
            /\ d.drop = IF both THEN "Dynamic" ELSE o.drop
            /\ d.drop_prio = IF both THEN o.init_prio ELSE o.drop_prio
            /\ d.init_fail = o.init_fail /\ d.registration_fail = o.registration_fail
            /\ d.priming = o.priming
<1> DEFINE e == [o EXCEPT !.drop = "Dynamic", !.drop_prio = o.init_prio]
<1>1. e \in DynModes
  BY DEF DynModes
<1>2. /\ e.init = o.init /\ e.init_prio = o.init_prio
      /\ e.drop = "Dynamic" /\ e.drop_prio = o.init_prio
      /\ e.init_fail = o.init_fail /\ e.registration_fail = o.registration_fail
      /\ e.priming = o.priming
  BY DEF DynModes
<1>3. default_drop(o) = IF o.init = "Dynamic" /\ o.drop = "Drop" THEN e ELSE o
  BY DEF default_drop
<1> HIDE DEF e
<1>4. QED
  BY <1>1, <1>2, <1>3

LEMMA EndArgsKeeps ==
  ASSUME MacroInv, EndArgs
  PROVE  MacroInv'
<1> DEFINE o == [opt EXCEPT !.init = IF @ = "LesserLazy" /\ ~constructor_destructor THEN "Lazy" ELSE @]
           i == IF opt.init = "LesserLazy" /\ platform = "none" THEN "Lazy" ELSE opt.init
<1>0. /\ MacroTypeOK /\ SourceInv /\ (opt.init = "Const" => opt.drop = "Dynamic")
      /\ stage = "source" /\ opt \in DynModes
  BY DEF MacroInv, EndArgs, MacroTypeOK
<1>1. o \in DynModes
  BY <1>0 DEF DynModes, LazyModes
<1>2. /\ o.init = i /\ o.init_prio = opt.init_prio
      /\ o.drop = opt.drop /\ o.drop_prio = opt.drop_prio
      /\ o.init_fail = opt.init_fail /\ o.registration_fail = opt.registration_fail
      /\ o.priming = opt.priming
  BY <1>0 DEF DynModes, constructor_destructor
<1>3. /\ \/ incompatible(o) /\ stage' = "rejected" /\ UNCHANGED opt
         \/ ~incompatible(o) /\ opt' = default_drop(o) /\ stage' = "parsed"
      /\ UNCHANGED <<platform, item, args, init_set, drop_set, typ>>
  BY DEF EndArgs
<1> HIDE DEF o
<1>4. /\ i \in {"Const", "Dynamic"} \cup LazyModes /\ opt.drop \in {"None", "Drop", "Finalize", "Dynamic"}
      /\ i = "Dynamic" <=> opt.init = "Dynamic"
      /\ i = "Const" <=> opt.init = "Const"
      /\ i = "Lazy" <=> opt.init = "Lazy" \/ (opt.init = "LesserLazy" /\ platform = "none")
  BY <1>0 DEF DynModes, LazyModes
<1> HIDE DEF i
<1>5. /\ opt.init_fail <=> ~says({"try_init_once"})
      /\ opt.registration_fail <=> says({"tolerate_leak"})
      /\ opt.priming <=> says({"prime"})
  BY <1>0 DEF SourceInv
<1>6. says({"finalize", "try_init_once"}) <=> says({"finalize"}) \/ says({"try_init_once"})
  BY DEF says, given
<1>7. combined <=> ~incompatible(o)
  <2>1. ~twice({"init", "literal", "lazy", "lesser_lazy", "drop_only"}) /\ ~twice(dropping)
    BY <1>0 DEF SourceInv, initWords
  <2>2. combined <=>
          /\ opt.registration_fail => opt.drop # "None" /\ i # "Dynamic"
          /\ i = "Dynamic" => opt.drop # "Finalize" /\ opt.init_fail
          /\ i \in {"Dynamic", "Const"} => ~opt.priming
          /\ opt.drop = "Dynamic" => i \in {"Dynamic", "Const"}
    BY <1>0, <1>4, <1>5, <1>6, <2>1, Meaning DEF combined
  <2>3. incompatible(o) <=>
          \/ opt.drop = "None" /\ opt.registration_fail
          \/ opt.priming /\ i \notin LazyModes
          \/ i \in LazyModes /\ opt.drop = "Dynamic"
          \/ i = "Dynamic" /\ (~opt.init_fail \/ opt.registration_fail \/ opt.drop = "Finalize")
    BY <1>2 DEF incompatible
  <2>4. QED
    BY <1>4, <2>2, <2>3 DEF LazyModes
<1>8. combined' <=> combined
  BY <1>3 DEF combined, twice, says, given, raw, const, prioritized, the
<1>9. CASE incompatible(o)
  <2>1. stage' = "rejected" /\ UNCHANGED opt
    BY <1>3, <1>9
  <2>2. MacroTypeOK'
    BY <1>0, <1>3, <2>1 DEF MacroTypeOK
  <2>3. QED
    BY <1>0, <1>7, <1>8, <1>9, <2>1, <2>2 DEF MacroInv, MacroMeans, legal, lenient, Compiles, TypeFits
<1>10. CASE ~incompatible(o)
  <2>0. opt' = default_drop(o) /\ stage' = "parsed"
    BY <1>3, <1>10
  <2> DEFINE both == opt.init = "Dynamic" /\ opt.drop = "Drop"
  <2>1. /\ opt' \in DynModes
        /\ opt'.init = i /\ opt'.init_prio = opt.init_prio
        /\ opt'.drop = IF both THEN "Dynamic" ELSE opt.drop
        /\ opt'.drop_prio = IF both THEN opt.init_prio ELSE opt.drop_prio
        /\ opt'.init_fail = opt.init_fail /\ opt'.registration_fail = opt.registration_fail
        /\ opt'.priming = opt.priming
    BY <1>1, <1>2, <1>4, <2>0, DefaultDrop
  <2>2. ~incompatible(opt)'
    BY <1>2, <1>4, <1>10, <2>1 DEF incompatible, LazyModes
  <2>3. opt'.init \in {"Const", "Dynamic"} => opt'.drop \in {"None", "Dynamic"}
    BY <1>0, <1>2, <1>4, <1>10, <2>1 DEF incompatible
  <2>4. /\ opt'.init = "Dynamic" <=> opt'.init_prio # NoPriority
        /\ opt'.drop = "Dynamic" <=> opt'.drop_prio # NoPriority
    BY <1>0, <1>4, <2>1 DEF MacroTypeOK
  <2>5. MacroTypeOK'
    BY <1>0, <1>3, <2>1, <2>4 DEF MacroTypeOK
  <2>6. means' = means
    BY <1>3 DEF means, says, given, raw, const, prioritized, the, given_prio
  <2>7. ~(i \in LazyModes /\ opt.drop = "Dynamic")
    BY <1>2, <1>10 DEF incompatible
  <2>8. /\ means.init = opt'.init
        /\ means.init_prio = opt'.init_prio
        /\ means.init_fail = opt'.init_fail
        /\ means.registration_fail = opt'.registration_fail
        /\ means.priming = opt'.priming
    <3>1. means.init = opt'.init
      <4>1. opt.init \in {"Const", "Dynamic"} \cup LazyModes
        BY <1>0 DEF DynModes
      <4>2. QED
        BY <1>0, <1>4, <2>1, <4>1, Meaning DEF means, LazyModes
    <3>2. means.init_prio = opt'.init_prio
      BY <1>0, <2>1, Meaning DEF means
    <3>3. /\ opt'.init_fail \in BOOLEAN /\ opt'.registration_fail \in BOOLEAN /\ opt'.priming \in BOOLEAN
      BY <2>1 DEF DynModes
    <3>4. /\ says({"try_init_once"}) \in BOOLEAN /\ says({"tolerate_leak"}) \in BOOLEAN
          /\ says({"prime"}) \in BOOLEAN
      BY DEF says
    <3>5. QED
      BY <1>5, <2>1, <3>1, <3>2, <3>3, <3>4 DEF means
  <2>9. means.drop = opt'.drop
    BY <1>0, <1>4, <2>1, <2>7, Meaning DEF means, LazyModes
  <2>10. means.drop_prio = opt'.drop_prio
    <3>1. opt.drop # "Dynamic" => opt.drop_prio = NoPriority
      BY <1>0 DEF MacroTypeOK
    <3>2. opt.init # "Dynamic" => opt.init_prio = NoPriority
      BY <1>0 DEF MacroTypeOK
    <3>3. QED
      BY <1>0, <1>4, <2>1, <3>1, <3>2, Meaning DEF means
  <2>11. means \in DynModes
    <3>1. /\ means.init_fail \in BOOLEAN /\ means.registration_fail \in BOOLEAN /\ means.priming \in BOOLEAN
          /\ means.init \in {"Const", "Dynamic"} \cup LazyModes
          /\ means.drop \in {"None", "Drop", "Finalize", "Dynamic"}
          /\ means.init_prio \in Priorities \cup {0, NoPriority}
          /\ means.drop_prio \in Priorities \cup {0, NoPriority}
      BY <2>1, <2>8, <2>9, <2>10 DEF DynModes
    <3>2. means = [init |-> means.init, init_prio |-> means.init_prio, drop |-> means.drop,
                   drop_prio |-> means.drop_prio, init_fail |-> means.init_fail,
                   registration_fail |-> means.registration_fail, priming |-> means.priming]
      BY DEF means
    <3>3. QED
      BY <3>1, <3>2 DEF DynModes
  <2>12. opt' = means
    BY <2>1, <2>8, <2>9, <2>10, <2>11, SameModes
  <2>13. opt'.init = "Const" => opt'.drop = "Dynamic"
    BY <1>0, <1>4, <2>1
  <2>14. QED
    BY <1>7, <1>8, <1>10, <2>0, <2>2, <2>3, <2>5, <2>6, <2>12, <2>13
    DEF MacroInv, MacroMeans, legal, lenient, Compiles, TypeFits, ParsedInv
<1>11. QED
  BY <1>9, <1>10

(***************************************************************************)
(* The expansion.                                                          *)
(***************************************************************************)
(* The chain fails where Compiles does.                                    *)
LEMMA SelectError ==
  ASSUME opt \in DynModes, item \in [mutable : BOOLEAN, thread_local : BOOLEAN, match : BOOLEAN]
  PROVE  select = "error" <=>
           /\ ~item.mutable /\ opt.init \in LazyModes
           /\ opt.priming \/ (opt.drop = "Drop" /\ ~item.thread_local)
BY DEF select, select_primed, select_thread_local, either, DynModes

(* The type that the chain selects.                                        *)
Fits(t) ==
  /\ t \in Types
  /\ t \in Raw <=> opt.init \notin LazyModes
  /\ t \in UnSync <=> item.thread_local
  /\ t \in Primed <=> opt.priming
  /\ t \in Global <=> opt.init = "LesserLazy" /\ ~item.thread_local
  /\ t \in Droped \cup Finalized <=> opt.drop \in {"Drop", "Finalize"}
  /\ t \in Finalized <=> opt.drop = "Finalize" /\ ~opt.priming
  /\ t \in ByReference \cup {"ConstStatic"} <=> ~item.mutable

LEMMA SelectFits ==
  ASSUME MacroTypeOK, ParsedInv, select # "error", opt.init \in LazyModes \/ ~item.thread_local
  PROVE  Fits(select)
<1>0. /\ opt \in DynModes /\ item \in [mutable : BOOLEAN, thread_local : BOOLEAN, match : BOOLEAN]
      /\ opt.init \in {"Const", "Dynamic", "Lazy", "LesserLazy"}
      /\ opt.drop \in {"None", "Drop", "Finalize", "Dynamic"}
      /\ item.mutable \in BOOLEAN /\ item.thread_local \in BOOLEAN /\ opt.priming \in BOOLEAN
  BY DEF MacroTypeOK, DynModes, LazyModes
<1>1. CASE opt.init \notin LazyModes
  <2>1. select = IF item.mutable THEN "Static" ELSE "ConstStatic"
    BY <1>1 DEF select, either
  <2>2. ~item.thread_local /\ ~opt.priming /\ opt.drop \in {"None", "Dynamic"}
    BY <1>0, <1>1 DEF ParsedInv, incompatible, LazyModes
  <2>3. opt.init # "LesserLazy"
    BY <1>1 DEF LazyModes
  <2>4. QED
    BY <1>0, <1>1, <2>1, <2>2, <2>3
    DEF Fits, Types, Raw, Droped, Finalized, Primed, Global, UnSync, ByReference
<1>2. CASE opt.init \in LazyModes
  <2>0. opt.drop \in {"None", "Drop", "Finalize"} /\ opt.init \in {"Lazy", "LesserLazy"}
    BY <1>0, <1>2 DEF ParsedInv, incompatible, LazyModes
  <2>1. CASE opt.priming
    <3>1. select = select_primed
      BY <1>2, <2>1 DEF select
    <3>2. item.mutable
      BY <1>0, <1>2, <2>1, SelectError
    <3>3. CASE item.thread_local
      <4>1. select = IF opt.drop = "None" THEN "UnSyncPrimedLockedLazy" ELSE "UnSyncPrimedLockedLazyDroped"
        BY <3>1, <3>2, <3>3 DEF select_primed, either
      <4>2. QED
        BY <1>2, <2>0, <2>1, <3>2, <3>3, <4>1
        DEF Fits, Types, Raw, Droped, Finalized, Primed, Global, UnSync, ByReference
    <3>4. CASE ~item.thread_local
      <4>1. select = IF opt.init = "Lazy"
                     THEN IF opt.drop = "None" THEN "PrimedLockedLazy" ELSE "PrimedLockedLazyDroped"
                     ELSE IF opt.drop = "None" THEN "PrimedLesserLockedLazy" ELSE "PrimedLesserLockedLazyDroped"
        BY <2>0, <3>1, <3>2, <3>4 DEF select_primed, either
      <4>2. QED
        BY <1>2, <2>0, <2>1, <3>2, <3>4, <4>1
        DEF Fits, Types, Raw, Droped, Finalized, Primed, Global, UnSync, ByReference
    <3>5. QED
      BY <3>3, <3>4
  <2>2. CASE ~opt.priming /\ item.thread_local
    <3>1. select = select_thread_local
      BY <1>2, <2>2 DEF select
    <3>2. select = IF item.mutable
                   THEN IF opt.drop = "Finalize" THEN "UnSyncLockedLazyFinalize"
                        ELSE IF opt.drop = "Drop" THEN "UnSyncLockedLazyDroped" ELSE "UnSyncLockedLazy"
                   ELSE IF opt.drop = "Finalize" THEN "UnSyncLazyFinalize"
                        ELSE IF opt.drop = "Drop" THEN "UnSyncLazyDroped" ELSE "UnSyncLazy"
      BY <3>1 DEF select_thread_local, either
    <3>3. QED
      BY <1>0, <1>2, <2>0, <2>2, <3>2
      DEF Fits, Types, Raw, Droped, Finalized, Primed, Global, UnSync, ByReference
  <2>3. CASE ~opt.priming /\ ~item.thread_local /\ opt.init = "Lazy"
    <3>1. opt.drop = "Drop" => item.mutable
      BY <1>0, <1>2, <2>3, SelectError
    <3>2. select = IF item.mutable
                   THEN IF opt.drop = "Finalize" THEN "LockedLazyFinalize"
                        ELSE IF opt.drop = "Drop" THEN "LockedLazyDroped" ELSE "LockedLazy"
                   ELSE IF opt.drop = "Finalize" THEN "LazyFinalize" ELSE "Lazy"
      BY <1>2, <2>0, <2>3, <3>1 DEF select, either
    <3>3. QED
      BY <1>0, <1>2, <2>0, <2>3, <3>1, <3>2
      DEF Fits, Types, Raw, Droped, Finalized, Primed, Global, UnSync, ByReference
  <2>4. CASE ~opt.priming /\ ~item.thread_local /\ opt.init = "LesserLazy"
    <3>1. opt.drop = "Drop" => item.mutable
      BY <1>0, <1>2, <2>4, SelectError
    <3>2. select = IF item.mutable
                   THEN IF opt.drop = "Finalize" THEN "LesserLockedLazyFinalize"
                        ELSE IF opt.drop = "Drop" THEN "LesserLockedLazyDroped" ELSE "LesserLockedLazy"
                   ELSE IF opt.drop = "Finalize" THEN "LesserLazyFinalize" ELSE "LesserLazy"
      BY <1>2, <2>0, <2>4, <3>1 DEF select, either
    <3>3. QED
      BY <1>0, <1>2, <2>0, <2>4, <3>1, <3>2
      DEF Fits, Types, Raw, Droped, Finalized, Primed, Global, UnSync, ByReference
  <2>5. QED
    BY <1>0, <2>0, <2>1, <2>2, <2>3, <2>4
<1>3. QED
  BY <1>1, <1>2

LEMMA ExpandKeeps ==
  ASSUME MacroInv, gen_dyn_init
  PROVE  MacroInv'
<1> DEFINE fails == \/ item.thread_local /\ opt.init \notin LazyModes
                    \/ select = "error"
                    \/ opt.priming /\ ~item.match
                    \/ opt.init = "Dynamic" /\ no_section(opt.init_prio)
                    \/ opt.drop = "Dynamic" /\ no_section(opt.drop_prio)
<1>0. /\ MacroTypeOK /\ ParsedInv /\ combined /\ opt = means /\ stage = "parsed"
      /\ opt.init = "Const" => opt.drop = "Dynamic"
  BY DEF MacroInv, MacroMeans, legal, lenient, gen_dyn_init
<1>1. /\ stage' = IF fails THEN "rejected" ELSE "expanded"
      /\ typ' = IF fails THEN typ ELSE select
      /\ UNCHANGED <<platform, item, args, opt, init_set, drop_set>>
  BY DEF gen_dyn_init
<1>2. fails <=> ~Compiles(opt)
  <2>1. /\ opt \in DynModes /\ item \in [mutable : BOOLEAN, thread_local : BOOLEAN, match : BOOLEAN]
        /\ opt.init \in {"Const", "Dynamic"} \cup LazyModes
        /\ platform \in {"elf", "mach_o", "none"}
        /\ opt.init = "Dynamic" <=> opt.init_prio # NoPriority
        /\ opt.drop = "Dynamic" <=> opt.drop_prio # NoPriority
    BY <1>0, MacroAssumption DEF MacroTypeOK, DynModes
  <2>2. (opt.priming => opt.init \in LazyModes) /\ (opt.drop = "Drop" => opt.init \in LazyModes)
    BY <1>0, <2>1 DEF ParsedInv, incompatible
  <2>3. select = "error" <=> /\ ~item.mutable /\ opt.init \in LazyModes
                             /\ opt.priming \/ (opt.drop = "Drop" /\ ~item.thread_local)
    BY <2>1, SelectError
  <2>4. (platform # "elf" => {opt.init_prio, opt.drop_prio} \subseteq {NoPriority} \cup
                               (IF platform = "mach_o" THEN {0} ELSE {}))
        <=> /\ ~(opt.init = "Dynamic" /\ no_section(opt.init_prio))
            /\ ~(opt.drop = "Dynamic" /\ no_section(opt.drop_prio))
    BY <2>1 DEF no_section
  <2>5. QED
    BY <2>2, <2>3, <2>4 DEF Compiles, fitting, strict
<1> HIDE DEF fails
<1>3. (combined' <=> combined) /\ means' = means
  BY <1>1 DEF combined, twice, means, says, given, raw, const, prioritized, the, given_prio
<1>4. (Compiles(opt)' <=> Compiles(opt)) /\ (Compiles(means)' <=> Compiles(means))
  BY <1>1, <1>3 DEF Compiles, fitting, strict
<1>5. CASE fails
  <2>1. stage' = "rejected" /\ typ' = typ
    BY <1>1, <1>5
  <2>2. MacroTypeOK'
    BY <1>0, <1>1, <2>1 DEF MacroTypeOK
  <2>3. ~(combined' /\ Compiles(means)')
    BY <1>0, <1>2, <1>4, <1>5
  <2>4. QED
    BY <1>0, <1>1, <2>1, <2>2, <2>3 DEF MacroInv, MacroMeans, legal, lenient, Compiles, TypeFits
<1>6. CASE ~fails
  <2>1. stage' = "expanded" /\ typ' = select
    BY <1>1, <1>6
  <2>2. Fits(select)
    BY <1>0, <1>6, SelectFits DEF fails
  <2>3. MacroTypeOK'
    BY <1>0, <1>1, <2>1, <2>2 DEF MacroTypeOK, Fits
  <2>4. TypeFits'
    BY <1>1, <2>1, <2>2 DEF TypeFits, Fits
  <2>5. ParsedInv'
    BY <1>0, <1>1 DEF ParsedInv, incompatible
  <2>6. MacroMeans'
    BY <1>0, <1>1, <1>2, <1>3, <1>4, <1>6, <2>1 DEF MacroMeans, legal, lenient, Compiles
  <2>7. QED
    BY <1>0, <1>1, <2>1, <2>3, <2>4, <2>5, <2>6 DEF MacroInv
<1>7. QED
  BY <1>5, <1>6

LEMMA MacroStep ==
  ASSUME MacroInv, Expand
  PROVE  MacroInv'
<1>1. ASSUME NEW a \in Args, ParseArg(a) PROVE MacroInv'
  <2>1. CASE unexpected(a) \/ (sets_init(a) /\ init_set) \/ (sets_drop(a) /\ drop_set)
    BY <1>1, <2>1, ParseRejects DEF ParseArg
  <2>2. CASE ~unexpected(a) /\ ~(sets_init(a) /\ init_set) /\ ~(sets_drop(a) /\ drop_set)
    BY <1>1, <2>2, ParseAccepts DEF ParseArg
  <2>3. QED
    BY <2>1, <2>2
<1>2. QED
  BY <1>1, EndArgsKeeps, ExpandKeeps DEF Expand

LEMMA MacroStart == MacroInit => MacroInv
<1> SUFFICES ASSUME MacroInit PROVE MacroInv
  OBVIOUS
<1>0. args = <<>> /\ Len(args) = 0 /\ 1..Len(args) = {} /\ stage = "source" /\ MaxArgs \in Nat
  BY MacroAssumption DEF MacroInit
<1>1. /\ opt.init = "LesserLazy" /\ opt.drop = "None" /\ opt.init_fail /\ ~opt.registration_fail
      /\ ~opt.priming /\ opt.init_prio = NoPriority /\ opt.drop_prio = NoPriority
      /\ opt \in DynModes
  BY DEF MacroInit, DynModes, LazyModes
<1>2. MacroTypeOK
  <2>1. args \in Seq(Args) /\ Len(args) <= MaxArgs
    BY <1>0
  <2>2. {init_set, drop_set} \subseteq BOOLEAN
    BY DEF MacroInit
  <2>3. QED
    BY <1>1, <2>1, <2>2 DEF MacroInit, MacroTypeOK
<1>3. \A W : ~says(W) /\ ~twice(W)
  BY <1>0 DEF says, twice, given
<1>4. SourceInv
  BY <1>0, <1>1, <1>3 DEF SourceInv, MacroInit
<1>5. QED
  BY <1>0, <1>1, <1>2, <1>4 DEF MacroInv, MacroMeans, legal, lenient, Compiles, TypeFits
-----------------------------------------------------------------------------
(***************************************************************************)
(* The steps of the run.                                                   *)
(***************************************************************************)
LEMMA MacroQuiet ==
  ASSUME MacroInv, UNCHANGED sourceVars, stage' \in running \cup {"aborted"}
  PROVE  MacroInv'
<1>1. MacroTypeOK' /\ (opt'.init = "Const" => opt'.drop = "Dynamic")
  BY DEF MacroInv, MacroTypeOK, sourceVars
<1>2. stage' \notin {"source", "parsed", "rejected", "expanded"}
  BY DEF running
<1>3. QED
  BY <1>1, <1>2 DEF MacroInv, MacroMeans, legal, lenient, Compiles, TypeFits

LEMMA Entries ==
  ASSUME RawTypeOK
  PROVE  /\ \A f \in Functions : f.prio \in Nat /\ f # NoCode /\ entry(f.fn, f.prio) = f
         /\ \A s \in DOMAIN mode : \A p : entry(s, p) # NoCode
         /\ DOMAIN mode \cap {"none", "constructor", "destructor", "__lazy_init", "mark_inited"} = {}
         /\ \A s \in DOMAIN mode :
              /\ mode[s].init = "Dynamic" => mode[s].init_prio \in Nat
              /\ mode[s].drop = "Dynamic" => mode[s].drop_prio \in Nat
              /\ mode[s].init \in {"Const", "Dynamic"} /\ mode[s].drop \in {"None", "Dynamic"}
              /\ status[s] \in 0..2
         /\ \A s, p : entry(s, p).fn = s /\ entry(s, p).prio = p
         /\ NoCode.fn = "none" /\ NoCode.prio = MIN /\ MIN = -1
<1>0. \A x \in Priorities \cup {0, 1} : x \in Nat /\ x # MIN
  BY MacroAssumption DEF MIN
<1>1. DOMAIN mode \cap {"none", "constructor", "destructor", "__lazy_init", "mark_inited"} = {}
  BY RawAssumption DEF RawTypeOK
<1>2. \A f \in Functions : f.prio \in Nat /\ f.prio # MIN
  <2>1. \A f \in Functions : f.prio \in Priorities \cup {0, 1}
    BY DEF Functions
  <2>2. QED
    BY <1>0, <2>1
<1>3. \A f \in Functions : f # NoCode /\ entry(f.fn, f.prio) = f
  BY <1>2 DEF Functions, NoCode, entry
<1>4. \A s \in DOMAIN mode : \A p : entry(s, p) # NoCode
  BY <1>1 DEF entry, NoCode
<1>5. \A s \in DOMAIN mode :
        /\ mode[s].init = "Dynamic" => mode[s].init_prio \in Nat
        /\ mode[s].drop = "Dynamic" => mode[s].drop_prio \in Nat
        /\ mode[s].init \in {"Const", "Dynamic"} /\ mode[s].drop \in {"None", "Dynamic"}
        /\ status[s] \in 0..2
  <2>1. \A r \in RawModes :
          /\ r.init = "Dynamic" => r.init_prio \in Priorities \cup {0}
          /\ r.drop = "Dynamic" => r.drop_prio \in Priorities \cup {0}
          /\ r.init \in {"Const", "Dynamic"} /\ r.drop \in {"None", "Dynamic"}
    BY DEF RawModes
  <2>2. \A s \in DOMAIN mode : mode[s] \in RawModes /\ status[s] \in 0..2
    BY DEF RawTypeOK
  <2>3. QED
    BY <1>0, <2>1, <2>2
<1>6. QED
  BY <1>1, <1>2, <1>3, <1>4, <1>5 DEF entry, NoCode, MIN

LEMMA LinkKeeps ==
  ASSUME RawInv, Link
  PROVE  RawInv'
<1>0. /\ MacroTypeOK /\ RawTypeOK /\ ParsedInv /\ TypeFits /\ stage = "expanded"
      /\ opt.init = "Const" => opt.drop = "Dynamic"
      /\ cur = NoCode /\ CUR_INIT_PRIO = MIN /\ CUR_DROP_PRIO = MIN /\ LAZY_INIT_ENSURED = FALSE
      /\ typ \in Raw \cup Global
  BY DEF RawInv, MacroInv, RunInv, Link, compiling
<1> DEFINE this == [init |-> opt.init, init_prio |-> opt.init_prio, drop |-> opt.drop, drop_prio |-> opt.drop_prio]
           D == Others \cup (IF typ \in Raw THEN {This} ELSE {})
           m(others) == [s \in D |-> IF s = This THEN this ELSE others[s]]
<1>1. PICK others \in [Others -> RawModes], p \in Priorities, q \in Priorities :
        /\ mode' = m(others)
        /\ status' = [s \in DOMAIN m(others) |-> IF m(others)[s].init = "Const" THEN 1 ELSE 0]
        /\ init_array' =
             {entry(s, m(others)[s].init_prio) : s \in {s \in DOMAIN m(others) : m(others)[s].init = "Dynamic"}}
             \cup {entry("constructor", p)}
             \cup (IF support_priority THEN {entry("mark_inited", 0)} ELSE {})
             \cup (IF support_priority /\ typ \in Global THEN {entry("__lazy_init", 1)} ELSE {})
        /\ fini_array' =
             {entry(s, m(others)[s].drop_prio) : s \in {s \in DOMAIN m(others) : m(others)[s].drop = "Dynamic"}}
             \cup {entry("destructor", q)}
        /\ lazy_inited' = (typ \notin Global)
  BY DEF Link
<1>2. /\ stage' = "constructors" /\ cur' = NoCode /\ LAZY_INIT_ENSURED' = FALSE
      /\ CUR_INIT_PRIO' = MIN /\ CUR_DROP_PRIO' = MIN
      /\ args' = <<>> /\ init_set' = FALSE /\ drop_set' = FALSE /\ typ' = "none"
      /\ item' = [mutable |-> FALSE, thread_local |-> FALSE, match |-> FALSE]
      /\ opt' = [init |-> "Lazy", init_prio |-> NoPriority, drop |-> "None", drop_prio |-> NoPriority,
                 init_fail |-> TRUE, registration_fail |-> FALSE, priming |-> FALSE]
      /\ platform' = platform
  BY <1>0 DEF Link
<1>3. typ \in Raw => this \in RawModes
  <2>1. typ \in Raw => opt.init \in {"Const", "Dynamic"} /\ opt.drop \in {"None", "Dynamic"}
    BY <1>0 DEF TypeFits, ParsedInv, MacroTypeOK, DynModes
  <2>2. /\ opt.init_prio \in Priorities \cup {0, NoPriority}
        /\ opt.drop_prio \in Priorities \cup {0, NoPriority}
        /\ opt.init = "Dynamic" <=> opt.init_prio # NoPriority
        /\ opt.drop = "Dynamic" <=> opt.drop_prio # NoPriority
    BY <1>0 DEF MacroTypeOK, DynModes
  <2>3. QED
    BY <1>0, <2>1, <2>2 DEF RawModes
<1>4. /\ DOMAIN mode' = D /\ D \subseteq Others \cup {This}
      /\ \A s \in D : mode'[s] \in RawModes
  <2>1. \A s \in D : s # This => s \in Others /\ others[s] \in RawModes
    OBVIOUS
  <2>2. This \in D => typ \in Raw
    BY RawAssumption
  <2>3. QED
    BY <1>1, <1>3, <2>1, <2>2
<1>5. \A s \in D : m(others)[s] = mode'[s]
  BY <1>1
<1>6. DOMAIN m(others) = D
  OBVIOUS
<1> HIDE DEF m, D, this
<1>7. /\ status' = [s \in D |-> IF mode'[s].init = "Const" THEN 1 ELSE 0]
      /\ \A f \in init_array' :
           \/ \E s \in D : mode'[s].init = "Dynamic" /\ f = entry(s, mode'[s].init_prio)
           \/ f = entry("constructor", p)
           \/ f = entry("mark_inited", 0) /\ support_priority
           \/ f = entry("__lazy_init", 1) /\ support_priority /\ typ \in Global
      /\ \A s \in D : mode'[s].init = "Dynamic" => entry(s, mode'[s].init_prio) \in init_array'
      /\ support_priority /\ typ \in Global => entry("__lazy_init", 1) \in init_array'
      /\ \A f \in fini_array' :
           \/ \E s \in D : mode'[s].drop = "Dynamic" /\ f = entry(s, mode'[s].drop_prio)
           \/ f = entry("destructor", q)
      /\ \A s \in D : mode'[s].drop = "Dynamic" => entry(s, mode'[s].drop_prio) \in fini_array'
  BY <1>1, <1>5, <1>6
<1>8. /\ D \cap {"none", "constructor", "destructor", "__lazy_init", "mark_inited"} = {}
      /\ \A s, x : entry(s, x).fn = s /\ entry(s, x).prio = x
      /\ NoCode.fn = "none" /\ NoCode.prio = MIN /\ MIN = -1 /\ NoPriority = -1
  BY <1>4, RawAssumption DEF entry, NoCode, MIN, NoPriority
<1>9. \A s \in D : /\ mode'[s].init \in {"Const", "Dynamic"} /\ mode'[s].drop \in {"None", "Dynamic"}
                   /\ mode'[s].init = "Dynamic" => mode'[s].init_prio \in Priorities \cup {0}
                   /\ mode'[s].drop = "Dynamic" => mode'[s].drop_prio \in Priorities \cup {0}
  BY <1>4 DEF RawModes
<1>10. MacroInv'
  <2>1. opt'.init = "Lazy" /\ opt'.drop = "None" /\ opt' \in DynModes
        /\ opt'.init_prio = NoPriority /\ opt'.drop_prio = NoPriority
    BY <1>2 DEF DynModes, LazyModes
  <2>2. args' \in Seq(Args) /\ Len(args') <= MaxArgs
    BY <1>2, MacroAssumption
  <2>3. {init_set, drop_set}' \subseteq BOOLEAN /\ item' \in [mutable : BOOLEAN, thread_local : BOOLEAN, match : BOOLEAN]
    BY <1>2
  <2>4. MacroTypeOK'
    BY <1>0, <1>2, <2>1, <2>2, <2>3 DEF MacroTypeOK
  <2>5. QED
    BY <1>2, <2>1, <2>4 DEF MacroInv, MacroMeans, legal, lenient, Compiles, TypeFits
<1>11. RawTypeOK'
  <2>1. status' \in [DOMAIN mode' -> 0..2]
    BY <1>4, <1>7
  <2>2. init_array' \subseteq Functions
    BY <1>4, <1>7, <1>9 DEF Functions, entry
  <2>3. fini_array' \subseteq Functions
    BY <1>4, <1>7, <1>9 DEF Functions, entry
  <2>4. lazy_inited' \in BOOLEAN
    BY <1>1
  <2>5. MacroTypeOK'
    BY <1>10 DEF MacroInv
  <2>6. QED
    BY <1>2, <1>4, <2>1, <2>2, <2>3, <2>4, <2>5 DEF RawTypeOK
<1>12. EntriesInv'
  BY <1>2, <1>4, <1>7, <1>8 DEF EntriesInv
<1>13. NoCode \notin init_array'
  BY <1>11, Entries, <1>7, <1>8
<1>14. InitInv'
  <2>1. \A y \in D : toInit(y)' <=> mode'[y].init = "Dynamic"
    BY <1>7 DEF toInit, entry
  <2>2. current' = {}
    BY <1>2 DEF current
  <2>3. QED
    BY <1>2, <1>4, <1>7, <1>9, <1>13, <2>1, <2>2 DEF InitInv, entry
<1>15. DropInv'
  BY <1>2 DEF DropInv
<1>16. HintInv'
  <2>1. ASSUME NEW f \in init_array', f.fn = "mark_inited"
        PROVE  f.prio = 0 /\ (lazy_inited' \/ entry("__lazy_init", 1) \in init_array')
    <3>1. f = entry("mark_inited", 0) /\ support_priority
      BY <1>7, <1>8, <2>1
    <3>2. lazy_inited' <=> typ \notin Global
      BY <1>1
    <3>3. typ \in Global => entry("__lazy_init", 1) \in init_array'
      BY <1>7, <3>1
    <3>4. QED
      BY <1>8, <3>1, <3>2, <3>3
  <2>2. QED
    BY <1>2, <1>8, <2>1 DEF HintInv, entry
<1>17. QED
  BY <1>2, <1>10, <1>11, <1>12, <1>14, <1>15, <1>16 DEF RawInv, RunInv, compiling

LEMMA CallConstructorKeeps ==
  ASSUME RawInv, NEW f \in init_array, CallConstructor(f)
  PROVE  RawInv'
<1>0. /\ MacroInv /\ RawTypeOK /\ EntriesInv /\ InitInv /\ DropInv /\ HintInv
      /\ stage = "constructors" /\ stage' = stage /\ cur = NoCode /\ cur' = f
  BY DEF RawInv, RunInv, running, CallConstructor
<1>1. /\ init_array' = init_array \ {f} /\ UNCHANGED <<mode, status, fini_array, CUR_DROP_PRIO>>
      /\ UNCHANGED <<lazy_inited, LAZY_INIT_ENSURED>> /\ UNCHANGED sourceVars
      /\ CUR_INIT_PRIO' = IF f.fn \in DOMAIN mode THEN f.prio ELSE CUR_INIT_PRIO
  BY DEF CallConstructor
<1>2. /\ f \in Functions /\ f.prio \in Nat /\ f # NoCode /\ f = entry(f.fn, f.prio)
      /\ \A g \in init_array : g \in Functions /\ g.prio \in Nat
  BY <1>0, Entries DEF RawTypeOK
<1>3. \A g \in init_array : g.prio <= f.prio
  <2>1. \A g \in init_array : MaxPriority - f.prio <= MaxPriority - g.prio
    BY DEF CallConstructor, init_section
  <2>2. QED
    BY <1>2, <2>1, RawAssumption
<1>4. CUR_INIT_PRIO' = IF f.fn \in DOMAIN mode THEN f.prio ELSE MIN
  BY <1>0, <1>1, Entries DEF EntriesInv
<1>5. MacroInv'
  BY <1>0, <1>1, MacroQuiet DEF running
<1>6. RawTypeOK'
  <2>1. f.fn \in DOMAIN mode => f.prio \in Priorities \cup {0}
    <3>1. f.fn \in DOMAIN mode =>
            /\ f.prio = mode[f.fn].init_prio /\ mode[f.fn] \in RawModes
      BY <1>0 DEF EntriesInv, RawTypeOK
    <3>2. \A r \in RawModes : r.init_prio \in Priorities \cup {0, NoPriority}
      BY DEF RawModes
    <3>3. f.prio # NoPriority
      BY <1>2 DEF NoPriority
    <3>4. QED
      BY <3>1, <3>2, <3>3
  <2>2. CUR_INIT_PRIO' \in Priorities \cup {0, MIN}
    BY <1>4, <2>1
  <2>3. MacroTypeOK'
    BY <1>5 DEF MacroInv
  <2>4. QED
    BY <1>0, <1>1, <1>2, <2>2, <2>3 DEF RawTypeOK
<1>7. EntriesInv'
  BY <1>0, <1>1, <1>4 DEF EntriesInv
<1>8. current' = {f} /\ current = {}
  BY <1>0, <1>2 DEF current
<1>9. \A y \in DOMAIN mode : toInit(y)' <=> toInit(y)
  BY <1>0, <1>1, <1>2, Entries DEF toInit, entry
<1>10. InitInv'
  <2>1. /\ cur' \notin init_array'
        /\ \A g \in init_array', h \in current' : g.prio <= h.prio
        /\ \A g \in current' : g.fn \in DOMAIN mode' =>
             mode'[g.fn].init = "Dynamic" /\ g.prio = mode'[g.fn].init_prio
    BY <1>0, <1>1, <1>3, <1>8 DEF EntriesInv
  <2>2. \A y \in DOMAIN mode : mode[y].init = "Dynamic" /\ ~toInit(y) =>
          \A g \in init_array' \cup current' : g.prio <= mode[y].init_prio
    BY <1>0, <1>1, <1>8 DEF InitInv
  <2>3. \A y \in DOMAIN mode :
          /\ status[y] = IF toInit(y) THEN 0 ELSE 1
          /\ mode[y].drop = "Dynamic" => entry(y, mode[y].drop_prio) \in fini_array
    BY <1>0 DEF InitInv
  <2>4. QED
    BY <1>0, <1>1, <1>9, <2>1, <2>2, <2>3 DEF InitInv, entry
<1>11. DropInv'
  BY <1>0 DEF DropInv
<1>12. HintInv'
  <2>1. f.fn = "mark_inited" => lazy_inited
    <3>1. ASSUME f.fn = "mark_inited", ~lazy_inited PROVE FALSE
      <4>1. f.prio = 0 /\ entry("__lazy_init", 1) \in init_array \cup {cur}
        BY <1>0, <3>1 DEF HintInv
      <4>2. entry("__lazy_init", 1) \in init_array /\ entry("__lazy_init", 1).prio = 1
        BY <1>0, <4>1, Entries DEF entry, NoCode
      <4>3. QED
        BY <1>3, <4>1, <4>2
    <3>2. QED
      BY <3>1
  <2>2. \A g \in init_array' : g.fn = "mark_inited" =>
          g.prio = 0 /\ (lazy_inited \/ entry("__lazy_init", 1) \in init_array' \cup {f})
    BY <1>0, <1>1, Entries DEF HintInv, entry, NoCode
  <2>3. QED
    BY <1>0, <1>1, <2>1, <2>2 DEF HintInv, entry
<1>13. QED
  BY <1>0, <1>5, <1>6, <1>7, <1>10, <1>11, <1>12 DEF RawInv, RunInv, compiling

LEMMA EndConstructorKeeps ==
  ASSUME RawInv, EndConstructor
  PROVE  RawInv'
<1>0. /\ MacroInv /\ RawTypeOK /\ EntriesInv /\ InitInv /\ DropInv /\ HintInv
      /\ stage = "constructors" /\ stage' = stage /\ cur # NoCode /\ cur' = NoCode
  BY DEF RawInv, RunInv, running, EndConstructor
<1>1. /\ UNCHANGED <<mode, init_array, fini_array, CUR_DROP_PRIO>> /\ UNCHANGED sourceVars
      /\ lazy_inited' = (lazy_inited \/ cur.fn = "__lazy_init")
      /\ LAZY_INIT_ENSURED' = (LAZY_INIT_ENSURED \/ cur.fn = "mark_inited")
      /\ CUR_INIT_PRIO' = IF cur.fn \in DOMAIN mode THEN MIN ELSE CUR_INIT_PRIO
      /\ status' = IF cur.fn \in DOMAIN mode THEN [status EXCEPT ![cur.fn] = 1] ELSE status
  BY DEF EndConstructor
<1>2. cur \in Functions /\ cur.prio \in Nat /\ cur = entry(cur.fn, cur.prio)
  BY <1>0, Entries DEF RawTypeOK
<1>3. CUR_INIT_PRIO' = MIN
  BY <1>0, <1>1 DEF EntriesInv
<1>4. MacroInv'
  BY <1>0, <1>1, MacroQuiet DEF running
<1>5. /\ status' \in [DOMAIN mode' -> 0..2]
      /\ \A y \in DOMAIN mode : status'[y] = IF y = cur.fn THEN 1 ELSE status[y]
  BY <1>0, <1>1 DEF RawTypeOK
<1>6. RawTypeOK'
  <2>1. MacroTypeOK'
    BY <1>4 DEF MacroInv
  <2>2. lazy_inited' \in BOOLEAN /\ LAZY_INIT_ENSURED' \in BOOLEAN
    BY <1>0, <1>1 DEF RawTypeOK
  <2>3. QED
    BY <1>0, <1>1, <1>3, <1>5, <2>1, <2>2 DEF RawTypeOK
<1>7. EntriesInv'
  BY <1>0, <1>1, <1>3, Entries DEF EntriesInv
<1>8. current' = {} /\ current = {cur}
  BY <1>0 DEF current
<1>9. ASSUME NEW y \in DOMAIN mode
      PROVE  /\ y = cur.fn => ~toInit(y)' /\ toInit(y)
             /\ y # cur.fn => (toInit(y)' <=> toInit(y))
  <2>1. y = cur.fn => mode[y].init = "Dynamic" /\ entry(y, mode[y].init_prio) = cur
    BY <1>0, <1>2, <1>8, <1>9 DEF InitInv
  <2>2. cur \notin init_array
    BY <1>0 DEF InitInv
  <2>3. y # cur.fn => entry(y, mode[y].init_prio) # cur
    BY <1>0, Entries
  <2>4. entry(y, mode[y].init_prio) # NoCode
    BY <1>0, Entries
  <2>5. /\ toInit(y)' <=> mode[y].init = "Dynamic" /\ entry(y, mode[y].init_prio) \in init_array \cup {NoCode}
        /\ toInit(y) <=> mode[y].init = "Dynamic" /\ entry(y, mode[y].init_prio) \in init_array \cup {cur}
    BY <1>0, <1>1 DEF toInit, entry
  <2>6. QED
    BY <2>1, <2>2, <2>3, <2>4, <2>5
<1>10. InitInv'
  <2>1. NoCode \notin init_array
    BY <1>0, Entries DEF RawTypeOK
  <2>2. ASSUME NEW y \in DOMAIN mode
        PROVE  /\ status'[y] = IF toInit(y)' THEN 0 ELSE 1
               /\ mode[y].init = "Dynamic" /\ ~toInit(y)' =>
                    \A g \in init_array : g.prio <= mode[y].init_prio
               /\ mode[y].drop = "Dynamic" => entry(y, mode[y].drop_prio) \in fini_array
    <3>1. /\ status[y] = IF toInit(y) THEN 0 ELSE 1
          /\ mode[y].init = "Dynamic" /\ ~toInit(y) =>
               \A g \in init_array : g.prio <= mode[y].init_prio
          /\ mode[y].drop = "Dynamic" => entry(y, mode[y].drop_prio) \in fini_array
      BY <1>0 DEF InitInv
    <3>2. y = cur.fn => \A g \in init_array : g.prio <= mode[y].init_prio
      BY <1>0, <1>8 DEF InitInv
    <3>3. QED
      BY <1>5, <1>9, <3>1, <3>2
  <2>3. QED
    BY <1>0, <1>1, <1>8, <2>1, <2>2 DEF InitInv, entry
<1>11. DropInv'
  BY <1>0 DEF DropInv
<1>12. HintInv'
  <2>1. LAZY_INIT_ENSURED' => lazy_inited'
    BY <1>0, <1>1 DEF HintInv
  <2>2. \A g \in init_array : g.fn = "mark_inited" =>
          g.prio = 0 /\ (lazy_inited' \/ entry("__lazy_init", 1) \in init_array)
    <3>1. entry("__lazy_init", 1) = cur => lazy_inited'
      <4>1. entry("__lazy_init", 1) = cur => cur.fn = "__lazy_init"
        BY DEF entry
      <4>2. cur.fn = "__lazy_init" => lazy_inited'
        BY <1>1
      <4>3. QED
        BY <4>1, <4>2
    <3>2. lazy_inited => lazy_inited'
      BY <1>1
    <3>3. QED
      BY <1>0, <3>1, <3>2 DEF HintInv
  <2>3. QED
    BY <1>0, <1>1, <2>1, <2>2, Entries DEF HintInv, entry
<1>13. QED
  BY <1>0, <1>4, <1>6, <1>7, <1>10, <1>11, <1>12 DEF RawInv, RunInv, compiling

LEMMA CallDestructorKeeps ==
  ASSUME RawInv, NEW f \in fini_array, CallDestructor(f)
  PROVE  RawInv'
<1>0. /\ MacroInv /\ RawTypeOK /\ EntriesInv /\ InitInv /\ DropInv /\ HintInv
      /\ stage = "destructors" /\ stage' = stage /\ cur = NoCode /\ cur' = f
  BY DEF RawInv, RunInv, running, CallDestructor
<1>1. /\ fini_array' = fini_array \ {f} /\ UNCHANGED <<mode, status, init_array, CUR_INIT_PRIO>>
      /\ UNCHANGED <<lazy_inited, LAZY_INIT_ENSURED>> /\ UNCHANGED sourceVars
      /\ CUR_DROP_PRIO' = IF f.fn \in DOMAIN mode THEN f.prio ELSE CUR_DROP_PRIO
  BY DEF CallDestructor
<1>2. /\ f \in Functions /\ f.prio \in Nat /\ f # NoCode /\ f = entry(f.fn, f.prio)
      /\ \A g \in fini_array : g \in Functions /\ g.prio \in Nat
  BY <1>0, Entries DEF RawTypeOK
<1>3. \A g \in fini_array : g.prio >= f.prio
  <2>1. \A g \in fini_array : MaxPriority - f.prio >= MaxPriority - g.prio
    BY DEF CallDestructor, fini_section
  <2>2. QED
    BY <1>2, <2>1, RawAssumption
<1>4. CUR_DROP_PRIO' = IF f.fn \in DOMAIN mode THEN f.prio ELSE MIN
  BY <1>0, <1>1, Entries DEF EntriesInv
<1>5. MacroInv'
  BY <1>0, <1>1, MacroQuiet DEF running
<1>6. RawTypeOK'
  <2>1. f.fn \in DOMAIN mode => f.prio \in Priorities \cup {0}
    <3>1. f.fn \in DOMAIN mode =>
            /\ f.prio = mode[f.fn].drop_prio /\ mode[f.fn] \in RawModes
      BY <1>0 DEF EntriesInv, RawTypeOK
    <3>2. \A r \in RawModes : r.drop_prio \in Priorities \cup {0, NoPriority}
      BY DEF RawModes
    <3>3. f.prio # NoPriority
      BY <1>2 DEF NoPriority
    <3>4. QED
      BY <3>1, <3>2, <3>3
  <2>2. CUR_DROP_PRIO' \in Priorities \cup {0, MIN}
    BY <1>4, <2>1
  <2>3. MacroTypeOK'
    BY <1>5 DEF MacroInv
  <2>4. QED
    BY <1>0, <1>1, <1>2, <2>2, <2>3 DEF RawTypeOK
<1>7. EntriesInv'
  BY <1>0, <1>1, <1>4 DEF EntriesInv
<1>8. current' = {f} /\ current = {}
  BY <1>0, <1>2 DEF current
<1>9. \A y \in DOMAIN mode : toDrop(y)' <=> toDrop(y)
  BY <1>0, <1>1, <1>2, Entries DEF toDrop, entry
<1>10. DropInv'
  <2>1. /\ cur' \notin fini_array'
        /\ \A g \in fini_array', h \in current' : g.prio >= h.prio
        /\ \A g \in current' : g.fn \in DOMAIN mode' =>
             mode'[g.fn].drop = "Dynamic" /\ g.prio = mode'[g.fn].drop_prio
    BY <1>0, <1>1, <1>3, <1>8 DEF EntriesInv
  <2>2. \A y \in DOMAIN mode : mode[y].drop = "Dynamic" /\ ~toDrop(y) =>
          \A g \in fini_array' \cup current' : g.prio >= mode[y].drop_prio
    BY <1>0, <1>1, <1>8 DEF DropInv
  <2>3. \A y \in DOMAIN mode : status[y] = IF mode[y].drop = "None" \/ toDrop(y) THEN 1 ELSE 2
    BY <1>0 DEF DropInv
  <2>4. QED
    BY <1>0, <1>1, <1>9, <2>1, <2>2, <2>3 DEF DropInv, entry
<1>11. InitInv'
  BY <1>0 DEF InitInv
<1>12. HintInv'
  BY <1>0, <1>1 DEF HintInv
<1>13. QED
  BY <1>0, <1>5, <1>6, <1>7, <1>10, <1>11, <1>12 DEF RawInv, RunInv, compiling

LEMMA EndDestructorKeeps ==
  ASSUME RawInv, EndDestructor
  PROVE  RawInv'
<1>0. /\ MacroInv /\ RawTypeOK /\ EntriesInv /\ InitInv /\ DropInv /\ HintInv
      /\ stage = "destructors" /\ stage' = stage /\ cur # NoCode /\ cur' = NoCode
  BY DEF RawInv, RunInv, running, EndDestructor
<1>1. /\ UNCHANGED <<mode, init_array, fini_array, CUR_INIT_PRIO, lazy_inited, LAZY_INIT_ENSURED>>
      /\ UNCHANGED sourceVars
      /\ CUR_DROP_PRIO' = IF cur.fn \in DOMAIN mode THEN MIN ELSE CUR_DROP_PRIO
      /\ status' = IF cur.fn \in DOMAIN mode THEN [status EXCEPT ![cur.fn] = 2] ELSE status
  BY DEF EndDestructor
<1>2. cur \in Functions /\ cur.prio \in Nat /\ cur = entry(cur.fn, cur.prio)
  BY <1>0, Entries DEF RawTypeOK
<1>3. CUR_DROP_PRIO' = MIN
  BY <1>0, <1>1 DEF EntriesInv
<1>4. MacroInv'
  BY <1>0, <1>1, MacroQuiet DEF running
<1>5. /\ status' \in [DOMAIN mode' -> 0..2]
      /\ \A y \in DOMAIN mode : status'[y] = IF y = cur.fn THEN 2 ELSE status[y]
  BY <1>0, <1>1 DEF RawTypeOK
<1>6. RawTypeOK'
  <2>1. MacroTypeOK'
    BY <1>4 DEF MacroInv
  <2>2. QED
    BY <1>0, <1>1, <1>3, <1>5, <2>1 DEF RawTypeOK
<1>7. EntriesInv'
  BY <1>0, <1>1, <1>3, Entries DEF EntriesInv
<1>8. current' = {} /\ current = {cur}
  BY <1>0 DEF current
<1>9. ASSUME NEW y \in DOMAIN mode
      PROVE  /\ y = cur.fn => mode[y].drop = "Dynamic" /\ ~toDrop(y)' /\ toDrop(y)
             /\ y # cur.fn => (toDrop(y)' <=> toDrop(y))
  <2>1. y = cur.fn => mode[y].drop = "Dynamic" /\ entry(y, mode[y].drop_prio) = cur
    BY <1>0, <1>2, <1>8, <1>9 DEF DropInv
  <2>2. cur \notin fini_array
    BY <1>0 DEF DropInv
  <2>3. y # cur.fn => entry(y, mode[y].drop_prio) # cur
    BY <1>0, Entries
  <2>4. entry(y, mode[y].drop_prio) # NoCode
    BY <1>0, Entries
  <2>5. /\ toDrop(y)' <=> mode[y].drop = "Dynamic" /\ entry(y, mode[y].drop_prio) \in fini_array \cup {NoCode}
        /\ toDrop(y) <=> mode[y].drop = "Dynamic" /\ entry(y, mode[y].drop_prio) \in fini_array \cup {cur}
    BY <1>0, <1>1 DEF toDrop, entry
  <2>6. QED
    BY <2>1, <2>2, <2>3, <2>4, <2>5
<1>10. DropInv'
  <2>1. NoCode \notin fini_array
    BY <1>0, Entries DEF RawTypeOK
  <2>2. ASSUME NEW y \in DOMAIN mode
        PROVE  /\ status'[y] = IF mode[y].drop = "None" \/ toDrop(y)' THEN 1 ELSE 2
               /\ mode[y].drop = "Dynamic" /\ ~toDrop(y)' =>
                    \A g \in fini_array : g.prio >= mode[y].drop_prio
    <3>1. /\ status[y] = IF mode[y].drop = "None" \/ toDrop(y) THEN 1 ELSE 2
          /\ mode[y].drop = "Dynamic" /\ ~toDrop(y) =>
               \A g \in fini_array : g.prio >= mode[y].drop_prio
      BY <1>0 DEF DropInv
    <3>2. y = cur.fn => \A g \in fini_array : g.prio >= mode[y].drop_prio
      BY <1>0, <1>8 DEF DropInv
    <3>3. QED
      BY <1>5, <1>9, <3>1, <3>2
  <2>3. QED
    BY <1>0, <1>1, <1>8, <2>1, <2>2 DEF DropInv, entry
<1>11. InitInv'
  BY <1>0 DEF InitInv
<1>12. HintInv'
  BY <1>0, <1>1 DEF HintInv
<1>13. QED
  BY <1>0, <1>4, <1>6, <1>7, <1>10, <1>11, <1>12 DEF RawInv, RunInv, compiling

LEMMA MainKeeps ==
  ASSUME RawInv, Main
  PROVE  RawInv'
<1>0. /\ MacroInv /\ RawTypeOK /\ EntriesInv /\ InitInv /\ DropInv /\ HintInv
      /\ stage \in running /\ stage' \in running \ {"constructors"}
      /\ UNCHANGED sourceVars
      /\ UNCHANGED <<mode, status, init_array, fini_array, cur, CUR_INIT_PRIO, CUR_DROP_PRIO>>
      /\ UNCHANGED <<lazy_inited, LAZY_INIT_ENSURED>>
  BY DEF RawInv, RunInv, running, Main, runVars
<1>1. MacroInv'
  BY <1>0, MacroQuiet
<1>2. RawTypeOK'
  <2>1. MacroTypeOK'
    BY <1>1 DEF MacroInv
  <2>2. QED
    BY <1>0, <2>1 DEF RawTypeOK, running
<1>3. cur = NoCode
  BY <1>0 DEF Main, EntriesInv
<1>4. EntriesInv'
  BY <1>0, <1>3, Entries DEF EntriesInv, Main
<1>5. InitInv' /\ HintInv'
  BY <1>0 DEF InitInv, HintInv, running
<1>6. DropInv'
  <2>1. CASE stage = "constructors"
    <3>1. init_array = {} /\ stage' = "main"
      BY <2>1 DEF Main
    <3>2. \A y \in DOMAIN mode : ~toInit(y)
      BY <1>0, <1>3, <3>1, Entries DEF toInit
    <3>3. QED
      BY <1>0, <2>1, <3>1, <3>2 DEF DropInv, InitInv, entry
  <2>2. CASE stage = "main"
    <3>1. stage' = "destructors"
      BY <2>2 DEF Main
    <3>2. \A y \in DOMAIN mode : mode[y].drop = "Dynamic" => toDrop(y)'
      BY <1>0, <2>2 DEF DropInv, toDrop, entry
    <3>3. \A y \in DOMAIN mode : status[y] = 1 /\ mode[y].drop \in {"None", "Dynamic"}
      BY <1>0, <2>2, Entries DEF DropInv
    <3>4. current' = {} /\ NoCode \notin fini_array
      BY <1>0, <1>3, Entries DEF current, RawTypeOK
    <3>5. QED
      BY <1>0, <1>3, <3>1, <3>2, <3>3, <3>4 DEF DropInv
  <2>3. CASE stage = "destructors"
    BY <2>3 DEF Main, DropInv
  <2>4. QED
    BY <2>1, <2>2, <2>3 DEF Main
<1>7. QED
  BY <1>0, <1>1, <1>2, <1>4, <1>5, <1>6 DEF RawInv, RunInv, compiling, running

LEMMA AccessKeeps ==
  ASSUME RawInv, NEW y \in DOMAIN mode, Access(y)
  PROVE  RawInv'
<1>0. /\ MacroInv /\ RawTypeOK /\ HintInv /\ stage' = "aborted" /\ UNCHANGED sourceVars
      /\ UNCHANGED <<mode, status, init_array, fini_array, cur, CUR_INIT_PRIO, CUR_DROP_PRIO>>
      /\ UNCHANGED <<lazy_inited, LAZY_INIT_ENSURED>>
  BY DEF RawInv, RunInv, Access, runVars
<1>1. MacroInv'
  BY <1>0, MacroQuiet
<1>2. RawTypeOK'
  <2>1. MacroTypeOK'
    BY <1>1 DEF MacroInv
  <2>2. QED
    BY <1>0, <2>1 DEF RawTypeOK
<1>3. QED
  BY <1>0, <1>1, <1>2 DEF RawInv, RunInv, HintInv, compiling, running

LEMMA ExpandStep ==
  ASSUME RawInv, Expand, UNCHANGED runVars
  PROVE  RawInv'
<1>0. /\ MacroInv /\ RawTypeOK /\ RunInv /\ stage \in {"source", "parsed"}
      /\ stage' \in compiling
  BY DEF RawInv, Expand, ParseArg, EndArgs, gen_dyn_init, compiling
<1>1. /\ UNCHANGED <<mode, status, init_array, fini_array, cur, CUR_INIT_PRIO, CUR_DROP_PRIO>>
      /\ UNCHANGED <<lazy_inited, LAZY_INIT_ENSURED>>
  BY DEF runVars
<1>2. MacroInv'
  BY <1>0, MacroStep
<1>3. RawTypeOK'
  <2>1. MacroTypeOK'
    BY <1>2 DEF MacroInv
  <2>2. QED
    BY <1>0, <1>1, <2>1 DEF RawTypeOK, compiling
<1>4. RunInv'
  BY <1>0, <1>1 DEF RunInv, HintInv, compiling, running
<1>5. QED
  BY <1>2, <1>3, <1>4 DEF RawInv

LEMMA RawQuiet ==
  ASSUME RawInv, UNCHANGED <<macroVars, runVars>>
  PROVE  RawInv'
<1>0. /\ UNCHANGED <<platform, item, args, opt, init_set, drop_set, typ, stage>>
      /\ UNCHANGED <<mode, status, init_array, fini_array, cur, CUR_INIT_PRIO, CUR_DROP_PRIO>>
      /\ UNCHANGED <<lazy_inited, LAZY_INIT_ENSURED>>
  BY DEF macroVars, runVars
<1>1. MacroTypeOK' /\ (opt'.init = "Const" => opt'.drop = "Dynamic")
  BY <1>0 DEF RawInv, MacroInv, MacroTypeOK
<1>2. /\ \A W : (says(W)' <=> says(W)) /\ (twice(W)' <=> twice(W))
      /\ means' = means /\ (combined' <=> combined)
      /\ (Compiles(opt)' <=> Compiles(opt)) /\ (Compiles(means)' <=> Compiles(means))
  BY <1>0 DEF combined, twice, means, says, given, raw, const, prioritized, the, given_prio, Compiles, fitting, strict
<1>3. SourceInv => SourceInv'
  <2>1. ASSUME SourceInv, NEW j \in 1..Len(args') PROVE Left(args[j])'
    BY <1>0, <2>1 DEF SourceInv, Left
  <2>2. QED
    BY <1>0, <1>2, <2>1 DEF SourceInv
<1>4. (ParsedInv => ParsedInv') /\ (MacroMeans => MacroMeans') /\ (TypeFits => TypeFits')
  BY <1>0, <1>2 DEF ParsedInv, incompatible, MacroMeans, legal, lenient, Compiles, TypeFits
<1>5. MacroInv'
  BY <1>0, <1>1, <1>3, <1>4 DEF RawInv, MacroInv
<1>6. RawTypeOK'
  BY <1>0, <1>1 DEF RawInv, RawTypeOK
<1>7. current' = current /\ \A y \in DOMAIN mode : (toInit(y)' <=> toInit(y)) /\ (toDrop(y)' <=> toDrop(y))
  BY <1>0 DEF current, toInit, toDrop, entry
<1>8. EntriesInv => EntriesInv'
  BY <1>0 DEF EntriesInv
<1>9. InitInv => InitInv'
  BY <1>0, <1>7 DEF InitInv, entry
<1>10. DropInv => DropInv'
  BY <1>0, <1>7 DEF DropInv, entry
<1>11. HintInv => HintInv'
  BY <1>0 DEF HintInv, entry
<1>12. QED
  BY <1>0, <1>5, <1>6, <1>8, <1>9, <1>10, <1>11 DEF RawInv, RunInv

LEMMA RawStart == RawInit => RawInv
<1> SUFFICES ASSUME RawInit PROVE RawInv
  OBVIOUS
<1>1. MacroInv /\ stage = "source" /\ MacroTypeOK
  BY MacroStart DEF RawInit, MacroInv, MacroInit
<1>2. mode = <<>> /\ status = <<>> /\ DOMAIN mode = {} /\ status \in [DOMAIN mode -> 0..2]
  BY DEF RawInit
<1>3. RawTypeOK
  BY <1>1, <1>2 DEF RawInit, RawTypeOK
<1>4. RunInv
  BY <1>1 DEF RawInit, RunInv, HintInv, compiling, running
<1>5. QED
  BY <1>1, <1>3, <1>4 DEF RawInv
-----------------------------------------------------------------------------
(***************************************************************************)
(* check_access.                                                           *)
(***************************************************************************)

(* In the constructors.                                                    *)
LEMMA ConstructorsSequenced ==
  ASSUME RawInv, stage = "constructors", cur # NoCode, NEW y \in DOMAIN mode
  PROVE  LET m == mode[y]
             before == m.init = "Const" \/ m.init_prio > cur.prio
         IN /\ check_access(y) # "bug of static_init"
            /\ before => check_access(y) = "ok"
            /\ m.init = "Dynamic" /\ m.init_prio < cur.prio => check_access(y) # "ok"
            /\ cur.fn \in DOMAIN mode /\ ~before => check_access(y) # "ok"
<1>0. RawTypeOK /\ EntriesInv /\ InitInv
  BY DEF RawInv, RunInv, running
<1>1. /\ cur \in Functions /\ cur.prio \in Nat /\ current = {cur}
      /\ mode[y].init \in {"Const", "Dynamic"} /\ mode[y].drop \in {"None", "Dynamic"}
      /\ mode[y].init = "Dynamic" => mode[y].init_prio \in Nat
      /\ mode[y].drop = "Dynamic" => mode[y].drop_prio \in Nat
      /\ mode[y].init # "Dynamic" => mode[y].init_prio = -1
  <2>1. mode[y].init # "Dynamic" => mode[y].init_prio = -1
    BY <1>0 DEF RawTypeOK, RawModes, NoPriority
  <2>2. QED
    BY <1>0, <2>1, Entries DEF RawTypeOK, current
<1>2. CUR_DROP_PRIO = -1 /\ CUR_INIT_PRIO = IF cur.fn \in DOMAIN mode THEN cur.prio ELSE -1
  BY <1>0 DEF EntriesInv, MIN
<1>3. /\ status[y] = IF toInit(y) THEN 0 ELSE 1
      /\ mode[y].init = "Dynamic" /\ ~toInit(y) => cur.prio <= mode[y].init_prio
  BY <1>0, <1>1 DEF InitInv
<1>4. toInit(y) => mode[y].init = "Dynamic" /\ mode[y].init_prio <= cur.prio
  <2>1. toInit(y) => mode[y].init = "Dynamic" /\ entry(y, mode[y].init_prio) \in init_array \cup {cur}
    BY DEF toInit
  <2>2. entry(y, mode[y].init_prio).prio = mode[y].init_prio
    BY DEF entry
  <2>3. \A f \in init_array \cup {cur} : f.prio <= cur.prio
    BY <1>0, <1>1 DEF InitInv
  <2>4. QED
    BY <2>1, <2>2, <2>3
<1>5. check_access(y) =
        IF toInit(y) THEN "before initialization"
        ELSE IF mode[y].init = "Dynamic" /\ CUR_INIT_PRIO = mode[y].init_prio THEN "not sequenced after construction"
        ELSE IF mode[y].init = "Dynamic" /\ CUR_INIT_PRIO > mode[y].init_prio THEN "bug of static_init"
        ELSE "ok"
  <2>1. /\ ~(mode[y].drop = "Dynamic" /\ CUR_DROP_PRIO = mode[y].drop_prio)
        /\ ~(mode[y].drop = "Dynamic" /\ CUR_DROP_PRIO > mode[y].drop_prio)
    BY <1>1, <1>2
  <2>2. (status[y] = 0 <=> toInit(y)) /\ status[y] # 2
    BY <1>3
  <2>3. QED
    BY <2>1, <2>2 DEF check_access
<1>6. mode[y].init = "Dynamic" /\ ~toInit(y) => ~(CUR_INIT_PRIO > mode[y].init_prio)
  BY <1>1, <1>2, <1>3
<1>7. check_access(y) = "ok" <=> ~toInit(y) /\ ~(mode[y].init = "Dynamic" /\ CUR_INIT_PRIO = mode[y].init_prio)
  BY <1>5, <1>6
<1>8. check_access(y) # "bug of static_init"
  BY <1>5, <1>6
<1>9. CASE mode[y].init = "Const"
  BY <1>4, <1>7, <1>8, <1>9
<1>10. CASE mode[y].init = "Dynamic"
  <2>1. mode[y].init_prio > cur.prio => check_access(y) = "ok"
    BY <1>1, <1>2, <1>4, <1>7, <1>10
  <2>2. mode[y].init_prio < cur.prio => check_access(y) # "ok"
    BY <1>1, <1>3, <1>7, <1>10
  <2>3. cur.fn \in DOMAIN mode /\ ~(mode[y].init_prio > cur.prio) => check_access(y) # "ok"
    BY <1>1, <1>2, <1>3, <1>7, <1>10
  <2>4. QED
    BY <1>8, <1>10, <2>1, <2>2, <2>3
<1>11. QED
  BY <1>1, <1>9, <1>10

(* In the destructors.                                                     *)
LEMMA DestructorsSequenced ==
  ASSUME RawInv, stage = "destructors", cur # NoCode, NEW y \in DOMAIN mode
  PROVE  LET m == mode[y]
             before == m.drop = "None" \/ m.drop_prio > cur.prio
         IN /\ check_access(y) # "bug of static_init"
            /\ before => check_access(y) = "ok"
            /\ m.drop = "Dynamic" /\ m.drop_prio < cur.prio => check_access(y) # "ok"
            /\ cur.fn \in DOMAIN mode /\ ~before => check_access(y) # "ok"
<1>0. RawTypeOK /\ EntriesInv /\ DropInv
  BY DEF RawInv, RunInv, running
<1>1. /\ cur \in Functions /\ cur.prio \in Nat /\ current = {cur}
      /\ mode[y].drop \in {"None", "Dynamic"}
      /\ mode[y].init = "Dynamic" => mode[y].init_prio \in Nat
      /\ mode[y].drop = "Dynamic" => mode[y].drop_prio \in Nat
  BY <1>0, Entries DEF RawTypeOK, current
<1>2. CUR_INIT_PRIO = -1 /\ CUR_DROP_PRIO = IF cur.fn \in DOMAIN mode THEN cur.prio ELSE -1
  BY <1>0 DEF EntriesInv, MIN
<1>3. /\ status[y] = IF mode[y].drop = "None" \/ toDrop(y) THEN 1 ELSE 2
      /\ mode[y].drop = "Dynamic" /\ ~toDrop(y) => cur.prio >= mode[y].drop_prio
  BY <1>0, <1>1 DEF DropInv
<1>4. toDrop(y) => mode[y].drop = "Dynamic" /\ mode[y].drop_prio >= cur.prio
  <2>1. toDrop(y) => mode[y].drop = "Dynamic" /\ entry(y, mode[y].drop_prio) \in fini_array \cup {cur}
    BY DEF toDrop
  <2>2. entry(y, mode[y].drop_prio).prio = mode[y].drop_prio
    BY DEF entry
  <2>3. \A f \in fini_array \cup {cur} : f.prio >= cur.prio
    BY <1>0, <1>1 DEF DropInv
  <2>4. QED
    BY <2>1, <2>2, <2>3
<1>5. check_access(y) =
        IF mode[y].drop # "None" /\ ~toDrop(y) THEN "after drop"
        ELSE IF mode[y].drop = "Dynamic" /\ CUR_DROP_PRIO = mode[y].drop_prio THEN "not sequenced before drop"
        ELSE IF mode[y].drop = "Dynamic" /\ CUR_DROP_PRIO > mode[y].drop_prio THEN "bug of static_init"
        ELSE "ok"
  <2>1. /\ ~(mode[y].init = "Dynamic" /\ CUR_INIT_PRIO = mode[y].init_prio)
        /\ ~(mode[y].init = "Dynamic" /\ CUR_INIT_PRIO > mode[y].init_prio)
    BY <1>1, <1>2
  <2>2. (status[y] = 2 <=> mode[y].drop # "None" /\ ~toDrop(y)) /\ status[y] # 0
    BY <1>3
  <2>3. QED
    BY <2>1, <2>2 DEF check_access
<1>6. toDrop(y) => ~(CUR_DROP_PRIO > mode[y].drop_prio)
  BY <1>1, <1>2, <1>4
<1>7. check_access(y) = "ok" <=>
        mode[y].drop = "None" \/ (toDrop(y) /\ CUR_DROP_PRIO # mode[y].drop_prio)
  BY <1>1, <1>4, <1>5, <1>6
<1>8. check_access(y) # "bug of static_init"
  BY <1>1, <1>5, <1>6
<1>9. CASE mode[y].drop = "None"
  BY <1>7, <1>8, <1>9
<1>10. CASE mode[y].drop = "Dynamic"
  <2>1. mode[y].drop_prio > cur.prio => check_access(y) = "ok"
    BY <1>1, <1>2, <1>3, <1>7, <1>10
  <2>2. mode[y].drop_prio < cur.prio => check_access(y) # "ok"
    BY <1>1, <1>4, <1>7, <1>10
  <2>3. cur.fn \in DOMAIN mode /\ ~(mode[y].drop_prio > cur.prio) => check_access(y) # "ok"
    BY <1>1, <1>2, <1>4, <1>7, <1>10
  <2>4. QED
    BY <1>8, <1>10, <2>1, <2>2, <2>3
<1>11. QED
  BY <1>1, <1>9, <1>10

LEMMA SequencedHolds == RawInv => Sequenced
<1> SUFFICES ASSUME RawInv PROVE Sequenced
  OBVIOUS
<1>0. RawTypeOK /\ RunInv
  BY DEF RawInv
<1>1. ASSUME cur # NoCode, stage # "aborted"
      PROVE  stage \in {"constructors", "destructors"}
  BY <1>0, <1>1 DEF RawTypeOK, RunInv, EntriesInv, compiling, running
<1>2. ASSUME stage = "main", NEW y \in DOMAIN mode
      PROVE  check_access(y) = "ok"
  <2>1. /\ status[y] = 1 /\ CUR_INIT_PRIO = -1 /\ CUR_DROP_PRIO = -1
    BY <1>0, <1>2 DEF RunInv, DropInv, EntriesInv, running, MIN
  <2>2. /\ mode[y].init = "Dynamic" => mode[y].init_prio \in Nat
        /\ mode[y].drop = "Dynamic" => mode[y].drop_prio \in Nat
    BY <1>0, Entries
  <2>3. QED
    BY <2>1, <2>2 DEF check_access
<1>3. LAZY_INIT_ENSURED => lazy_inited
  BY <1>0 DEF RunInv, HintInv
<1>4. ASSUME cur # NoCode, NEW y \in DOMAIN mode, stage # "aborted"
      PROVE  LET m == mode[y]
                 before == IF stage = "constructors" THEN m.init = "Const" \/ m.init_prio > cur.prio
                                                     ELSE m.drop = "None" \/ m.drop_prio > cur.prio
                 after == IF stage = "constructors" THEN m.init = "Dynamic" /\ m.init_prio < cur.prio
                                                    ELSE m.drop = "Dynamic" /\ m.drop_prio < cur.prio
                 ok == check_access(y) = "ok"
             IN /\ check_access(y) # "bug of static_init"
                /\ before => ok
                /\ after => ~ok
                /\ cur.fn \in DOMAIN mode /\ ~before => ~ok
  <2>1. CASE stage = "constructors"
    BY <1>4, <2>1, ConstructorsSequenced
  <2>2. CASE stage = "destructors"
    BY <1>4, <2>2, DestructorsSequenced
  <2>3. QED
    BY <1>1, <1>4, <2>1, <2>2
<1>5. QED
  BY <1>2, <1>3, <1>4 DEF Sequenced
-----------------------------------------------------------------------------
(***************************************************************************)
(* The theorems.                                                           *)
(***************************************************************************)

(* The invariant is inductive: each of the steps of #[dynamic], of the     *)
(* linker and of the program preserves it.                                 *)
THEOREM RawInvariance == RawSpec => []RawInv
<1>1. RawInv /\ [RawNext]_<<macroVars, runVars>> => RawInv'
  <2> SUFFICES ASSUME RawInv, [RawNext]_<<macroVars, runVars>> PROVE RawInv'
    OBVIOUS
  <2>1. CASE Expand /\ UNCHANGED runVars
    BY <2>1, ExpandStep
  <2>2. CASE Link
    BY <2>2, LinkKeeps
  <2>3. CASE \E f \in init_array : CallConstructor(f)
    BY <2>3, CallConstructorKeeps
  <2>4. CASE \E f \in fini_array : CallDestructor(f)
    BY <2>4, CallDestructorKeeps
  <2>5. CASE EndConstructor \/ EndDestructor \/ Main
    BY <2>5, EndConstructorKeeps, EndDestructorKeeps, MainKeeps
  <2>6. CASE \E y \in DOMAIN mode : Access(y)
    BY <2>6, AccessKeeps
  <2>7. CASE UNCHANGED <<macroVars, runVars>>
    BY <2>7, RawQuiet
  <2>8. QED
    BY <2>1, <2>2, <2>3, <2>4, <2>5, <2>6, <2>7 DEF RawNext
<1>2. QED
  BY <1>1, RawStart, PTL DEF RawSpec

(* Type correctness of the expansion and of the run.                       *)
THEOREM RawTypeCorrect == RawSpec => []RawTypeOK
<1>1. RawInv => RawTypeOK
  BY DEF RawInv
<1>2. QED
  BY <1>1, RawInvariance, PTL

(* parse_dyn_options and gen_dyn_init accept an attribute exactly when the *)
(* documentation allows it, but for the two departures that DynamicMacro   *)
(* names (lenient, strict), and give it its documented meaning, for any    *)
(* number and order of arguments and any priorities.                       *)
THEOREM AttributeMeans == RawSpec => []MacroMeans
<1>1. RawInv => MacroMeans
  BY DEF RawInv, MacroInv
<1>2. QED
  BY <1>1, RawInvariance, PTL

(* The type that gen_dyn_init selects is the one that the options ask for. *)
THEOREM TypesFit == RawSpec => []TypeFits
<1>1. RawInv => TypeFits
  BY DEF RawInv, MacroInv
<1>2. QED
  BY <1>1, RawInvariance, PTL

(* check_access allows what the priorities sequence, from CUR_INIT_PRIO    *)
(* and CUR_DROP_PRIO alone, for any number of raw statics, any priorities  *)
(* and any order of link; "bug of static_init" is never reported.          *)
THEOREM AccessIsSequenced == RawSpec => []Sequenced
<1>1. QED
  BY SequencedHolds, RawInvariance, PTL
=============================================================================
