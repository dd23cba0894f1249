----------------------------- MODULE AslClasses -----------------------------
(***************************************************************************)
(* The class identifiers shared by the parts of the motion library.  A     *)
(* class is a letter that has a static action, OPEN, or another identifier *)
(* the classifier may report (J, Z, ASL_CLASS_INVALID), which are all      *)
(* treated alike and stand as INVALID.                                     *)
(***************************************************************************)
EXTENDS Integers, Sequences

CONSTANTS
    Letters,    \* classes for which asl_action_find returns a descriptor
    OPEN,       \* ASL_CLASS_OPEN
    INVALID     \* ASL_CLASS_INVALID, and a NULL descriptor

ASSUME ClassAssumption ==
    /\ OPEN \notin Letters
    /\ INVALID \notin Letters
    /\ OPEN # INVALID

Classes == Letters \cup {OPEN, INVALID}

asl_class_has_static_action(class) == class \in Letters

NonzeroOrOne(value) == IF value = 0 THEN 1 ELSE value
=============================================================================
