------------------------------- MODULE MCSem -------------------------------
(***************************************************************************)
(* Model checking of Sem and Elements, side by side: the initial state     *)
(* picks which of them runs.  Of the semaphore, g and b may get tokens, p1 *)
(* and p2 post them.  Of the objects, users share an event or a semaphore  *)
(* which its owner closes and opens or creates again.                      *)
(***************************************************************************)
EXTENDS Sem, TLC

CONSTANTS g, b, p1, p2, Users, Owner,
    ObjectKinds, OtherProtocols, FdCount, MaxElements, NoFile, Factory, Lost

VARIABLES part, kind, mapped, fd, made, kept, public, magic, state, efd, step, lv,
    protocol, garbled, raced, torn, overlapped, faulted

objects == <<kind, mapped, fd, made, kept, public, magic, state, efd, step, lv,
             protocol, garbled, raced, torn, overlapped, faulted>>
Objects == INSTANCE Elements WITH pc <- step

ASSUME ElementsAssumption == Objects!ElementsConstants

UserSymmetry == Permutations(Users)

MCInit == Init /\ Objects!Init /\ part \in {"semaphore", "objects"}

MCNext ==
    /\ \/ part = "semaphore" /\ Next /\ UNCHANGED objects
       \/ part = "objects" /\ Objects!Next /\ UNCHANGED vars
    /\ UNCHANGED part

MCSpec == MCInit /\ [][MCNext]_<<part, vars, objects>>

(* The properties of the objects, by names of this module: an object which *)
(* looks active (init_mutex_vargs, open_mutex_vargs...) is all there in    *)
(* each of its lives, unless a close cuts in, ...                          *)
ObjectsAreWhole == part = "objects" => Objects!TypeOK /\ Objects!ActiveIsWhole

(* ... no error path of a creation, opening or closing loses a descriptor  *)
(* but those of evl_create_element() and racing first uses, ...            *)
DescriptorsAccounted == part = "objects" => Objects!DescriptorsAccounted

(* ... a bad pointer is only followed in the very calls which a close or   *)
(* another creation cuts across after check_*_sanity(), ...                *)
FaultsExplained == part = "objects" => Objects!FaultsExplained

(* ... and evl_close_mutex() and evl_close_event() leave no descriptor     *)
(* behind which the system may give to another file.                       *)
ClosedBeforeReuse == part = "objects" => Objects!ClosedBeforeReuse
=============================================================================
