---------------------------- MODULE MCContainers ----------------------------
(***************************************************************************)
(* The parts that are called by one thread, or under one mutex, and keep a *)
(* data structure, in one run: a behaviour is that of one of them, the     *)
(* subject, and the others stay in their initial states.  The states are   *)
(* the sum of theirs, not the product, and each property speaks of one.    *)
(***************************************************************************)
EXTENDS Pollers, NetBuffer, RbTree, Slab, TLC

VARIABLE subject

containersVars == <<subject, pollerVars, bufferVars, rbVars, slabVars>>

ContainersInit ==
  /\ subject \in {"Pollers", "NetBuffer", "RbTree", "Slab"}
  /\ PollerInit /\ BufferInit /\ RbInit /\ SlabInit

ContainersNext ==
  /\ UNCHANGED subject
  /\ \/ /\ subject = "Pollers" /\ PollerNext
        /\ UNCHANGED <<bufferVars, rbVars, slabVars>>
     \/ /\ subject = "NetBuffer" /\ BufferNext
        /\ UNCHANGED <<pollerVars, rbVars, slabVars>>
     \/ /\ subject = "RbTree" /\ RbNext
        /\ UNCHANGED <<pollerVars, bufferVars, slabVars>>
     \/ /\ subject = "Slab" /\ SlabNext
        /\ UNCHANGED <<pollerVars, bufferVars, rbVars>>

ContainersSpec == ContainersInit /\ [][ContainersNext]_containersVars

(* Class 1 is a BIG or EXACT class of two chunks to a page; class 2 is a   *)
(* SMALL one of three, the first of which holds the bitmap.                *)
MCChunks == <<2, 3>>
MCReserved == <<0, 1>>

(* The allocator does not know its callers: states that differ in who      *)
(* holds what are one state.                                               *)
HandleSymmetry == Permutations(Handles)
=============================================================================
