---------------------------- MODULE MCActorPool ----------------------------
(***************************************************************************)
(* ActorPool for TLC, in two worlds that share its constants.  In "calm"   *)
(* every control is answered in time and no runtime call panics; in        *)
(* "faulty" timers and panics strike at any moment, with one actor only to *)
(* keep the state space small.  The calm world leaves out the ticks that   *)
(* consist of phases of the full tick (shrink, recycle): a full tick may   *)
(* skip the others.  Actors are interchangeable.                           *)
(***************************************************************************)
EXTENDS ActorPool, TLC

VARIABLE world
mcVars == <<poolVars, world>>

Faulty == INSTANCE ActorPool WITH Faults <- {"slow", "panic"}

PartialTicks == {<<"recycle">>, <<"shrink", "recycle">>}

MCInit == Init /\ world \in {"calm", "faulty"}

MCNext ==
    \/ world = "calm" /\ Next /\ plan' \notin PartialTicks /\ UNCHANGED world
    \/ world = "faulty" /\ Faulty!Next /\ Cardinality(created') <= 1 /\ UNCHANGED world

MCSpec == MCInit /\ [][MCNext]_mcVars

\* As long as every control is answered, a uid that a live actor still holds,
\* or whose game session is open, cannot be leased again: what AttachUID, the
\* drains, releaseBrokenLeases and recycleActorUID must see to ("stuck uid was
\* reusable before actor exit").
CalmNotReusable == world = "calm" => HeldNotReusable /\ ActiveNotReusable

SlotSymmetry == Permutations(Slot)
=============================================================================
