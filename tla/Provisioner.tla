------------------------------ MODULE Provisioner ------------------------------
(***************************************************************************)
(* What a host controller promises about the projects it is asked for, as  *)
(* the control plane sees it through the phase of the project's resource:  *)
(* a resource is requested, its parts are put in place in any order, and   *)
(* it is announced as Ready only when every part is there.  A resource does *)
(* not go back to the phases it passes once, though a later one may be     *)
(* skipped, and a resource that was removed can be requested again by      *)
(* another project of the same name.                                       *)
(***************************************************************************)
EXTENDS Naturals, FiniteSets

CONSTANTS
    Ids,       \* projects
    Slugs,     \* names of projects, which are names of resources
    Parts,     \* what a project needs in order to run
    NoId       \* no project

VARIABLES
    owner,     \* owner[s]: the project the resource named s is for
    phase,     \* phase[s]
    done       \* done[i]: the parts of project i that are in place

vars == <<owner, phase, done>>

Begun == {"Pending", "Provisioning", "Ready", "Failed"}   \* "" is passed first

Init ==
    /\ owner = [s \in Slugs |-> NoId]
    /\ phase = [s \in Slugs |-> ""]
    /\ done = [i \in Ids |-> {}]

Request(s, i) ==
    /\ owner[s] = NoId
    /\ owner' = [owner EXCEPT ![s] = i]
    /\ UNCHANGED <<phase, done>>

\* One part may serve several projects.
Complete(I, p) ==
    /\ done' = [i \in Ids |-> IF i \in I THEN done[i] \cup p ELSE done[i]]
    /\ UNCHANGED <<owner, phase>>

Begin(s) ==
    /\ owner[s] # NoId
    /\ phase[s] = "" /\ phase' = [phase EXCEPT ![s] = "Pending"]
    /\ UNCHANGED <<owner, done>>

Announce(s) ==
    /\ owner[s] # NoId
    /\ phase[s] \in Begun
    /\ phase' = [phase EXCEPT ![s] = "Ready"]
    /\ done[owner[s]] = Parts
    /\ UNCHANGED <<owner, done>>

\* Work on a resource goes on, or has to be done again.
Retract(s) ==
    /\ owner[s] # NoId
    /\ phase[s] \in Begun
    /\ \E p \in {"Provisioning", "Failed"} : phase' = [phase EXCEPT ![s] = p]
    /\ UNCHANGED <<owner, done>>

Remove(s) ==
    /\ owner[s] # NoId
    /\ owner' = [owner EXCEPT ![s] = NoId]
    /\ phase' = [phase EXCEPT ![s] = ""]
    /\ UNCHANGED done

Next ==
    \/ \E s \in Slugs, i \in Ids : Request(s, i)
    \/ \E I \in SUBSET Ids, p \in SUBSET Parts : Complete(I, p)
    \/ \E s \in Slugs : Begin(s) \/ Announce(s) \/ Retract(s) \/ Remove(s)

Spec == Init /\ [][Next]_vars
================================================================================
