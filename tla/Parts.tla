------------------------------- MODULE Parts -------------------------------
(***************************************************************************)
(* The parts of an instance that share no state with each other: the       *)
(* history of its tasks, the builds of an artifact, its patch queue, the   *)
(* images of its formats, the terminal of an interactive task, and the     *)
(* registries of class RegistryManager (src/fatbuildr/registry/manager.py),*)
(* one for each format.  Each behavior of this module is about one part.   *)
(*                                                                         *)
(* A task of the worker is what takes a step in most of them; which task   *)
(* that is, and in what order, is the matter of TasksManager.              *)
(***************************************************************************)
EXTENDS HistoryPurge, ArtifactBuild, PatchQueue, Images, TtyConsole,
        RegistryRpm, RegistryDeb, RegistryOsi

CONSTANT PartsChecked  \* the parts there are behaviors of

PartNames == {"history", "build", "patches", "images", "terminal",
              "rpm", "deb", "osi"}

ASSUME PartsAssumption == PartsChecked \subseteq PartNames

VARIABLE part

allVars == <<part, vars, buildVars, queueVars, imageVars, ttyVars, rpmVars,
             debVars, signedVars>>

PartsTypeOK ==
    /\ part \in PartsChecked
    /\ TypeOK /\ BuildTypeOK /\ QueueTypeOK /\ ImagesTypeOK /\ TtyTypeOK
    /\ RpmTypeOK /\ DebTypeOK /\ OsiTypeOK

PartsInit ==
    /\ part \in PartsChecked
    /\ part # "history" => policy = CHOOSE p \in Policies : TRUE
    /\ part # "patches" => worked = CHOOSE v \in PatchVersions : TRUE
    /\ Init /\ BuildInit /\ PatchQueueInit /\ ImagesInit /\ TtyInit
    /\ RpmInit /\ DebInit /\ OsiInit

PartsNext ==
    /\ UNCHANGED part
    /\ \/ part = "history" /\ Next /\ UNCHANGED <<buildVars, queueVars,
             imageVars, ttyVars, rpmVars, debVars, signedVars>>
       \/ part = "build" /\ BuildNext /\ UNCHANGED <<vars, queueVars,
             imageVars, ttyVars, rpmVars, debVars, signedVars>>
       \/ part = "patches" /\ PatchQueueNext /\ UNCHANGED <<vars, buildVars,
             imageVars, ttyVars, rpmVars, debVars, signedVars>>
       \/ part = "images" /\ ImagesNext /\ UNCHANGED <<vars, buildVars,
             queueVars, ttyVars, rpmVars, debVars, signedVars>>
       \/ part = "terminal" /\ TtyNext /\ UNCHANGED <<vars, buildVars,
             queueVars, imageVars, rpmVars, debVars, signedVars>>
       \/ part = "rpm" /\ RpmNext /\ UNCHANGED <<vars, buildVars, queueVars,
             imageVars, ttyVars, debVars, signedVars>>
       \/ part = "deb" /\ DebNext /\ UNCHANGED <<vars, buildVars, queueVars,
             imageVars, ttyVars, rpmVars, signedVars>>
       \/ part = "osi" /\ OsiNext /\ UNCHANGED <<vars, buildVars, queueVars,
             imageVars, ttyVars, rpmVars, debVars>>

PartsSpec == PartsInit /\ [][PartsNext]_allVars

-----------------------------------------------------------------------------
(* What all the registries promise; the details are in their modules.      *)

(***************************************************************************)
(* A registry holds what its last complete publications gave it, with      *)
(* nothing left of former versions, and its configuration names all of it  *)
(* (rpm.py:126-161, deb.py:110-167).                                       *)
(***************************************************************************)
RegistriesAreCurrent == SettledIsCurrent /\ DebSettledIsCurrent /\ ConfNamesAll

(***************************************************************************)
(* What is listed of an artifact whose last publications were complete is  *)
(* what its tasks left in the registry: for Deb packages exactly; for RPM  *)
(* packages all of it, and besides only what repositories that the last    *)
(* publication left out still name.  A listing fails or is empty only      *)
(* during a publication or after one that failed (rpm.py:126-161, 188-218, *)
(* deb.py:121-139, 169-286, 329-388).                                      *)
(***************************************************************************)
ListingsAreTrue == ListingIsExact /\ ListedIsPromised

(***************************************************************************)
(* A build never gives new packages a version that packages of its         *)
(* artifact in the registry have, under the conditions of BuildIsNew and   *)
(* DebBuildIsNew (builds/formats/rpm.py:211-231, deb.py:288-327).          *)
(***************************************************************************)
RebuildsAreNew == BuildIsNew /\ DebBuildIsNew
=============================================================================
