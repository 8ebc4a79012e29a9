---------------------------- MODULE RegistryOsi ----------------------------
(***************************************************************************)
(* The registry of OS images of one distribution and derivative (class     *)
(* RegistryOsi of src/fatbuildr/registry/formats/osi.py), with the keyring *)
(* that signs it.                                                          *)
(*                                                                         *)
(* A directory holds the images, one file with the checksums of all of     *)
(* them and its signature.  A publication rewrites the checksums, signs    *)
(* them, then copies the image: a failure leaves what was done.            *)
(***************************************************************************)
EXTENDS Keyring

CONSTANTS Names,     \* file names of images, artifact and version
          MaxOsiBuilds  \* bound on the number of publications

ASSUME OsiBounds == MaxOsiBuilds \in Nat /\ None \notin Names

VARIABLES
    images,    \* per name the build its content is from, 0 if copied in part
    sums,      \* per name the build whose checksum the file has
    signature, \* the checksums that were signed
    osiStep,      \* where the worker is in publish
    image,     \* the name that is published
    merged,    \* the checksums publish is about to write
    osiBuilds,    \* history: number of publications
    toRepublish, \* history: names to publish again after a failure
    unsigned   \* history: no signature was made for the last checksums

registryVars == <<images, sums, signature>>
osiHistVars == <<osiBuilds, toRepublish, unsigned>>
osiVars == <<registryVars, osiStep, image, merged, osiHistVars>>
signedVars == <<keyringVars, osiVars>>

Steps == {"out", "checksums", "opened", "agent", "unsign", "sign", "copy",
          "copied"}

\* Content of a file by name: None if there is no such file, or no such line.
Contents == [Names -> 0..MaxOsiBuilds \cup {None}]

Nothing == [n \in Names |-> None]

OsiTypeOK ==
    /\ KeyringTypeOK
    /\ images \in Contents
    /\ sums \in Contents
    /\ signature \in Contents \cup {None}
    /\ osiStep \in Steps
    /\ image \in Names \cup {None}
    /\ merged \in Contents
    /\ (osiStep = "out") = (image = None)
    /\ osiStep # "out" => pc["worker"] = "publish"
    /\ osiBuilds \in 0..MaxOsiBuilds
    /\ toRepublish \subseteq Names
    /\ unsigned \in BOOLEAN

OsiInit ==
    /\ KeyringInit
    /\ images = Nothing
    /\ sums = Nothing
    /\ signature = None
    /\ osiStep = "out"
    /\ image = None
    /\ merged = Nothing
    /\ osiBuilds = 0
    /\ toRepublish = {}
    /\ unsigned = TRUE

-----------------------------------------------------------------------------
(* publish.                                                                *)

OsiPublishStart(n) ==
    /\ osiBuilds < MaxOsiBuilds
    /\ osiBuilds' = osiBuilds + 1
    /\ Move("worker", "idle", "publish")
    /\ osiStep' = "checksums"
    /\ image' = n
    /\ UNCHANGED <<diskVars, mem, listed, countVars, creationVars, registryVars,
                   merged, toRepublish, unsigned>>

Step(from, to) ==
    /\ osiStep = from
    /\ osiStep' = to
    /\ UNCHANGED <<keyringVars, image, osiBuilds, toRepublish>>

\* Mutant: lines of images that are not part of the build are dropped.
Merged_Fresh(old, n) == [Nothing EXCEPT ![n] = osiBuilds]

\* Lines of the build replace those of the same name, the others are kept.
Merged(old, n) == [old EXCEPT ![n] = osiBuilds]

\* The file is read and merged, then opened to be written, which empties it.
\* A file that does not exist is a copy of the one of the build: the same.
ChecksumsOpen ==
    /\ Step("checksums", "opened")
    /\ merged' = Merged(sums, image)
    /\ sums' = Nothing
    /\ unsigned' = TRUE
    /\ UNCHANGED <<images, signature>>

ChecksumsWrite ==
    /\ Step("opened", "agent")
    /\ sums' = merged
    /\ UNCHANGED <<images, signature, merged, unsigned>>

LoadAgent ==
    /\ AgentLoads
    /\ Step("agent", "unsign")
    /\ UNCHANGED <<registryVars, merged, unsigned>>

RemoveSignature ==
    /\ Step("unsign", "sign")
    /\ signature' = None
    /\ UNCHANGED <<images, sums, merged, unsigned>>

\* The command names the user id of the master key, see Dies.
Sign ==
    /\ mem.master /\ AgentSigns
    /\ Step("sign", "copy")
    /\ signature' = sums
    /\ unsigned' = FALSE
    /\ UNCHANGED <<images, sums, merged>>

CopyOpen ==
    /\ Step("copy", "copied")
    /\ images' = [images EXCEPT ![image] = 0]
    /\ UNCHANGED <<sums, signature, merged, unsigned>>

\* Mutant: the name stays.
Leave_Keeps(label) ==
    /\ Goto("worker", label)
    /\ osiStep' = "out"
    /\ UNCHANGED <<diskVars, mem, listed, creations, renewals, creationVars,
                   image, merged, osiBuilds>>

Leave(label) ==
    /\ Goto("worker", label)
    /\ osiStep' = "out"
    /\ image' = None
    /\ merged' = Nothing
    /\ UNCHANGED <<diskVars, mem, listed, creations, renewals, creationVars,
                   osiBuilds>>

CopyEnds ==
    /\ osiStep = "copied"
    /\ Leave("idle")
    /\ images' = [images EXCEPT ![image] = osiBuilds]
    /\ toRepublish' = toRepublish \ {image}
    /\ UNCHANGED <<faults, sums, signature, unsigned>>

-----------------------------------------------------------------------------
(* Failures of publish.                                                    *)

(***************************************************************************)
(* What a publication that is cut leaves to be published again: nothing    *)
(* before it wrote, all names while the checksums are being rewritten, its *)
(* own name later.                                                         *)
(***************************************************************************)
Damaged ==
    CASE osiStep \in {"out", "checksums"} -> {}
      [] osiStep = "opened" -> Names
      [] OTHER -> {image}

Cut ==
    /\ toRepublish' = toRepublish \cup Damaged
    /\ UNCHANGED <<registryVars, unsigned>>

\* A command that fails (gpg-agent, its seeder, gpg) makes the task fail.
CommandFails ==
    /\ osiStep \in {"agent", "sign"}
    /\ MayFault
    /\ Cut
    /\ Leave("idle")

\* No subkey in memory, or no master key: AttributeError ends the worker.
Dies ==
    /\ \/ osiStep = "agent" /\ ~AgentLoads
       \/ osiStep = "sign" /\ ~mem.master
    /\ Cut
    /\ Leave("dead")
    /\ UNCHANGED faults

OsiStop ==
    /\ Stop
    /\ Cut
    /\ osiStep' = "out"
    /\ image' = None
    /\ merged' = Nothing
    /\ UNCHANGED osiBuilds

-----------------------------------------------------------------------------
(* delete_artifact and artifacts.                                          *)

\* An image that is not there is only logged; the checksums are left alone.
Delete(n) ==
    /\ pc["worker"] = "idle"
    /\ images[n] # None
    /\ images' = [images EXCEPT ![n] = None]
    /\ UNCHANGED <<keyringVars, sums, signature, osiStep, image, merged,
                   osiHistVars>>

OsiListed == {n \in Names : images[n] # None}

-----------------------------------------------------------------------------

OsiNext ==
    \/ KeyringNext /\ UNCHANGED osiVars
    \/ Boot /\ UNCHANGED osiVars
    \/ \E n \in Names : OsiPublishStart(n) \/ Delete(n)
    \/ ChecksumsOpen
    \/ ChecksumsWrite
    \/ LoadAgent
    \/ RemoveSignature
    \/ Sign
    \/ CopyOpen
    \/ CopyEnds
    \/ CommandFails
    \/ Dies
    \/ OsiStop

SignedSpec == OsiInit /\ [][OsiNext]_signedVars

-----------------------------------------------------------------------------
(* Properties.                                                             *)

(***************************************************************************)
(* Between publications each listed image is the one its checksum is of,   *)
(* and the signature is of the checksums, whatever publications, of this   *)
(* image or of others, and creations of keys have failed before.  After a  *)
(* failure of its own, or of any publication while the file was being      *)
(* rewritten, an image has to be published once, completely; the signature *)
(* is good again after the next one that signs (osi.py:80-164).            *)
(***************************************************************************)
SettledIsVerifiable ==
    osiStep = "out" =>
        /\ \A n \in OsiListed \ toRepublish : sums[n] = images[n]
        /\ unsigned \/ signature = sums

(***************************************************************************)
(* What clients are given to check images with is current: the dates of    *)
(* the key they read, and the checksums and the signature they fetch       *)
(* (keyring.py:326, osi.py:118-142).                                       *)
(***************************************************************************)
VerifiersAreCurrent == RenewalIsSeen /\ SettledIsVerifiable
=============================================================================
