--------------------------- MODULE KeyringProofs ---------------------------
(***************************************************************************)
(* That an instance whose keyring was created can sign for ever, and when  *)
(* a creation can be repeated; that what clients check images with is      *)
(* current; for any number of creations, renewals, publications, faults    *)
(* and restarts.                                                           *)
(***************************************************************************)
EXTENDS RegistryOsi, FiniteSetTheorems, TLAPS

Sound ==
    \E k \in Key : keys = {k} /\ k.subkeys = 1 /\ k.passphrase = passphrase.id

\* What is on disk at each step of a creation.
CreationShape ==
    /\ pc["worker"] \in Creating => ~created
    /\ pc["worker"] \in {"opened", "written", "protected"} => keys = {}
    /\ pc["worker"] \in {"generated", "named", "subkey"} =>
           \E k \in Key : keys = {k} /\ k.passphrase = passphrase.id
    /\ pc["worker"] = "signing" => Sound

\* There is never a second key, and a success stays on disk and in memory.
KeyShape ==
    /\ keys = {} \/ \E k \in Key : keys = {k}
    /\ created => Sound
    /\ created /\ pc["worker"] # "down" => mem.sub # None

\* Where a creation that left something in the way was cut.
Repeatable ==
    \/ Sound
    \/ Creatable
    \/ cuts \cap CutLate # {}
    \/ pc["worker"] \in CutLate

\* Only publish has the worker while it is in progress.
PublishHolds == osiStep # "out" => pc["worker"] = "publish"

IInv == KeyringTypeOK /\ CreationShape /\ KeyShape /\ Repeatable /\ PublishHolds

-----------------------------------------------------------------------------

USE DEF Threads, Labels, Creating, Expiries, Passphrases

(* The assumptions on the constants, in the form the steps need.  *)
LEMMA Bounds ==
    /\ MaxCreations \in Nat /\ MaxRenewals \in Nat /\ MaxFaults \in Nat
    /\ None \notin Expiries
  BY KeyringBounds, KeyringNone

(* The initial keyring is empty.  *)
LEMMA InitIInv == OsiInit => IInv
  <1> SUFFICES ASSUME OsiInit PROVE IInv
    OBVIOUS
  <1> USE Bounds DEF OsiInit, KeyringInit
  <1>1. KeyringTypeOK
    <2>1. mem \in Memory
      BY DEF Memory, NoMemory
    <2>2. passphrase \in [id : Passphrases,
                         mode : {"absent", "writable", "protected"}]
      OBVIOUS
    <2>3. listed \in [Threads -> SUBSET Key] /\ pc \in [Threads -> Labels]
      OBVIOUS
    <2>4. /\ keys \subseteq Key /\ cuts \subseteq Labels
          /\ created \in BOOLEAN /\ overtaken \in BOOLEAN
      OBVIOUS
    <2>5. /\ creations \in 0..MaxCreations /\ renewals \in 0..MaxRenewals
          /\ faults \in 0..MaxFaults
      OBVIOUS
    <2>6. QED
      BY <2>1, <2>2, <2>3, <2>4, <2>5 DEF KeyringTypeOK
  <1>2. CreationShape /\ KeyShape /\ Repeatable /\ PublishHolds
    BY DEF CreationShape, KeyShape, Repeatable, Creatable, PublishHolds
  <1>3. QED
    BY <1>1, <1>2 DEF IInv

(* What is loaded has a type, and is complete if the keys are.  *)
LEMMA LoadedTypes ==
    ASSUME NEW found, found \subseteq Key, NEW old \in Memory
    PROVE  /\ Loaded(found, old) \in Memory
           /\ old.sub # None => Loaded(found, old).sub # None
           /\ (\E k \in Key : found = {k} /\ k.subkeys = 1)
                  => Loaded(found, old).sub # None
  <1>1. CASE found = {} \/ \E k \in found : k.subkeys # 1
    <2>1. Loaded(found, old) = [old EXCEPT !.master = found # {}]
      BY <1>1 DEF Loaded
    <2>2. QED
      BY <1>1, <2>1 DEF Memory
  <1>2. CASE ~(found = {} \/ \E k \in found : k.subkeys # 1)
    <2> DEFINE first == CHOOSE k \in found : TRUE
    <2>1. Loaded(found, old) = [master |-> TRUE, key |-> first.expires,
                                sub |-> first.subExpires]
      BY <1>2 DEF Loaded
    <2>2. first \in Key
      BY <1>2
    <2>3. first.expires \in Expiries /\ first.subExpires \in Expiries
      BY <2>2 DEF Key
    <2>4. QED
      BY <2>1, <2>3, Bounds DEF Memory
  <1>3. QED
    BY <1>1, <1>2

(* A step of the keyring, of the worker or of an export, keeps IInv.  *)
LEMMA KeyringIInv == IInv /\ KeyringNext /\ UNCHANGED osiVars => IInv'
  <1> SUFFICES ASSUME IInv, KeyringNext, UNCHANGED osiVars
               PROVE  IInv'
    OBVIOUS
  <1> USE Bounds
      DEF IInv, KeyringTypeOK, CreationShape, KeyShape, Repeatable, Creatable,
          PublishHolds, Sound, CutLate, Key, Memory, osiVars, countVars,
          creationVars, diskVars, Move, Goto
  <1>1. ASSUME NEW p \in Threads, List(p) PROVE IInv'
    BY <1>1 DEF List
  <1>2. ASSUME NEW p \in Threads, Assign(p) PROVE IInv'
    BY <1>2, LoadedTypes DEF Assign
  <1>3. CASE Export
    BY <1>3 DEF Export
  <1>4. CASE CreateStart
    BY <1>4 DEF CreateStart
  <1>5. CASE PassphraseWrite
    BY <1>5 DEF PassphraseWrite
  <1>6. CASE PassphraseProtect
    BY <1>6 DEF PassphraseProtect
  <1>7. CASE MasterCreate
    <2> DEFINE new == [passphrase |-> passphrase.id, subkeys |-> 0,
                       expires |-> renewals, subExpires |-> renewals]
    <2>1. new \in Key
      OBVIOUS
    <2>2. keys' = {new} /\ new.passphrase = passphrase'.id
      BY <1>7 DEF MasterCreate
    <2> HIDE DEF new
    <2>3. KeyringTypeOK' /\ PublishHolds'
      BY <1>7, <2>1, <2>2 DEF MasterCreate
    <2>4. CreationShape' /\ KeyShape' /\ Repeatable'
      BY <1>7, <2>1, <2>2 DEF MasterCreate
    <2>5. QED
      BY <2>3, <2>4
  <1>8. CASE MasterAssign
    BY <1>8 DEF MasterAssign
  <1>9. CASE MasterRead
    <2>1. KeyringTypeOK' /\ PublishHolds'
      <3>1. cuts' \subseteq Labels
        <4>1. cuts' \subseteq cuts \cup {"named"}
          BY ONLY <1>9 DEF MasterRead, NeedsMaster
        <4>2. cuts \subseteq Labels
          OBVIOUS
        <4>3. QED
          BY ONLY <4>1, <4>2 DEF Labels, Creating
      <3>2. pc' \in [Threads -> Labels]
        BY <1>9 DEF MasterRead, NeedsMaster
      <3>3. faults' \in 0..MaxFaults
        BY <1>9 DEF MasterRead, NeedsMaster
      <3>4. PublishHolds'
        BY <1>9 DEF MasterRead, NeedsMaster
      <3>5. QED
        BY <1>9, <3>1, <3>2, <3>3, <3>4 DEF MasterRead, NeedsMaster
    <2>2. CreationShape' /\ KeyShape'
      BY <1>9 DEF MasterRead, NeedsMaster
    <2>3. Repeatable'
      BY <1>9 DEF MasterRead, NeedsMaster
    <2>4. QED
      BY <2>1, <2>2, <2>3
  <1>10. CASE SubkeyCreate
    <2>1. CASE ~mem.master
      <3>1. KeyringTypeOK' /\ PublishHolds'
        BY <1>10, <2>1 DEF SubkeyCreate, NeedsMaster
      <3>2. CreationShape' /\ KeyShape'
        BY <1>10, <2>1 DEF SubkeyCreate, NeedsMaster
      <3>3. Repeatable'
        BY <1>10, <2>1 DEF SubkeyCreate, NeedsMaster
      <3>4. QED
        BY <3>1, <3>2, <3>3
    <2>2. CASE mem.master
      <3>1. PICK k \in Key : keys = {k} /\ k.passphrase = passphrase.id
        BY <1>10 DEF SubkeyCreate, NeedsMaster
      <3> DEFINE new == [k EXCEPT !.subkeys = 1]
      <3>2. new \in Key /\ new.subkeys = 1 /\ new.passphrase = passphrase.id
        BY <3>1
      <3>3. keys' = {new}
        BY <1>10, <2>2, <3>1 DEF SubkeyCreate
      <3> HIDE DEF new
      <3>4. Sound'
        BY <1>10, <3>2, <3>3 DEF SubkeyCreate
      <3>5. KeyringTypeOK' /\ PublishHolds'
        BY <1>10, <2>2, <3>2, <3>3 DEF SubkeyCreate, NeedsMaster
      <3>6. pc'["worker"] = "signing" /\ ~created' /\ UNCHANGED <<mem, created>>
        BY <1>10, <2>2 DEF SubkeyCreate, NeedsMaster
      <3>7. CreationShape'
        BY ONLY <3>4, <3>6 DEF CreationShape
      <3>8. KeyShape'
        BY <1>10, <3>2, <3>3, <3>4, <3>6 DEF SubkeyCreate, NeedsMaster
      <3>9. Repeatable'
        BY <3>4
      <3>10. QED
        BY <3>5, <3>7, <3>8, <3>9
    <2>3. QED
      BY <2>1, <2>2
  <1>11. CASE SubkeyAssign
    BY <1>11 DEF SubkeyAssign
  <1>12. CASE RenewStart
    BY <1>12 DEF RenewStart
  <1>13. CASE RenewMaster
    <2> DEFINE new(k) == [k EXCEPT !.expires = renewals]
    <2>1. \A k \in Key : /\ new(k) \in Key
                         /\ new(k).subkeys = k.subkeys
                         /\ new(k).passphrase = k.passphrase
      OBVIOUS
    <2>2. keys' = {new(k) : k \in keys}
      BY <1>13 DEF RenewMaster
    <2> HIDE DEF new
    <2>3. KeyringTypeOK' /\ PublishHolds'
      BY <1>13, <2>1, <2>2 DEF RenewMaster
    <2>4. \A k \in Key : keys = {k} => keys' = {new(k)}
      BY <2>2
    <2>5. keys = {} => keys' = {}
      BY <2>2
    <2>6. Sound => Sound'
      BY <1>13, <2>1, <2>4 DEF RenewMaster
    <2>7. KeyShape'
      BY <1>13, <2>1, <2>4, <2>5, <2>6 DEF RenewMaster
    <2>8. CreationShape' /\ Repeatable'
      BY <1>13, <2>5, <2>6 DEF RenewMaster
    <2>9. QED
      BY <2>3, <2>7, <2>8
  <1>14. CASE RenewSub
    <2> DEFINE new(k) == [k EXCEPT !.subExpires = renewals]
    <2>1. \A k \in Key : /\ new(k) \in Key
                         /\ new(k).subkeys = k.subkeys
                         /\ new(k).passphrase = k.passphrase
      OBVIOUS
    <2>2. keys' = {new(k) : k \in keys}
      BY <1>14 DEF RenewSub
    <2> HIDE DEF new
    <2>3. KeyringTypeOK' /\ PublishHolds'
      BY <1>14, <2>1, <2>2 DEF RenewSub
    <2>4. \A k \in Key : keys = {k} => keys' = {new(k)}
      BY <2>2
    <2>5. keys = {} => keys' = {}
      BY <2>2
    <2>6. Sound => Sound'
      BY <1>14, <2>1, <2>4 DEF RenewSub
    <2>7. KeyShape'
      BY <1>14, <2>1, <2>4, <2>5, <2>6 DEF RenewSub
    <2>8. CreationShape' /\ Repeatable'
      BY <1>14, <2>5, <2>6 DEF RenewSub
    <2>9. QED
      BY <2>3, <2>7, <2>8
  <1>15. CASE GpgFails
    <2>1. KeyringTypeOK' /\ PublishHolds'
      <3>1. cuts' \subseteq Labels
        <4>1. cuts' = cuts \cup {pc["worker"]} /\ pc["worker"] \in Labels
          BY <1>15 DEF GpgFails
        <4>2. cuts \subseteq Labels
          OBVIOUS
        <4>3. QED
          BY ONLY <4>1, <4>2
      <3>2. pc' \in [Threads -> Labels]
        BY <1>15 DEF GpgFails, MayFault
      <3>3. faults' \in 0..MaxFaults
        BY <1>15 DEF GpgFails, MayFault
      <3>4. PublishHolds'
        BY <1>15 DEF GpgFails, MayFault
      <3>5. QED
        BY <1>15, <3>1, <3>2, <3>3, <3>4 DEF GpgFails, MayFault
    <2>2. CreationShape' /\ KeyShape'
      BY <1>15 DEF GpgFails, MayFault
    <2>3. Repeatable'
      BY <1>15 DEF GpgFails, MayFault
    <2>4. QED
      BY <2>1, <2>2, <2>3
  <1>16. QED
    BY <1>1, <1>2, <1>3, <1>4, <1>5, <1>6, <1>7, <1>8, <1>9,
       <1>10, <1>11, <1>12, <1>13, <1>14, <1>15
    DEF KeyringNext

(* A restart loads what is on disk.  *)
LEMMA BootIInv == IInv /\ Boot /\ UNCHANGED osiVars => IInv'
  <1> SUFFICES ASSUME IInv, Boot, UNCHANGED osiVars PROVE IInv'
    OBVIOUS
  <1> USE Bounds DEF IInv, KeyringTypeOK, Boot, diskVars, countVars, osiVars
  <1>1. NoMemory \in Memory
    BY DEF NoMemory, Memory
  <1>2. mem' \in Memory /\ (Sound => mem'.sub # None)
    BY <1>1, LoadedTypes DEF Sound
  <1>3. pc' \in [Threads -> Labels] /\ pc'["worker"] = "idle"
    OBVIOUS
  <1>4. Sound => Sound'
    BY DEF Sound
  <1>5. KeyringTypeOK' /\ PublishHolds'
    BY <1>2, <1>3 DEF PublishHolds
  <1>6. CreationShape' /\ KeyShape'
    BY <1>2, <1>3, <1>4 DEF CreationShape, KeyShape
  <1>7. Repeatable'
    BY <1>3, <1>4 DEF Repeatable, Creatable, CutLate
  <1>8. QED
    BY <1>5, <1>6, <1>7

(* A stop forgets what is in memory, and records where it cut the worker.  *)
LEMMA StopIInv == IInv /\ OsiStop => IInv'
  <1> SUFFICES ASSUME IInv, OsiStop PROVE IInv'
    OBVIOUS
  <1> USE Bounds DEF IInv, KeyringTypeOK, OsiStop, Stop, diskVars, MayFault
  <1>1. mem' \in Memory
    BY DEF NoMemory, Memory
  <1>2. pc' \in [Threads -> Labels] /\ pc'["worker"] = "down"
    OBVIOUS
  <1>3. cuts' \subseteq Labels /\ faults' \in 0..MaxFaults
    <2>1. pc["worker"] \in Labels
      OBVIOUS
    <2>2. cuts' \subseteq Labels
      BY <2>1
    <2>3. faults' \in 0..MaxFaults
      OBVIOUS
    <2>4. QED
      BY <2>2, <2>3
  <1>4. listed' \in [Threads -> SUBSET Key]
    OBVIOUS
  <1>5. KeyringTypeOK'
    BY <1>1, <1>2, <1>3, <1>4
  <1>6. Sound => Sound'
    BY DEF Sound
  <1>7. CreationShape' /\ KeyShape' /\ PublishHolds'
    BY <1>2, <1>6 DEF CreationShape, KeyShape, PublishHolds
  <1>8. Repeatable'
    BY <1>6 DEF Repeatable, Creatable, CutLate
  <1>9. QED
    BY <1>5, <1>7, <1>8

(* The steps of a publication only move the worker.  *)
LEMMA OsiIInv == IInv /\ OsiNext => IInv'
  <1> SUFFICES ASSUME IInv, OsiNext PROVE IInv'
    OBVIOUS
  <1> USE Bounds
      DEF IInv, KeyringTypeOK, CreationShape, KeyShape, Repeatable, Creatable,
          PublishHolds, Sound, CutLate, keyringVars, countVars, creationVars,
          diskVars, osiVars
  <1>1. CASE KeyringNext /\ UNCHANGED osiVars
    BY <1>1, KeyringIInv
  <1>2. CASE Boot /\ UNCHANGED osiVars
    BY <1>2, BootIInv
  <1>3. ASSUME NEW n \in Names, OsiPublishStart(n) PROVE IInv'
    BY <1>3 DEF OsiPublishStart, Move, Goto
  <1>4. ASSUME NEW n \in Names, Delete(n) PROVE IInv'
    BY <1>4 DEF Delete
  <1>5. ASSUME NEW from, NEW to, Step(from, to), from # "out" PROVE IInv'
    BY <1>5 DEF Step
  <1>6. CASE ChecksumsOpen \/ ChecksumsWrite \/ LoadAgent
    BY <1>5, <1>6 DEF ChecksumsOpen, ChecksumsWrite, LoadAgent
  <1>7. CASE RemoveSignature \/ Sign \/ CopyOpen
    BY <1>5, <1>7 DEF RemoveSignature, Sign, CopyOpen
  <1>8. ASSUME NEW label \in {"idle", "dead"}, Leave(label), osiStep # "out",
               faults' \in 0..MaxFaults
        PROVE  IInv'
    <2>1. /\ pc["worker"] = "publish" /\ pc'["worker"] = label
          /\ pc' \in [Threads -> Labels]
      BY <1>8 DEF Leave, Goto
    <2>2. KeyringTypeOK' /\ PublishHolds'
      BY <1>8, <2>1 DEF Leave
    <2>3. CreationShape' /\ KeyShape' /\ Repeatable'
      BY <1>8, <2>1 DEF Leave
    <2>4. QED
      BY <2>2, <2>3
  <1>9. CASE CopyEnds
    BY <1>8, <1>9 DEF CopyEnds
  <1>10. CASE CommandFails
    BY <1>8, <1>10 DEF CommandFails, MayFault
  <1>11. CASE Dies
    BY <1>8, <1>11 DEF Dies
  <1>12. CASE OsiStop
    BY <1>12, StopIInv
  <1>13. QED
    BY <1>1, <1>2, <1>3, <1>4, <1>6, <1>7, <1>9, <1>10, <1>11, <1>12
    DEF OsiNext

(* Every step, and those of what the registry and the keyring do not see.  *)
LEMMA NextIInv == IInv /\ [OsiNext]_signedVars => IInv'
  <1> SUFFICES ASSUME IInv, [OsiNext]_signedVars PROVE IInv'
    OBVIOUS
  <1>1. CASE OsiNext
    BY <1>1, OsiIInv
  <1>2. CASE UNCHANGED signedVars
    BY <1>2
    DEF IInv, KeyringTypeOK, CreationShape, KeyShape, Repeatable, Creatable,
        PublishHolds, Sound, signedVars, keyringVars, countVars, creationVars,
        diskVars, osiVars
  <1>3. QED
    BY <1>1, <1>2

(* The invariant of all that the registries and the keyring do.  *)
LEMMA SpecIInv == SignedSpec => []IInv
  BY InitIInv, NextIInv, PTL DEF SignedSpec

-----------------------------------------------------------------------------

(* One key that the passphrase opens is what a signature needs.  *)
LEMMA SoundIsWhole == IInv /\ Sound => Whole
  <1> SUFFICES ASSUME IInv, Sound PROVE Whole
    OBVIOUS
  <1>1. PICK k \in Key :
            keys = {k} /\ k.subkeys = 1 /\ k.passphrase = passphrase.id
    BY DEF Sound
  <1>2. Cardinality(keys) = 1
    BY <1>1, FS_Singleton
  <1>3. QED
    BY <1>1, <1>2 DEF Whole, AgentSigns

(***************************************************************************)
(* The keyring of src/fatbuildr/keyring.py keeps its types: among others   *)
(* what is in memory is a date of a key that was created, or None.         *)
(***************************************************************************)
THEOREM KeyringTypes == SignedSpec => []KeyringTypeOK
  BY SpecIInv, PTL DEF IInv

(***************************************************************************)
(* After a creation that succeeded (keyring.py:211-249) nothing that the   *)
(* instance does, or that fails, takes the signing key from it.            *)
(***************************************************************************)
THEOREM SignsForEver == SignedSpec => []CanSignForEver
  <1>1. IInv => CanSignForEver
    BY SoundIsWhole DEF IInv, KeyShape, CanSignForEver, AgentLoads
  <1>2. QED
    BY <1>1, SpecIInv, PTL

(***************************************************************************)
(* A creation can be repeated unless it was cut between the protection of  *)
(* the passphrase and the subkey (keyring.py:234-249).                     *)
(***************************************************************************)
THEOREM CreatesAgain == SignedSpec => []CreationCanBeRepeated
  <1>1. IInv => CreationCanBeRepeated
    BY SoundIsWhole
    DEF IInv, Repeatable, CreationCanBeRepeated, CutLate
  <1>2. QED
    BY <1>1, SpecIInv, PTL

-----------------------------------------------------------------------------
(* What clients check images with.                                         *)

(***************************************************************************)
(* The dates in memory while no task of the keyring is under way, and what *)
(* makes them right at the end of a creation, whatever an export that      *)
(* overlaps it assigns: the only key it may have listed is the new one.    *)
(***************************************************************************)
DatesShape ==
    /\ pc["worker"] \in {"idle", "publish"} /\ ~overtaken =>
           \A k \in keys : k.subkeys = 1 =>
               mem.key = k.expires /\ mem.sub = k.subExpires
    /\ keys = {} => \A p \in Threads : listed[p] = {}
    /\ pc["worker"] \in Creating =>
           \A k \in keys \cup listed["server"] :
               k.expires = renewals /\ k.subExpires = renewals
    /\ pc["worker"] \in {"named", "subkey", "signing"} => mem.key = renewals

\* The images that are listed, but those that are spared, are what content
\* says of them.
Match(content, spared) ==
    \A n \in OsiListed \ spared : content[n] = images[n]

\* The checksums at each step of a publication.
ChecksumsShape ==
    /\ osiStep \in {"out", "checksums"} => Match(sums, toRepublish)
    /\ osiStep = "opened" =>
           Match(merged, toRepublish \cup {image}) /\ merged[image] = osiBuilds
    /\ osiStep \in {"agent", "unsign", "sign", "copy", "copied"} =>
           Match(sums, toRepublish \cup {image}) /\ sums[image] = osiBuilds

\* A signature of former checksums is never left without a trace.
SignatureShape ==
    /\ unsigned \/ signature = sums
    /\ osiStep \in {"opened", "agent", "unsign", "sign"} => unsigned

VInv == OsiTypeOK /\ DatesShape /\ ChecksumsShape /\ SignatureShape

(* What is loaded from one key, complete or not.  *)
LEMMA LoadedDates ==
    ASSUME NEW found, found \subseteq Key, NEW old \in Memory
    PROVE  /\ \A k \in Key : found = {k} /\ k.subkeys = 1 =>
                  /\ Loaded(found, old).key = k.expires
                  /\ Loaded(found, old).sub = k.subExpires
           /\ \A d : (\A k \in found : k.expires = d) /\ old.key = d =>
                  Loaded(found, old).key = d
  <1>1. CASE found = {} \/ \E k \in found : k.subkeys # 1
    <2>1. Loaded(found, old) = [old EXCEPT !.master = found # {}]
      BY <1>1 DEF Loaded
    <2>2. Loaded(found, old).key = old.key
      BY <2>1 DEF Memory
    <2>3. QED
      BY <1>1, <2>2
  <1>2. CASE ~(found = {} \/ \E k \in found : k.subkeys # 1)
    <2> DEFINE first == CHOOSE k \in found : TRUE
    <2>1. Loaded(found, old) = [master |-> TRUE, key |-> first.expires,
                                sub |-> first.subExpires]
      BY <1>2 DEF Loaded
    <2>2. first \in found
      BY <1>2
    <2> HIDE DEF first
    <2>3. QED
      BY <2>1, <2>2
  <1>3. QED
    BY <1>1, <1>2

(* The steps of the keyring keep the dates.  *)
LEMMA KeyringDates ==
  IInv /\ DatesShape /\ KeyringNext /\ UNCHANGED osiVars => DatesShape'
  <1> SUFFICES ASSUME IInv, DatesShape, KeyringNext PROVE DatesShape'
    OBVIOUS
  <1> USE Bounds
      DEF IInv, KeyringTypeOK, DatesShape, countVars, creationVars, diskVars,
          Move, Goto
  <1>1. ASSUME NEW p \in Threads, List(p) PROVE DatesShape'
    BY <1>1 DEF List
  <1>2. ASSUME NEW p \in Threads, Assign(p) PROVE DatesShape'
    <2>1. /\ pc[p] = "assign" /\ pc' = [pc EXCEPT ![p] = "idle"]
          /\ mem' = Loaded(listed[p], mem)
          /\ overtaken' = (listed[p] # keys)
          /\ listed' = [listed EXCEPT ![p] = {}]
          /\ keys' = keys /\ renewals' = renewals
      BY <1>2 DEF Assign
    <2>2. listed[p] \subseteq Key /\ mem \in Memory
      OBVIOUS
    <2>3. ~overtaken' => \A k \in keys : k.subkeys = 1 =>
              mem'.key = k.expires /\ mem'.sub = k.subExpires
      <3> SUFFICES ASSUME ~overtaken', NEW k \in keys, k.subkeys = 1
                   PROVE  mem'.key = k.expires /\ mem'.sub = k.subExpires
        OBVIOUS
      <3>1. listed[p] = keys /\ k \in Key /\ keys = {k}
        BY <2>1 DEF KeyShape
      <3>2. QED
        BY <2>1, <2>2, <3>1, LoadedDates
    <2>4. pc'["worker"] \in {"named", "subkey", "signing"} =>
              mem'.key = renewals
      <3> SUFFICES ASSUME pc'["worker"] \in {"named", "subkey", "signing"}
                   PROVE  mem'.key = renewals
        OBVIOUS
      <3>1. p = "server" /\ pc["worker"] = pc'["worker"]
        BY <2>1
      <3>2. mem.key = renewals /\ \A k \in listed[p] : k.expires = renewals
        BY <3>1
      <3>3. QED
        BY <2>1, <2>2, <3>2, LoadedDates
    <2>5. pc'["worker"] \in Creating => pc["worker"] \in Creating
      BY <2>1
    <2>6. QED
      BY <2>1, <2>3, <2>4, <2>5
  <1>3. CASE Export
    BY <1>3 DEF Export
  <1>4. CASE CreateStart
    BY <1>4 DEF CreateStart
  <1>5. CASE PassphraseWrite \/ PassphraseProtect
    BY <1>5 DEF PassphraseWrite, PassphraseProtect
  <1>6. CASE MasterCreate
    BY <1>6 DEF MasterCreate
  <1>7. CASE MasterAssign
    BY <1>7 DEF MasterAssign, Memory
  <1>8. CASE MasterRead
    BY <1>8 DEF MasterRead, NeedsMaster
  <1>9. CASE SubkeyCreate
    <2>1. PICK k \in Key : keys = {k}
      BY <1>9 DEF SubkeyCreate, NeedsMaster, CreationShape
    <2> DEFINE new == [k EXCEPT !.subkeys = 1]
    <2>2. /\ new.expires = k.expires
          /\ new.subExpires = k.subExpires
      BY DEF Key
    <2>3. keys' = {k} \/ keys' = {new}
      BY <1>9, <2>1 DEF SubkeyCreate
    <2> HIDE DEF new
    <2>4. QED
      BY <1>9, <2>1, <2>2, <2>3 DEF SubkeyCreate, NeedsMaster
  <1>10. CASE SubkeyAssign
    BY <1>10 DEF SubkeyAssign, Memory
  <1>11. CASE RenewStart
    BY <1>11 DEF RenewStart
  <1>12. CASE RenewMaster
    <2>1. pc'["worker"] = "renewSub" /\ listed' = listed
      BY <1>12 DEF RenewMaster
    <2>2. ASSUME NEW k \in keys PROVE keys' # {}
      <3>1. keys' = {[j EXCEPT !.expires = renewals] : j \in keys}
        BY <1>12 DEF RenewMaster
      <3>2. [k EXCEPT !.expires = renewals] \in keys'
        BY ONLY <3>1
      <3>3. QED
        BY ONLY <3>2
    <2>3. QED
      BY <2>1, <2>2
  <1>13. CASE RenewSub
    <2>1. pc'["worker"] = "list" /\ listed' = listed
      BY <1>13 DEF RenewSub
    <2>2. ASSUME NEW k \in keys PROVE keys' # {}
      <3>1. keys' = {[j EXCEPT !.subExpires = renewals] : j \in keys}
        BY <1>13 DEF RenewSub
      <3>2. [k EXCEPT !.subExpires = renewals] \in keys'
        BY ONLY <3>1
      <3>3. QED
        BY ONLY <3>2
    <2>3. QED
      BY <2>1, <2>2
  <1>14. CASE GpgFails
    BY <1>14 DEF GpgFails
  <1>15. QED
    BY <1>1, <1>2, <1>3, <1>4, <1>5, <1>6, <1>7, <1>8, <1>9, <1>10, <1>11,
       <1>12, <1>13, <1>14
    DEF KeyringNext

(* So do a restart and the steps of a publication.  *)
LEMMA NextDates == IInv /\ DatesShape /\ [OsiNext]_signedVars => DatesShape'
  <1> SUFFICES ASSUME IInv, DatesShape, [OsiNext]_signedVars
               PROVE  DatesShape'
    OBVIOUS
  <1> USE DEF IInv, KeyringTypeOK, keyringVars, countVars, creationVars,
          diskVars
  <1>1. CASE KeyringNext /\ UNCHANGED osiVars
    BY <1>1, KeyringDates
  <1>2. CASE Boot
    <2>1. NoMemory \in Memory
      BY DEF NoMemory, Memory
    <2>2. mem' = Loaded(keys, NoMemory) /\ keys' = keys /\ listed' = listed
          /\ pc' = [p \in Threads |-> "idle"]
      BY <1>2 DEF Boot
    <2>3. \A k \in keys : k.subkeys = 1 =>
              mem'.key = k.expires /\ mem'.sub = k.subExpires
      <3> SUFFICES ASSUME NEW k \in keys, k.subkeys = 1
                   PROVE  mem'.key = k.expires /\ mem'.sub = k.subExpires
        OBVIOUS
      <3>1. k \in Key /\ keys = {k}
        BY DEF KeyShape
      <3>2. QED
        BY <2>1, <2>2, <3>1, LoadedDates
    <2>4. QED
      BY <2>2, <2>3 DEF DatesShape
  <1>3. ASSUME NEW n \in Names, OsiPublishStart(n) PROVE DatesShape'
    BY <1>3 DEF OsiPublishStart, Move, Goto, DatesShape
  <1>4. CASE UNCHANGED keyringVars
    BY <1>4 DEF DatesShape
  <1>5. CASE \/ ChecksumsOpen \/ ChecksumsWrite \/ LoadAgent
             \/ RemoveSignature \/ Sign \/ CopyOpen
    BY <1>4, <1>5 DEF ChecksumsOpen, ChecksumsWrite, LoadAgent,
       RemoveSignature, Sign, CopyOpen, Step
  <1>6. ASSUME NEW n \in Names, Delete(n) PROVE DatesShape'
    BY <1>4, <1>6 DEF Delete
  <1>7. ASSUME NEW label \in {"idle", "dead"}, Leave(label), osiStep # "out"
        PROVE  DatesShape'
    <2>1. /\ pc["worker"] = "publish" /\ pc' = [pc EXCEPT !["worker"] = label]
          /\ UNCHANGED <<keys, mem, listed, renewals, overtaken>>
      BY <1>7 DEF Leave, Goto, PublishHolds
    <2>2. pc'["worker"] = label
      BY <2>1
    <2>3. QED
      BY <2>1, <2>2 DEF DatesShape
  <1>8. CASE CopyEnds \/ CommandFails \/ Dies
    BY <1>7, <1>8 DEF CopyEnds, CommandFails, Dies
  <1>9. CASE OsiStop
    BY <1>9 DEF OsiStop, Stop, DatesShape
  <1>10. CASE UNCHANGED signedVars
    BY <1>4, <1>10 DEF signedVars
  <1>11. QED
    BY <1>1, <1>2, <1>3, <1>5, <1>6, <1>8, <1>9, <1>10 DEF OsiNext

(* The steps of the registry keep its types.  *)
LEMMA NextTypes == IInv /\ OsiTypeOK /\ [OsiNext]_signedVars => OsiTypeOK'
  <1> SUFFICES ASSUME IInv, OsiTypeOK, [OsiNext]_signedVars
               PROVE  OsiTypeOK'
    OBVIOUS
  <1>1. KeyringTypeOK' /\ PublishHolds'
    BY NextIInv DEF IInv
  <1> USE OsiBounds
      DEF OsiTypeOK, PublishHolds, registryVars, osiHistVars, Contents, Steps
  <1>2. CASE UNCHANGED osiVars
    BY <1>1, <1>2 DEF osiVars
  <1>3. ASSUME NEW n \in Names, OsiPublishStart(n) PROVE OsiTypeOK'
    BY <1>1, <1>3 DEF OsiPublishStart
  <1>4. ASSUME NEW n \in Names, Delete(n) PROVE OsiTypeOK'
    BY <1>1, <1>4 DEF Delete
  <1>5. CASE ChecksumsOpen
    BY <1>1, <1>5 DEF ChecksumsOpen, Step, Merged, Nothing
  <1>6. CASE ChecksumsWrite \/ LoadAgent \/ RemoveSignature \/ Sign
    BY <1>1, <1>6 DEF ChecksumsWrite, LoadAgent, RemoveSignature, Sign, Step
  <1>7. CASE CopyOpen
    BY <1>1, <1>7 DEF CopyOpen, Step
  <1>8. Damaged \subseteq Names
    BY DEF Damaged
  <1>9. CASE CopyEnds
    BY <1>1, <1>9 DEF CopyEnds, Leave, Nothing
  <1>10. CASE CommandFails \/ Dies
    BY <1>1, <1>8, <1>10 DEF CommandFails, Dies, Cut, Leave, Nothing
  <1>11. CASE OsiStop
    BY <1>1, <1>8, <1>11 DEF OsiStop, Cut, Nothing
  <1>12. QED
    BY <1>2, <1>3, <1>4, <1>5, <1>6, <1>7, <1>9, <1>10, <1>11
    DEF OsiNext, signedVars

(* The steps of a publication keep what the checksums and the signature    *)
(* are of; a deletion only takes an image away.                            *)
LEMMA NextChecksums ==
  IInv /\ OsiTypeOK /\ ChecksumsShape /\ SignatureShape
  /\ [OsiNext]_signedVars => ChecksumsShape' /\ SignatureShape'
  <1> SUFFICES ASSUME IInv, OsiTypeOK, ChecksumsShape, SignatureShape,
                      [OsiNext]_signedVars
               PROVE  ChecksumsShape' /\ SignatureShape'
    OBVIOUS
  <1> USE OsiBounds
      DEF OsiTypeOK, ChecksumsShape, SignatureShape, Match, OsiListed, Steps,
          registryVars, osiHistVars, Contents
  <1>1. CASE UNCHANGED osiVars
    BY <1>1 DEF osiVars
  <1>2. ASSUME NEW n \in Names, OsiPublishStart(n)
        PROVE  ChecksumsShape' /\ SignatureShape'
    BY <1>2 DEF OsiPublishStart, Move, IInv, PublishHolds
  <1>3. ASSUME NEW n \in Names, Delete(n)
        PROVE  ChecksumsShape' /\ SignatureShape'
    BY <1>3 DEF Delete, IInv, PublishHolds
  <1>4. CASE ChecksumsOpen
    BY <1>4 DEF ChecksumsOpen, Step, Merged
  <1>5. CASE ChecksumsWrite \/ LoadAgent \/ RemoveSignature \/ Sign
    BY <1>5 DEF ChecksumsWrite, LoadAgent, RemoveSignature, Sign, Step
  <1>6. CASE CopyOpen
    BY <1>6 DEF CopyOpen, Step
  <1>7. CASE CopyEnds
    BY <1>7 DEF CopyEnds, Leave
  <1>8. ASSUME Cut, osiStep' = "out" PROVE ChecksumsShape' /\ SignatureShape'
    BY <1>8 DEF Cut, Damaged
  <1>9. CASE CommandFails \/ Dies \/ OsiStop
    BY <1>8, <1>9 DEF CommandFails, Dies, OsiStop, Leave
  <1>10. QED
    BY <1>1, <1>2, <1>3, <1>4, <1>5, <1>6, <1>7, <1>9 DEF OsiNext, signedVars

(* The invariant of the registry and of the dates.  *)
LEMMA SpecVInv == SignedSpec => []VInv
  <1>1. OsiInit => VInv
    <2> SUFFICES ASSUME OsiInit PROVE VInv
      OBVIOUS
    <2>1. OsiTypeOK
      BY InitIInv, OsiBounds
      DEF IInv, OsiInit, OsiTypeOK, Contents, Nothing, Steps
    <2>2. DatesShape
      BY DEF OsiInit, KeyringInit, DatesShape
    <2>3. ChecksumsShape /\ SignatureShape
      BY DEF OsiInit, ChecksumsShape, SignatureShape, Match, OsiListed, Nothing
    <2>4. QED
      BY <2>1, <2>2, <2>3 DEF VInv
  <1>2. IInv /\ VInv /\ [OsiNext]_signedVars => VInv'
    BY NextTypes, NextDates, NextChecksums DEF VInv
  <1>3. QED
    BY <1>1, <1>2, SpecIInv, PTL DEF SignedSpec

(***************************************************************************)
(* The registry of OS images keeps its types: among others the worker is   *)
(* in a publication while one is in progress (osi.py:80-164).              *)
(***************************************************************************)
THEOREM OsiTypes == SignedSpec => []OsiTypeOK
  <1>1. VInv => OsiTypeOK
    BY DEF VInv
  <1>2. QED
    BY <1>1, SpecVInv, PTL

(***************************************************************************)
(* Whatever publications, renewals and creations were cut, and whichever   *)
(* exports overlapped with them, clients check what is settled with the    *)
(* dates of the key and with checksums that are those of the images        *)
(* (keyring.py:326, osi.py:118-142).                                       *)
(***************************************************************************)
THEOREM VerifiersStayCurrent == SignedSpec => []VerifiersAreCurrent
  <1>1. VInv => VerifiersAreCurrent
    BY DEF VInv, DatesShape, ChecksumsShape, SignatureShape, Match,
       VerifiersAreCurrent, RenewalIsSeen, SettledIsVerifiable
  <1>2. QED
    BY <1>1, SpecVInv, PTL
=============================================================================
