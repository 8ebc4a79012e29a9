------------------------------ MODULE Keyring ------------------------------
(***************************************************************************)
(* The signing keyring of one instance: classes InstanceKeyring and        *)
(* KeyringMasterKey of src/fatbuildr/keyring.py, with the tasks of         *)
(* tasks/keyring.py and the two D-Bus requests that read it.               *)
(*                                                                         *)
(* A creation writes a passphrase, a master key and a subkey, a renewal    *)
(* extends the two keys: each step is on disk when the next one fails or   *)
(* the daemon is killed.  The key is also in memory, in attributes that    *)
(* the worker and the server thread read and reload without a lock.        *)
(***************************************************************************)
EXTENDS Integers, FiniteSets

CONSTANTS MaxCreations,  \* bound on the number of creations
          MaxRenewals,   \* bound on the number of renewals
          MaxFaults,     \* bound on the number of faults and kills
          None           \* no value

ASSUME KeyringBounds == {MaxCreations, MaxRenewals, MaxFaults} \subseteq Nat

ASSUME KeyringNone == None \notin Nat

VARIABLES
    passphrase, \* the file: which passphrase, and whether it can be written
    keys,       \* the master keys in the GPG home directory
    mem,        \* attributes of masterkey: see Memory
    listed,     \* per thread, the keys that keylist found
    pc,         \* where the two threads are
    creations,  \* history: number of creations
    renewals,   \* history: number of renewals
    created,    \* history: a creation task has succeeded
    overtaken,  \* history: the last load was of keys that had changed
    cuts,       \* history: where tasks were cut
    faults      \* history: number of faults

diskVars == <<passphrase, keys>>
countVars == <<creations, renewals, faults>>
creationVars == <<created, overtaken, cuts>>
keyringVars == <<diskVars, mem, listed, pc, countVars, creationVars>>

Threads == {"server", "worker"}

\* Successive expiry dates.
Expiries == 0..MaxRenewals

\* Passphrase 0 is the empty file.
Passphrases == 0..MaxCreations

Key == [passphrase : Passphrases,
        subkeys : 0..1,
        expires : Expiries,
        subExpires : Expiries]

(***************************************************************************)
(* master: _masterkey is not None.  key and sub: the expiry dates of _key  *)
(* and of subkey._key, which are None until a key is created or loaded.    *)
(***************************************************************************)
Memory == [master : BOOLEAN,
           key : Expiries \cup {None},
           sub : Expiries \cup {None}]

NoMemory == [master |-> FALSE, key |-> None, sub |-> None]

Creating == {"opened", "written", "protected", "generated", "named",
             "subkey", "signing"}

Labels == {"down", "idle", "dead", "renewMaster", "renewSub", "list",
           "assign", "publish"} \cup Creating

KeyringTypeOK ==
    /\ passphrase \in [id : Passphrases,
                       mode : {"absent", "writable", "protected"}]
    /\ keys \subseteq Key
    /\ mem \in Memory
    /\ listed \in [Threads -> SUBSET Key]
    /\ pc \in [Threads -> Labels]
    /\ creations \in 0..MaxCreations
    /\ renewals \in 0..MaxRenewals
    /\ created \in BOOLEAN
    /\ overtaken \in BOOLEAN
    /\ cuts \subseteq Labels
    /\ faults \in 0..MaxFaults

KeyringInit ==
    /\ passphrase = [id |-> 0, mode |-> "absent"]
    /\ keys = {}
    /\ mem = NoMemory
    /\ listed = [p \in Threads |-> {}]
    /\ pc = [p \in Threads |-> "down"]
    /\ creations = 0
    /\ renewals = 0
    /\ created = FALSE
    /\ overtaken = FALSE
    /\ cuts = {}
    /\ faults = 0

Goto(p, label) == pc' = [pc EXCEPT ![p] = label]
Move(p, from, to) == pc[p] = from /\ Goto(p, to)

-----------------------------------------------------------------------------
(* load_from_keyring, by the worker in renew, by the server in export.     *)

\* Mutant: the attributes are reset before the checks.
Loaded_Reset(found, old) ==
    IF found = {} \/ \E k \in found : k.subkeys # 1
    THEN [NoMemory EXCEPT !.master = found # {}]
    ELSE LET k == CHOOSE k \in found : TRUE IN
         [master |-> TRUE, key |-> k.expires, sub |-> k.subExpires]

\* A load that raises has assigned _masterkey already, and nothing more.
Loaded(found, old) ==
    IF found = {} \/ \E k \in found : k.subkeys # 1
    THEN [old EXCEPT !.master = found # {}]
    ELSE LET k == CHOOSE k \in found : TRUE IN
         [master |-> TRUE, key |-> k.expires, sub |-> k.subExpires]

\* gpg lists the keys; what the other thread does next is not seen.
List(p) ==
    /\ Move(p, "list", "assign")
    /\ listed' = [listed EXCEPT ![p] = keys]
    /\ UNCHANGED <<diskVars, mem, countVars, creationVars>>

\* load catches the error of the keyring, export gives it to the client.
Assign(p) ==
    /\ Move(p, "assign", "idle")
    /\ mem' = Loaded(listed[p], mem)
    /\ overtaken' = (listed[p] # keys)
    /\ listed' = [listed EXCEPT ![p] = {}]
    /\ UNCHANGED <<diskVars, countVars, created, cuts>>

\* The server thread starts an export.
Export ==
    /\ Move("server", "idle", "list")
    /\ UNCHANGED <<diskVars, mem, listed, countVars, creationVars>>

\* The daemon loads the keyring of an instance before it starts its threads.
Boot ==
    /\ pc["worker"] = "down"
    /\ pc' = [p \in Threads |-> "idle"]
    /\ mem' = Loaded(keys, NoMemory)
    /\ overtaken' = FALSE
    /\ UNCHANGED <<diskVars, listed, countVars, created, cuts>>

-----------------------------------------------------------------------------
(* create.                                                                 *)

\* A key makes the task fail; a passphrase file that was protected makes open
\* raise PermissionError, which ends the worker.
CreateStart ==
    /\ creations < MaxCreations
    /\ creations' = creations + 1
    /\ \/ keys # {} /\ Move("worker", "idle", "idle") /\ UNCHANGED passphrase
       \/ /\ keys = {} /\ passphrase.mode = "protected"
          /\ Move("worker", "idle", "dead")
          /\ UNCHANGED passphrase
       \/ /\ keys = {} /\ passphrase.mode # "protected"
          /\ Move("worker", "idle", "opened")
          /\ passphrase' = [id |-> 0, mode |-> "writable"]
    /\ UNCHANGED <<keys, mem, listed, renewals, faults, creationVars>>

\* Mutant: the file is created with its final mode.
PassphraseWrite_Protected ==
    /\ Move("worker", "opened", "written")
    /\ passphrase' = [id |-> creations, mode |-> "protected"]
    /\ UNCHANGED <<keys, mem, listed, countVars, creationVars>>

PassphraseWrite ==
    /\ Move("worker", "opened", "written")
    /\ passphrase' = [passphrase EXCEPT !.id = creations]
    /\ UNCHANGED <<keys, mem, listed, countVars, creationVars>>

PassphraseProtect ==
    /\ Move("worker", "written", "protected")
    /\ passphrase' = [passphrase EXCEPT !.mode = "protected"]
    /\ UNCHANGED <<keys, mem, listed, countVars, creationVars>>

\* gpg creates the master key, with the passphrase read from the file.
MasterCreate ==
    /\ Move("worker", "protected", "generated")
    /\ keys' = keys \cup {[passphrase |-> passphrase.id, subkeys |-> 0,
                           expires |-> renewals, subExpires |-> renewals]}
    /\ UNCHANGED <<passphrase, mem, listed, countVars, creationVars>>

MasterAssign ==
    /\ Move("worker", "generated", "named")
    /\ mem' = [mem EXCEPT !.master = TRUE, !.key = renewals]
    /\ UNCHANGED <<diskVars, listed, countVars, creationVars>>

\* The user id is logged, then create_subkey is given the key: both need
\* _masterkey, which an export that listed no key may have reset.
NeedsMaster(from, to) ==
    IF mem.master
    THEN Move("worker", from, to) /\ UNCHANGED cuts
    ELSE Move("worker", from, "dead") /\ cuts' = cuts \cup {from}

MasterRead ==
    /\ NeedsMaster("named", "subkey")
    /\ UNCHANGED <<diskVars, mem, listed, countVars, created, overtaken>>

SubkeyCreate ==
    /\ NeedsMaster("subkey", "signing")
    /\ keys' = IF mem.master THEN {[k EXCEPT !.subkeys = 1] : k \in keys}
               ELSE keys
    /\ UNCHANGED <<passphrase, mem, listed, countVars, created, overtaken>>

SubkeyAssign ==
    /\ Move("worker", "signing", "idle")
    /\ mem' = [mem EXCEPT !.sub = renewals]
    /\ created' = TRUE
    /\ UNCHANGED <<diskVars, listed, countVars, overtaken, cuts>>

-----------------------------------------------------------------------------
(* renew.                                                                  *)

\* Without a key the task fails.
RenewStart ==
    /\ renewals < MaxRenewals
    /\ keys # {}
    /\ renewals' = renewals + 1
    /\ Move("worker", "idle", "renewMaster")
    /\ UNCHANGED <<diskVars, mem, listed, creations, faults, creationVars>>

RenewMaster ==
    /\ Move("worker", "renewMaster", "renewSub")
    /\ keys' = {[k EXCEPT !.expires = renewals] : k \in keys}
    /\ UNCHANGED <<passphrase, mem, listed, countVars, creationVars>>

RenewSub ==
    /\ Move("worker", "renewSub", "list")
    /\ keys' = {[k EXCEPT !.subExpires = renewals] : k \in keys}
    /\ UNCHANGED <<passphrase, mem, listed, countVars, creationVars>>

-----------------------------------------------------------------------------
(* Failures.                                                               *)

MayFault == faults < MaxFaults /\ faults' = faults + 1

\* An error of GPGME is no FatbuildrKeyringError: it ends the worker.
GpgFails ==
    /\ MayFault
    /\ pc["worker"] \in {"protected", "subkey", "renewMaster", "renewSub"}
    /\ cuts' = cuts \cup {pc["worker"]}
    /\ Goto("worker", "dead")
    /\ UNCHANGED <<diskVars, mem, listed, creations, renewals, created,
                   overtaken>>

\* The daemon is killed, or restarted after its worker died.
Stop ==
    /\ pc["worker"] # "down"
    /\ \/ pc["worker"] = "dead" /\ UNCHANGED faults
       \/ pc["worker"] # "dead" /\ MayFault
    /\ cuts' = cuts \cup ({pc["worker"]} \ {"idle", "dead"})
    /\ pc' = [p \in Threads |-> "down"]
    /\ mem' = NoMemory
    /\ listed' = [p \in Threads |-> {}]
    /\ UNCHANGED <<diskVars, creations, renewals, created, overtaken>>

-----------------------------------------------------------------------------
(* load_agent, the start of every publication that signs.                  *)

\* The keygrip of the subkey is read: AttributeError without one.
AgentLoads == mem.sub # None

\* The passphrase opens the key, else the command that signs fails.
AgentSigns == \E k \in keys : k.subkeys = 1 /\ k.passphrase = passphrase.id

-----------------------------------------------------------------------------

KeyringNext ==
    \/ \E p \in Threads : List(p) \/ Assign(p)
    \/ Export
    \/ CreateStart
    \/ PassphraseWrite
    \/ PassphraseProtect
    \/ MasterCreate
    \/ MasterAssign
    \/ MasterRead
    \/ SubkeyCreate
    \/ SubkeyAssign
    \/ RenewStart
    \/ RenewMaster
    \/ RenewSub
    \/ GpgFails

-----------------------------------------------------------------------------
(* Properties.                                                             *)

Whole == Cardinality(keys) = 1 /\ AgentSigns

(***************************************************************************)
(* Once a creation has succeeded the instance can sign for ever: there is  *)
(* one key, the file has its passphrase, and a running daemon knows the    *)
(* subkey, through failed creations, renewals that are cut, restarts, and  *)
(* exports that overlap with any of them (keyring.py:211-263, 329-367).    *)
(***************************************************************************)
CanSignForEver ==
    created => Whole /\ (pc["worker"] # "down" => AgentLoads)

(***************************************************************************)
(* A creation that was cut before it protected the passphrase can be       *)
(* repeated, and only one cut later, once, leaves an instance that has no  *)
(* whole key and cannot create one (keyring.py:219-249).                   *)
(***************************************************************************)
Creatable == keys = {} /\ passphrase.mode # "protected"

CutLate == {"protected", "generated", "named", "subkey"}

CreationCanBeRepeated ==
    pc["worker"] \in {"idle", "down"} =>
        Whole \/ Creatable \/ cuts \cap CutLate # {}

(***************************************************************************)
(* Clients are told the dates of the key: with no task of the keyring under *)
(* way, what is in memory is what is on disk ("reload the keyring to get   *)
(* changes", keyring.py:326).  The exception is an export that lists the   *)
(* keys before a renewal and assigns them after it, until the next load.   *)
(***************************************************************************)
RenewalIsSeen ==
    pc["worker"] = "idle" /\ ~overtaken =>
        \A k \in keys : k.subkeys = 1 =>
            mem.key = k.expires /\ mem.sub = k.subExpires
=============================================================================
