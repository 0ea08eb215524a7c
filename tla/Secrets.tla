------------------------------ MODULE Secrets ------------------------------
(***************************************************************************)
(* Credentials (supra_secrets): the OS keyring when the manager found one, *)
(* an encrypted vault file otherwise.  A write of the vault is a           *)
(* transaction of several steps under a file lock: load and decrypt,       *)
(* encrypt into a fresh temporary file, sync it, rename it over the vault, *)
(* sync the directory.  Processes interleave at these steps, any of them   *)
(* may fail, a process may die, and the machine may lose power and with it *)
(* what was not synced.                                                    *)
(***************************************************************************)
EXTENDS Naturals, FiniteSets

CONSTANTS
  Holders,        \* processes with a manager
  Accounts,       \* (service, account) pairs
  Values,         \* secrets a caller stores
  Passphrases,    \* what the user may type
  Ambient,        \* the passphrase the environment or the provider gives, or "none"
  KeyringFlips,   \* whether a later open may find another backend than an earlier one
  MaxWrites       \* bound: set and delete calls

ASSUME SecretsAssumption ==
  /\ KeyringFlips \in BOOLEAN /\ MaxWrites \in Nat /\ Ambient \in Passphrases \cup {"none"}
  /\ "none" \notin Accounts /\ "free" \notin Holders

VARIABLES
  vault,       \* the file at path as running processes see it
  vault_disk,  \* the file a power loss leaves
  vault_lock,  \* the process holding the transaction lock
  holder,      \* holder[p]: manager and write in progress
  keyring,     \* the OS keyring's entries (external)
  keyring_up,  \* whether the machine has one
  acked,       \* acked[a]: the value the last write reported Ok left
  doubted,      \* doubted[a]: values of writes since that reported an error or died
  writes

secretVars == <<vault, vault_disk, vault_lock, holder, keyring, keyring_up, acked, doubted, writes>>

NoSecret == "none"
Free == "free"
NoRecords == [a \in Accounts |-> NoSecret]
NoVault == [exists |-> FALSE, records |-> NoRecords, key |-> NoSecret, synced |-> TRUE]
IdleHolder == [pc |-> "idle", keyring |-> FALSE, passphrase |-> NoSecret, account |-> NoSecret,
               value |-> NoSecret, temp |-> NoVault]

SecretsTypeOK ==
  /\ vault.records \in [Accounts -> Values \cup {NoSecret}]
  /\ vault_lock \in Holders \cup {Free}
  /\ \A p \in Holders : holder[p].passphrase \in Passphrases \cup {NoSecret}
  /\ \A a \in Accounts : acked[a] \in Values \cup {NoSecret} /\ doubted[a] \subseteq Values \cup {NoSecret}

\* The vault may hold what an earlier session without a keyring wrote.
SecretsInit ==
  /\ vault \in {NoVault} \cup [exists : {TRUE}, records : [Accounts -> Values \cup {NoSecret}],
                              key : Passphrases, synced : {TRUE}]
  /\ vault_disk = vault /\ vault_lock = Free
  /\ holder = [p \in Holders |-> [IdleHolder EXCEPT !.pc = "closed"]]
  /\ keyring_up \in BOOLEAN /\ keyring = NoRecords
  /\ acked = vault.records /\ doubted = [a \in Accounts |-> {}] /\ writes = 0

Sets(p, new) == holder' = [holder EXCEPT ![p] = new]

\* open_with_store: one probe of the keyring decides the backend.
OpenManager(p, available) ==
  /\ holder[p].pc = "closed"
  /\ KeyringFlips \/ available = keyring_up
  /\ Sets(p, [IdleHolder EXCEPT !.keyring = available])
  /\ UNCHANGED <<vault, vault_disk, vault_lock, keyring, acked, doubted, writes>>

\* passphrase: the unlocked one first, then the environment's or the provider's.
passphrase(p) == IF holder[p].passphrase # NoSecret THEN holder[p].passphrase ELSE Ambient

\* unlock, or lock when k is NoSecret.
Unlock(p, k) ==
  /\ holder[p].pc = "idle" /\ holder[p].passphrase # k
  /\ Sets(p, [holder[p] EXCEPT !.passphrase = k])
  /\ UNCHANGED <<vault, vault_disk, vault_lock, keyring, acked, doubted, writes>>

\* load: a short or torn file, a wrong passphrase and no passphrase are errors.
Loads(p) ==
  /\ vault.exists /\ vault.synced
  /\ passphrase(p) # NoSecret /\ passphrase(p) = vault.key

\* get, as a caller would see it now; file_get for the vault's part.
keyring_get(a) == keyring[a]
file_get(a) == IF vault.exists THEN vault.records[a] ELSE NoSecret
get(p, a) == IF holder[p].keyring /\ keyring_get(a) # NoSecret THEN keyring_get(a) ELSE file_get(a)

Ack(a, v) == acked' = [acked EXCEPT ![a] = v] /\ doubted' = [doubted EXCEPT ![a] = {}]
Doubt(a, v) == doubted' = [doubted EXCEPT ![a] = @ \cup {v}] /\ UNCHANGED acked

(***************************************************************************)
(* A write                                                                 *)
(***************************************************************************)
\* keyring_set, and keyring_delete when v is NoSecret; one that fails is no step.
keyring_put(a, v) == keyring' = [keyring EXCEPT ![a] = v]

\* set, or delete when v is NoSecret: the keyring when there is one.  A delete goes
\* on to the vault; until it is done there an older copy is uncovered, the vault's or
\* the one a power loss brings back.
Begin(p, a, v) ==
  /\ holder[p].pc = "idle" /\ writes < MaxWrites
  /\ writes' = writes + 1
  /\ IF holder[p].keyring
     THEN /\ keyring_put(a, v)
          /\ IF v = NoSecret
             THEN /\ Sets(p, [holder[p] EXCEPT !.pc = "lock", !.account = a, !.value = v])
                  /\ doubted' = [doubted EXCEPT ![a] = @ \cup {NoSecret, vault.records[a], vault_disk.records[a]}]
                  /\ UNCHANGED acked
             ELSE Ack(a, v) /\ UNCHANGED holder
     ELSE /\ Sets(p, [holder[p] EXCEPT !.pc = "lock", !.account = a, !.value = v])
          /\ UNCHANGED <<keyring, acked, doubted>>
  /\ UNCHANGED <<vault, vault_disk, vault_lock>>

\* Fault: the transaction is not locked.
LockTransaction_None(p) ==
  /\ holder[p].pc = "lock"
  /\ Sets(p, [holder[p] EXCEPT !.pc = "load"])
  /\ UNCHANGED <<vault, vault_disk, vault_lock, keyring, acked, doubted, writes>>

\* lock_transaction: blocks while another process holds the lock.
LockTransaction(p) ==
  /\ holder[p].pc = "lock" /\ vault_lock = Free
  /\ vault_lock' = p /\ Sets(p, [holder[p] EXCEPT !.pc = "load"])
  /\ UNCHANGED <<vault, vault_disk, keyring, acked, doubted, writes>>

Unlocks(p) == vault_lock' = IF vault_lock = p THEN Free ELSE vault_lock
Done(p) == Sets(p, [holder[p] EXCEPT !.pc = "idle", !.account = NoSecret, !.value = NoSecret, !.temp = NoVault])

\* The write of the vault ends; a set that overtook a delete in the keyring stands.
AckVault(p) == LET a == holder[p].account IN
  Ack(a, IF keyring[a] # NoSecret THEN keyring[a] ELSE holder[p].value)

\* Fault: renamed before its bytes are on disk.
SyncTemp_Missing(p) ==
  /\ holder[p].pc = "temp"
  /\ Sets(p, [holder[p] EXCEPT !.pc = "synced"])
  /\ UNCHANGED <<vault, vault_disk, vault_lock, keyring, acked, doubted, writes>>

\* save: the vault encrypted under k with a fresh salt and nonce, in a file that
\* did not exist before.
Sealed(records, k) == [exists |-> TRUE, records |-> records, key |-> k, synced |-> FALSE]

\* Load, change the record, encrypt under the passphrase, write the temporary
\* file.  A missing vault is an empty one; deleting what is not there answers
\* Ok(false), which promises nothing of the disk.
LoadAndWriteTemp(p) ==
  /\ holder[p].pc = "load" /\ (Loads(p) \/ ~vault.exists)
  /\ LET a == holder[p].account IN
     IF holder[p].value = NoSecret /\ file_get(a) = NoSecret
     THEN Done(p) /\ Unlocks(p) /\ UNCHANGED <<acked, doubted>>
     ELSE /\ passphrase(p) # NoSecret
          /\ Sets(p, [holder[p] EXCEPT !.pc = "temp",
               !.temp = Sealed([vault.records EXCEPT ![a] = holder[p].value], passphrase(p))])
          /\ UNCHANGED <<vault_lock, acked, doubted>>
  /\ UNCHANGED <<vault, vault_disk, keyring, writes>>

SyncTemp(p) ==
  /\ holder[p].pc = "temp"
  /\ Sets(p, [holder[p] EXCEPT !.pc = "synced", !.temp.synced = TRUE])
  /\ UNCHANGED <<vault, vault_disk, vault_lock, keyring, acked, doubted, writes>>

\* Fault: Ok without the directory on disk.
SyncDirectory_Missing(p) ==
  /\ holder[p].pc = "renamed"
  /\ Done(p) /\ Unlocks(p) /\ AckVault(p)
  /\ UNCHANGED <<vault, vault_disk, keyring, writes>>

Rename(p) ==
  /\ holder[p].pc = "synced"
  /\ vault' = holder[p].temp /\ Sets(p, [holder[p] EXCEPT !.pc = "renamed"])
  /\ UNCHANGED <<vault_disk, vault_lock, keyring, acked, doubted, writes>>

SyncDirectory(p) ==
  /\ holder[p].pc = "renamed"
  /\ vault_disk' = vault /\ Done(p) /\ Unlocks(p) /\ AckVault(p)
  /\ UNCHANGED <<vault, keyring, writes>>

\* Any step of the write may fail: an error to the caller, the temporary file
\* removed, the lock released; what was renamed stays.
StepFails(p) ==
  /\ holder[p].pc \in {"load", "temp", "synced", "renamed"}
  /\ Done(p) /\ Unlocks(p) /\ Doubt(holder[p].account, holder[p].value)
  /\ UNCHANGED <<vault, vault_disk, keyring, writes>>

(***************************************************************************)
(* Crashes                                                                 *)
(***************************************************************************)
HolderDies(p) ==
  /\ holder[p].pc # "closed"
  /\ Sets(p, [IdleHolder EXCEPT !.pc = "closed"]) /\ Unlocks(p)
  /\ IF holder[p].account # NoSecret THEN Doubt(holder[p].account, holder[p].value)
     ELSE UNCHANGED <<acked, doubted>>
  /\ UNCHANGED <<vault, vault_disk, keyring, writes>>

\* The rename may or may not have reached the disk; a file that was not synced
\* comes back torn.
VaultPowerLoss ==
  /\ \E f \in {vault, vault_disk} : vault' = f /\ vault_disk' = f
  /\ vault_lock' = Free
  /\ holder' = [p \in Holders |-> [IdleHolder EXCEPT !.pc = "closed"]]
  /\ doubted' = [a \in Accounts |-> doubted[a] \cup
                  {holder[p].value : p \in {q \in Holders : holder[q].account = a}}]
  /\ UNCHANGED <<keyring, acked, writes>>

SecretsNext ==
  /\ UNCHANGED keyring_up
  /\ \/ VaultPowerLoss
     \/ \E p \in Holders :
          \/ \E b \in BOOLEAN : OpenManager(p, b)
          \/ \E k \in Passphrases \cup {NoSecret} : Unlock(p, k)
          \/ \E a \in Accounts : \E v \in Values \cup {NoSecret} : Begin(p, a, v)
          \/ LockTransaction(p) \/ LoadAndWriteTemp(p) \/ SyncTemp(p) \/ Rename(p)
          \/ SyncDirectory(p) \/ StepFails(p) \/ HolderDies(p)

SecretsSpec == SecretsInit /\ [][SecretsNext]_secretVars

(***************************************************************************)
(* Properties                                                              *)
(***************************************************************************)
InFlight(a) == {holder[p].value : p \in {q \in Holders : holder[q].account = a}}

\* Whatever the interleaving, the failures and the crashes, an account reads as
\* the last write that reported Ok left it, or as a later write that did not
\* report; a power loss now keeps it so, and the vault is never torn.
SecretsKept ==
  /\ vault.synced /\ vault_disk.synced
  /\ \A a \in Accounts :
       /\ \A p \in Holders : holder[p].pc # "closed" => get(p, a) \in {acked[a]} \cup doubted[a] \cup InFlight(a)
       /\ keyring[a] = NoSecret => \A f \in {vault, vault_disk} :
            f.records[a] \in {acked[a]} \cup doubted[a] \cup InFlight(a)
=============================================================================
