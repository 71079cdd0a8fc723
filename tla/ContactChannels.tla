--------------------------- MODULE ContactChannels -------------------------
(* The contacts and their protected addresses: an address is canonicalised,   *)
(* fingerprinted and encrypted under keys that rotate meanwhile, contacts are *)
(* changed under a version check, and a send recovers the address.            *)
EXTENDS Naturals

CONSTANTS
  Keepers,       \* runs that create, change or read one contact
  Contacts,      \* the ids of the contacts of one account
  Addresses,     \* canonical addresses; each may be written in several ways
  ContactFaults  \* "database": a query fails; "secret": the store does not answer

ASSUME ContactAssumption == "none" \notin Contacts \cup Addresses /\ "malformed" \notin Addresses

VARIABLES
  contactRow,  \* intelligence.contacts
  keyring,     \* the secrets of the fingerprint and of the encryption keys
  keeper       \* the runs

contactVars == <<contactRow, keyring, keeper>>

Rings      == {"hmac", "encryption"}
NoEnvelope == [label |-> 0, key |-> 0]
NoContact  == [status |-> "NONE", verification |-> "NONE", version |-> 0, address |-> "none",
              hmac |-> NoEnvelope, encryption |-> NoEnvelope]

\* Of each ring the secrets are the current version, the keys published under their version,
\* and the alias; key material is known by the version it is meant for.
ContactInit ==
  /\ contactRow = [c \in Contacts |-> NoContact]
  /\ \E early \in SUBSET {1} :
       keyring = [r \in Rings |-> [version |-> 1, published |-> early, alias |-> 1]]
  /\ keeper = [k \in Keepers |-> [pc |-> "idle", contact |-> "none", copy |-> NoContact]]

KeeperTo(k, pc) == keeper' = [keeper EXCEPT ![k].pc = pc]
ContactFault(fault) == fault \in ContactFaults

-----------------------------------------------------------------------------
(* Contact.discover with a protected address.                                 *)

\* Whatever way the address is written, it becomes the canonical one or is refused.
Canonicalize(k) ==
  /\ keeper[k].pc = "idle"
  /\ \E c \in Contacts, address \in Addresses \cup {"malformed"} :
       keeper' = [keeper EXCEPT ![k].contact = c, ![k].copy.address = address,
                    ![k].pc = IF address = "malformed" THEN "thrown" ELSE "hmac version"]
  /\ UNCHANGED <<contactRow, keyring>>

\* ContactChannelProtector reads four secrets one after the other.
VersionRead == [hmac |-> "hmac version", encryption |-> "encryption version"]
KeyRead     == [hmac |-> "hmac key", encryption |-> "encryption key"]
AfterKey    == [hmac |-> "encryption version", encryption |-> "insert"]

ReadVersion(k, r) ==
  /\ keeper[k].pc = VersionRead[r]
  /\ keeper' = [keeper EXCEPT ![k].pc = KeyRead[r], ![k].copy[r].label = keyring[r].version]
  /\ UNCHANGED <<contactRow, keyring>>

\* The key published under the version; the alias when that cannot be read, for whatever
\* reason.
ReadKey(k, r) ==
  LET label == keeper[k].copy[r].label
      Use(key) == keeper' = [keeper EXCEPT ![k].pc = AfterKey[r], ![k].copy[r].key = key]
  IN  /\ keeper[k].pc = KeyRead[r]
      /\ \/ label \in keyring[r].published /\ Use(label)
         \/ (label \notin keyring[r].published \/ ContactFault("secret")) /\ Use(keyring[r].alias)
      /\ UNCHANGED <<contactRow, keyring>>

\* The index on the fingerprint: the same address under the same key and version.
Fingerprint(row) == <<row.hmac, row.address>>
IsDuplicate(c, row) ==
  \/ contactRow[c] # NoContact
  \/ \E d \in Contacts : contactRow[d] # NoContact /\ Fingerprint(contactRow[d]) = Fingerprint(row)

\* What the constructor makes of it; its first event gives it version 1.
Discovered(row) ==
  [row EXCEPT !.status = "DISCOVERED", !.verification = "UNVERIFIED", !.version = 1]

InsertContact(k) ==
  LET c == keeper[k].contact
  IN  /\ keeper[k].pc = "insert"
      /\ IF IsDuplicate(c, keeper[k].copy)
         THEN KeeperTo(k, "thrown") /\ UNCHANGED contactRow
         ELSE /\ contactRow' = [contactRow EXCEPT ![c] = Discovered(keeper[k].copy)]
              /\ KeeperTo(k, "done")
      /\ UNCHANGED keyring

-----------------------------------------------------------------------------
(* A change: load, apply, save.                                               *)

LoadContact(k) ==
  /\ keeper[k].pc = "idle"
  /\ \E c \in Contacts :
       /\ contactRow[c] # NoContact
       /\ keeper' = [keeper EXCEPT ![k].pc = "apply", ![k].contact = c, ![k].copy = contactRow[c]]
  /\ UNCHANGED <<contactRow, keyring>>

\* What each operation of the aggregate makes of it; all but suppress refuse a suppressed one.
Changed(row, operation) ==
  [row EXCEPT !.status = IF operation = "suppress" THEN "SUPPRESSED"
                         ELSE IF operation = "validate" THEN "VALIDATED"
                         ELSE IF operation = "enrich" /\ @ = "DISCOVERED" THEN "ENRICHED" ELSE @,
              !.verification = IF operation = "verify" THEN "VERIFIED"
                               ELSE IF operation = "bounce" THEN "BOUNCED" ELSE @]
Operations == {"enrich", "validate", "verify", "bounce", "suppress"}

ApplyChange(k) ==
  LET copy == keeper[k].copy
  IN  /\ keeper[k].pc = "apply"
      /\ \E operation \in Operations :
           keeper' = IF copy.status = "SUPPRESSED" /\ operation # "suppress"
                     THEN [keeper EXCEPT ![k].pc = "thrown"]
                     ELSE [keeper EXCEPT ![k].pc = "save", ![k].copy = Changed(copy, operation)]
      /\ UNCHANGED <<contactRow, keyring>>

\* UPDATE .. WHERE contact_version = the version loaded.
\* Variant: the version in the row is not compared.
Unstale_Always(k) == contactRow[keeper[k].contact].version >= keeper[k].copy.version
Unstale(k) == contactRow[keeper[k].contact].version = keeper[k].copy.version

UpdateContact(k) ==
  LET copy == keeper[k].copy
  IN  /\ keeper[k].pc = "save"
      /\ IF Unstale(k)
         THEN /\ contactRow' = [contactRow EXCEPT ![keeper[k].contact] =
                   [copy EXCEPT !.version = @ + 1]]
              /\ KeeperTo(k, "done")
         ELSE KeeperTo(k, "thrown") /\ UNCHANGED contactRow
      /\ UNCHANGED keyring

-----------------------------------------------------------------------------
(* A send recovers the address.                                               *)

\* The contact's status is not looked at.
FindRecipient(k) ==
  /\ keeper[k].pc = "idle"
  /\ \E c \in Contacts :
       /\ contactRow[c] # NoContact
       /\ keeper' = [keeper EXCEPT ![k].pc = "recover", ![k].contact = c, ![k].copy = contactRow[c]]
  /\ UNCHANGED <<contactRow, keyring>>

\* No alias here, and a key other than the one that encrypted does not authenticate.
Recoverable(row) ==
  row.encryption.label \in keyring.encryption.published /\ row.encryption.key = row.encryption.label

RecoverAddress(k) ==
  /\ keeper[k].pc = "recover"
  /\ KeeperTo(k, IF Recoverable(keeper[k].copy) THEN "recovered" ELSE "thrown")
  /\ UNCHANGED <<contactRow, keyring>>

KeeperThrows(k) ==
  /\ \/ /\ keeper[k].pc \in {VersionRead[r] : r \in Rings} \cup {KeyRead[r] : r \in Rings} \cup {"recover"}
        /\ ContactFault("secret")
     \/ keeper[k].pc \in {"insert", "apply", "save"} /\ ContactFault("database")
  /\ KeeperTo(k, "thrown")
  /\ UNCHANGED <<contactRow, keyring>>

-----------------------------------------------------------------------------

\* One rotation of each ring, the secrets changed one by one; a version becomes the current
\* one after its key is published.
Rotate(r) ==
  /\ \/ \E v \in 1..2 \ keyring[r].published : keyring' = [keyring EXCEPT ![r].published = @ \cup {v}]
     \/ 2 \in keyring[r].published /\ keyring[r].version = 1 /\ keyring' = [keyring EXCEPT ![r].version = 2]
     \/ keyring[r].alias = 1 /\ keyring' = [keyring EXCEPT ![r].alias = 2]
  /\ UNCHANGED <<contactRow, keeper>>

ContactNext ==
  \/ \E k \in Keepers :
       \/ Canonicalize(k) \/ InsertContact(k) \/ LoadContact(k) \/ ApplyChange(k)
       \/ UpdateContact(k) \/ FindRecipient(k) \/ RecoverAddress(k) \/ KeeperThrows(k)
       \/ \E r \in Rings : ReadVersion(k, r) \/ ReadKey(k, r)
  \/ \E r \in Rings : Rotate(r)

ContactSpec == ContactInit /\ [][ContactNext]_contactVars

-----------------------------------------------------------------------------

\* A contact once suppressed stays suppressed, with the verification it had, although a run
\* that loaded it before may save after (contact.ts:97-101,
\* postgres-contact-repository.ts:275-282).
SuppressionStands ==
  [][\A c \in Contacts :
       contactRow[c].status = "SUPPRESSED" =>
         /\ contactRow'[c].status = "SUPPRESSED"
         /\ contactRow'[c].verification = contactRow[c].verification]_contactVars
=============================================================================
