--------------------------- MODULE EncryptedConfig ---------------------------
(***************************************************************************)
(* core/encryption.py and core/config_encryption.py with the loader of the *)
(* connector: the secrets of config.yaml, encrypted by the command line    *)
(* (migrate_to_encrypted) into a second file that the operator puts in its *)
(* place, and decrypted by the connector when it starts.  Both take their  *)
(* key from one file, encryption.key, or salt.bin if there is a master     *)
(* password, and both make that file if it is missing.  A process may be   *)
(* killed at any point.                                                    *)
(***************************************************************************)
EXTENDS Naturals, Sequences, SequencesExt

CONSTANTS
  Secrets,   \* fields with a sensitive name and a string for a value
  Others,    \* fields that are not encrypted, lists under a sensitive name included
  MaxRuns, MaxKeys, MaxFaults \* bounds: runs of the processes, keys made, faults

CryptAssumption == {MaxRuns, MaxKeys, MaxFaults} \subseteq Nat

Fields == Secrets \union Others
Processes == {"connector", "tool"}

VARIABLES
  password, \* whether the key is derived from a password and the file's salt
  material, \* that file: absent, emptied by open(..., 'wb'), or with a key
  cipher,   \* the key a process keeps, 0 before its first use
  at,       \* what each process is doing
  making,   \* the key each process makes
  content,  \* the fields as each process has them
  todo,     \* the fields each process has still to encrypt or decrypt
  config, draft, \* config.yaml and config.encrypted.yaml
  raced,    \* history: a process found the key file missing while the other made it
  runs, keys, faults

cryptVars == <<password, material, cipher, at, making, content, todo, config, draft, raced,
               runs, keys, faults>>
files == <<config, draft>>

(* The value of a field: what the keys around it protect. *)
Value == [is : {"plain", "reference"}, under : Seq(1 .. MaxKeys)]
Contents == [Fields -> Value]
Key(n) == [is |-> "whole", key |-> n]
Absent == [is |-> "absent", key |-> 0]
Emptied == [is |-> "emptied", key |-> 0]

Init ==
  /\ password \in BOOLEAN
  /\ material = Absent
  /\ cipher = [p \in Processes |-> 0] /\ making = cipher
  /\ at = [p \in Processes |-> "gone"]
  /\ config \in [Fields -> [is : {"plain", "reference"}, under : {<<>>}]]
  /\ draft = [is |-> "absent", fields |-> config]
  /\ content = [p \in Processes |-> config]
  /\ todo = [p \in Processes |-> {}]
  /\ raced = FALSE /\ runs = 0 /\ keys = 0 /\ faults = 0

Fault == faults < MaxFaults /\ faults' = faults + 1
Goes(p, to) == at' = [at EXCEPT ![p] = to]
Other(p) == CHOOSE q \in Processes : q # p
Making(p) == at[p] \in {"making", "writing"}
------------------------------------------------------------------------------
IsEncrypted(v) == v.under # <<>>

(* encrypt_config and encrypt_value: references stay as they are. *)
ToEncrypt(c) == {f \in Secrets : c[f].is = "plain" /\ ~IsEncrypted(c[f])}

ToDecrypt(c) == {f \in Fields : IsEncrypted(c[f])}

(* load_config: the command line migrates, the connector decrypts. *)
Begin(p) ==
  /\ at[p] = "gone" /\ runs < MaxRuns /\ runs' = runs + 1
  /\ content' = [content EXCEPT ![p] = config]
  /\ todo' = [todo EXCEPT ![p] = IF p = "tool" THEN ToEncrypt(config) ELSE ToDecrypt(config)]
  /\ Goes(p, "working")
  /\ UNCHANGED <<password, material, cipher, making, files, raced, keys, faults>>

(* The next field, with the key at hand. *)
Applied(p, v) ==
  IF p = "tool" THEN [v EXCEPT !.under = Append(@, cipher[p])]
  ELSE IF Last(v.under) = cipher[p] THEN [v EXCEPT !.under = Front(@)] ELSE v

Crypt(p, f) ==
  /\ at[p] = "working" /\ cipher[p] # 0 /\ f \in todo[p]
  /\ content' = [content EXCEPT ![p][f] = Applied(p, @)]
  /\ todo' = [todo EXCEPT ![p] = @ \ {f}]
  /\ UNCHANGED <<password, material, cipher, at, making, files, raced, runs, keys, faults>>

(* EncryptionError: the field keeps the value it has. *)
Keeps(p, f) == f \in todo[p] /\ todo' = [todo EXCEPT ![p] = @ \ {f}]

(* _get_or_create_key, _get_or_create_salt. *)
ReadKey(p) ==
  /\ at[p] = "working" /\ cipher[p] = 0 /\ todo[p] # {}
  /\ material.is = "whole"
  /\ cipher' = [cipher EXCEPT ![p] = material.key]
  /\ UNCHANGED <<password, material, at, making, content, todo, files, raced, runs, keys, faults>>

(* A short salt is replaced; a short key is no key. *)
ReadEmptied(p, f) ==
  /\ at[p] = "working" /\ cipher[p] = 0 /\ material.is = "emptied"
  /\ ~password /\ Keeps(p, f)
  /\ UNCHANGED <<password, material, cipher, at, making, content, files, raced, runs, keys, faults>>

Make(p) ==
  /\ at[p] = "working" /\ cipher[p] = 0 /\ todo[p] # {} /\ keys < MaxKeys
  /\ keys' = keys + 1 /\ making' = [making EXCEPT ![p] = keys']
  /\ Goes(p, "making")
  /\ raced' = (raced \/ Making(Other(p)))
  /\ UNCHANGED <<password, material, cipher, content, todo, files, runs>>

Missing(p) ==
  /\ \/ material.is = "absent"
     \/ password /\ material.is = "emptied"
  /\ Make(p) /\ UNCHANGED faults

(* A file that cannot be read is replaced as well. *)
Unreadable(p) == material.is = "whole" /\ Make(p) /\ Fault

OpenKeyFile(p) ==
  /\ at[p] = "making" /\ Goes(p, "writing")
  /\ material' = Emptied
  /\ UNCHANGED <<password, cipher, making, content, todo, files, raced, runs, keys, faults>>

WriteKeyFile(p) ==
  /\ at[p] = "writing" /\ Goes(p, "working")
  /\ material' = Key(making[p])
  /\ cipher' = [cipher EXCEPT ![p] = making[p]]
  /\ UNCHANGED <<password, making, content, todo, files, raced, runs, keys, faults>>

(* A key that cannot be saved is used nevertheless, a salt is not. *)
SaveFails(p, f) ==
  /\ at[p] = "making" /\ Goes(p, "working") /\ Fault
  /\ IF password
     THEN Keeps(p, f) /\ UNCHANGED cipher
     ELSE f \in todo[p] /\ cipher' = [cipher EXCEPT ![p] = making[p]] /\ UNCHANGED todo
  /\ UNCHANGED <<password, material, making, content, files, raced, runs, keys>>

(* save_config empties the file, then dumps all of it. *)
OpenDraft ==
  /\ at["tool"] = "working" /\ todo["tool"] = {} /\ Goes("tool", "saving")
  /\ draft' = [draft EXCEPT !.is = "emptied"]
  /\ UNCHANGED <<password, material, cipher, making, content, todo, config, raced, runs, keys, faults>>

Gone(p) ==
  /\ Goes(p, "gone")
  /\ cipher' = [cipher EXCEPT ![p] = 0] /\ todo' = [todo EXCEPT ![p] = {}]
  /\ making' = [making EXCEPT ![p] = 0]

SaveDraft ==
  /\ at["tool"] = "saving"
  /\ draft' = [is |-> "whole", fields |-> content["tool"]]
  /\ Gone("tool")
  /\ UNCHANGED <<password, material, content, config, raced, runs, keys, faults>>

Loaded ==
  /\ at["connector"] = "working" /\ todo["connector"] = {} /\ Goes("connector", "running")
  /\ UNCHANGED <<password, material, cipher, making, content, todo, files, raced, runs, keys, faults>>

Killed(p) ==
  /\ at[p] # "gone" /\ Gone(p)
  /\ UNCHANGED <<password, material, content, files, raced, runs, keys, faults>>

(* "Verify the encrypted configuration works, then replace the original" *)
Replace ==
  /\ draft.is = "whole" /\ config' = draft.fields
  /\ draft' = [draft EXCEPT !.is = "absent"]
  /\ UNCHANGED <<password, material, cipher, at, making, content, todo, raced, runs, keys, faults>>

Next ==
  \/ \E p \in Processes :
       \/ Begin(p) \/ ReadKey(p) \/ Missing(p) \/ Unreadable(p)
       \/ OpenKeyFile(p) \/ WriteKeyFile(p) \/ Killed(p)
       \/ \E f \in Fields : Crypt(p, f) \/ ReadEmptied(p, f) \/ SaveFails(p, f)
  \/ OpenDraft \/ SaveDraft \/ Loaded \/ Replace

Spec == Init /\ [][Next]_cryptVars
------------------------------------------------------------------------------
TypeOK ==
  /\ password \in BOOLEAN /\ raced \in BOOLEAN
  /\ material.is \in {"absent", "emptied", "whole"} /\ material.key \in 0 .. MaxKeys
  /\ config \in Contents /\ draft.fields \in Contents
  /\ draft.is \in {"absent", "emptied", "whole"}
  /\ \A p \in Processes :
       /\ at[p] \in {"gone", "working", "making", "writing", "saving", "running"}
       /\ cipher[p] \in 0 .. MaxKeys /\ making[p] \in 0 .. MaxKeys
       /\ content[p] \in Contents /\ todo[p] \subseteq Fields
  /\ runs \in 0 .. MaxRuns /\ keys \in 0 .. MaxKeys /\ faults \in 0 .. MaxFaults

(* No value is encrypted twice, whatever goes wrong; and as long as the    *)
(* key file could be read and written and no two processes made it at the  *)
(* same time, what is encrypted is so under the key that is in the file,   *)
(* wherever the processes were killed.                                     *)
Readable(c) == \A f \in Fields : c[f].under \in {<<>>, <<material.key>>}

SecretsStayReadable ==
  /\ \A f \in Fields : Len(config[f].under) <= 1
  /\ faults = 0 /\ ~raced =>
       /\ Readable(config) /\ (draft.is = "whole" => Readable(draft.fields))
       /\ at["connector"] = "running" =>
            \A f \in Fields : content["connector"][f].under = <<>>

EncryptionSound == TypeOK /\ SecretsStayReadable
=============================================================================
