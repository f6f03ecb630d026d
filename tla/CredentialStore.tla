-------------------------- MODULE CredentialStore --------------------------
(***************************************************************************)
(* core/credential_manager.py: one encrypted file of credentials and one   *)
(* salt, used by several processes (the connector, whose handlers make a   *)
(* manager for each request, and the command line tool).  Nothing locks    *)
(* either file.  The key is derived from password and salt, so it is the   *)
(* pair of the two.                                                        *)
(***************************************************************************)
EXTENDS Naturals, FiniteSets

CONSTANTS
    Process, Passwords, Keys, Values,
    NoFile, Nothing,
    MaxManagers, MaxUpdates, MaxCrashes      \* bounds of the model

StoreAssumption ==
    /\ Nothing \notin Values \cup Passwords
    /\ MaxManagers \in Nat
    /\ NoFile \notin Nat
    /\ NoFile \notin [key : {Nothing} \cup (Passwords \X (0..MaxManagers)),
                     map : [Keys -> Values \cup {Nothing}]]

VARIABLES
    saltFile,     \* salt.txt: NoFile, 0 when empty, or the number of the salt
    file,         \* credentials.enc: NoFile, or the key it was encrypted with and
                  \* the value of each credential; a file that is not whole has key Nothing
    manager,      \* for each process its CredentialManager and the call it is in
    expected,     \* history: what the updates since the last deletion have set
    clash,        \* history: two calls overlapped, or one died in the middle
    salts, updates, crashes

vars == <<saltFile, file, manager, expected, clash, salts, updates, crashes>>

None == [k \in Keys |-> Nothing]
Truncated == [key |-> Nothing, map |-> None]

Absent == [at |-> "absent", password |-> Nothing, salt |-> 0, loaded |-> None]

Init ==
    /\ saltFile = NoFile /\ file = NoFile
    /\ manager = [p \in Process |-> Absent]
    /\ expected = None /\ clash = FALSE
    /\ salts = 0 /\ updates = 0 /\ crashes = 0

Busy(p) == manager[p].at \notin {"absent", "ready"}

Overlap(p) == clash \/ \E q \in Process \ {p} : Busy(q)

(* An empty salt file decodes to the empty salt, which is as good as any.  *)
LoadSalt(p, password) ==
    /\ saltFile # NoFile
    /\ manager' = [manager EXCEPT ![p] =
           [Absent EXCEPT !.at = "ready", !.password = password, !.salt = saltFile]]
    /\ clash' = Overlap(p)
    /\ UNCHANGED <<saltFile, salts>>

(* open(..., 'w') empties the file before the salt is written.             *)
CreateSalt(p, password) ==
    /\ saltFile = NoFile
    /\ salts < MaxManagers
    /\ salts' = salts + 1
    /\ manager' = [manager EXCEPT ![p] =
           [Absent EXCEPT !.at = "salting", !.password = password, !.salt = salts']]
    /\ clash' = Overlap(p)
    /\ UNCHANGED saltFile

NewManager(p, password) ==
    /\ manager[p].at = "absent"
    /\ LoadSalt(p, password) \/ CreateSalt(p, password)
    /\ UNCHANGED <<file, expected, updates, crashes>>

OpenSalt(p) ==
    /\ manager[p].at = "salting"
    /\ saltFile' = 0
    /\ manager' = [manager EXCEPT ![p].at = "salt open"]
    /\ clash' = Overlap(p)
    /\ UNCHANGED <<file, expected, salts, updates, crashes>>

WriteSalt(p) ==
    /\ manager[p].at = "salt open"
    /\ saltFile' = manager[p].salt
    /\ manager' = [manager EXCEPT ![p].at = "ready"]
    /\ clash' = Overlap(p)
    /\ UNCHANGED <<file, expected, salts, updates, crashes>>

KeyOf(p) == <<manager[p].password, manager[p].salt>>

Readable(p) == file # NoFile /\ file.key = KeyOf(p)

(* Faulty version: what is stored is not read before it is written.        *)
LoadCredentials_Never(p) == None

(* load_credentials answers None for a file that is not there, not whole   *)
(* or encrypted with another key; `or {}` makes that an empty dictionary.  *)
LoadCredentials(p) == IF Readable(p) THEN file.map ELSE None

(* update_credential.  Without a master password nothing is stored.        *)
UpdateCredential(p, k, v) ==
    /\ manager[p].at = "ready" /\ manager[p].password # Nothing
    /\ updates < MaxUpdates
    /\ updates' = updates + 1
    /\ manager' = [manager EXCEPT ![p].at = "storing",
                       ![p].loaded = [LoadCredentials(p) EXCEPT ![k] = v]]
    /\ expected' = [expected EXCEPT ![k] = v]
    /\ clash' = (Overlap(p) \/ (file # NoFile /\ ~Readable(p)))
    /\ UNCHANGED <<saltFile, file, salts, crashes>>

OpenFile(p) ==
    /\ manager[p].at = "storing"
    /\ file' = Truncated
    /\ manager' = [manager EXCEPT ![p].at = "file open"]
    /\ clash' = Overlap(p)
    /\ UNCHANGED <<saltFile, expected, salts, updates, crashes>>

(* Two calls that have the file open write over one another: what is left  *)
(* of a longer text makes the file unreadable.  A file that was unlinked   *)
(* while it was open takes what is written with it.                        *)
WriteFile(p) ==
    /\ manager[p].at \in {"file open", "unlinked"}
    /\ IF manager[p].at = "unlinked" THEN file' = file
       ELSE file' \in {[key |-> KeyOf(p), map |-> manager[p].loaded]}
                      \cup (IF file = Truncated THEN {} ELSE {Truncated})
    /\ manager' = [manager EXCEPT ![p].at = "ready", ![p].loaded = None]
    /\ clash' = Overlap(p)
    /\ UNCHANGED <<saltFile, expected, salts, updates, crashes>>

DeleteCredentials(p) ==
    /\ manager[p].at = "ready"
    /\ file' = NoFile
    /\ expected' = None
    /\ manager' = [q \in Process |->
           IF manager[q].at = "file open" THEN [manager[q] EXCEPT !.at = "unlinked"]
           ELSE manager[q]]
    /\ clash' = Overlap(p)
    /\ UNCHANGED <<saltFile, salts, updates, crashes>>

Finish(p) ==
    /\ manager[p].at = "ready"
    /\ manager' = [manager EXCEPT ![p] = Absent]
    /\ UNCHANGED <<saltFile, file, expected, clash, salts, updates, crashes>>

Crash(p) ==
    /\ Busy(p)
    /\ crashes < MaxCrashes
    /\ crashes' = crashes + 1
    /\ manager' = [manager EXCEPT ![p] = Absent]
    /\ clash' = (clash \/ manager[p].at \in {"storing", "file open", "unlinked"})
    /\ UNCHANGED <<saltFile, file, expected, salts, updates>>

Next ==
    \/ \E p \in Process, w \in Passwords \cup {Nothing} : NewManager(p, w)
    \/ \E p \in Process, k \in Keys, v \in Values : UpdateCredential(p, k, v)
    \/ \E p \in Process : OpenSalt(p)
    \/ \E p \in Process : WriteSalt(p)
    \/ \E p \in Process : OpenFile(p)
    \/ \E p \in Process : WriteFile(p)
    \/ \E p \in Process : DeleteCredentials(p)
    \/ \E p \in Process : Finish(p)
    \/ \E p \in Process : Crash(p)

Spec == Init /\ [][Next]_vars

-----------------------------------------------------------------------------

TypeOK ==
    /\ saltFile \in 0..MaxManagers \cup {NoFile}
    /\ file # NoFile => file.key = Nothing \/ file.key[1] \in Passwords
    /\ \A p \in Process : manager[p].at \in
           {"absent", "salting", "salt open", "ready", "storing", "file open", "unlinked"}

(* Nothing stored is lost: while nobody is writing, a file holds exactly   *)
(* what the updates have set and the salt is the one it was encrypted      *)
(* with, so the password still opens it, unless two calls overlapped, a    *)
(* call died in the middle, or an update used another password and started *)
(* from an empty dictionary.                                               *)
CredentialsSurvive ==
    ~clash /\ file # NoFile /\ (\A p \in Process : ~Busy(p))
        => file.map = expected /\ file.key[2] = saltFile

CredentialsSound == TypeOK /\ CredentialsSurvive
=============================================================================
