-------------------------- MODULE CertificateStore --------------------------
(***************************************************************************)
(* core/tls_manager.py and the start of web/web_server.py: the two files   *)
(* server.key and server.crt, made one after the other by the connector    *)
(* when it starts or by the module's command line (--generate), killed at  *)
(* any point, with writes that fail and a key file that is removed; and    *)
(* the context the web server then starts with, or plain HTTP if there is  *)
(* none.  Certificates the operator configures are external and good.      *)
(***************************************************************************)
EXTENDS Naturals

CONSTANTS
  Validity,  \* days a new certificate is valid
  Soon,      \* expiring_soon: fewer days than this are left
  MaxDays, MaxPairs, MaxFaults \* bounds: days, pairs made, faults

CertificateAssumption == {Validity, Soon, MaxDays, MaxPairs, MaxFaults} \subseteq Nat

Processes == {"server", "tool"}

VARIABLES
  tls,     \* tls.enabled, and whether certificate files are configured
  key,     \* server.key: absent, emptied by open(..., 'wb'), or of a pair
  cert,    \* server.crt; until: not_valid_after
  at,      \* what each process is doing
  making,  \* the pair each process makes
  web,     \* the web server: down, or what it speaks
  trouble, \* history: a write failed, the key was removed, or the command line was
           \* killed or ran while the connector started
  day, pairs, faults

tlsVars == <<tls, key, cert, at, making, web, trouble, day, pairs, faults>>

Absent == [is |-> "absent", pair |-> 0, until |-> 0]
Emptied == [is |-> "emptied", pair |-> 0, until |-> 0]
Whole(p, d) == [is |-> "whole", pair |-> p, until |-> d]

Init ==
  /\ tls \in [enabled : BOOLEAN, configured : BOOLEAN]
  /\ key = Absent /\ cert = Absent
  /\ at = [p \in Processes |-> "idle"] /\ making = [p \in Processes |-> 0]
  /\ web = "down"
  /\ trouble = FALSE /\ day = 0 /\ pairs = 0 /\ faults = 0

Fault == faults < MaxFaults /\ faults' = faults + 1 /\ trouble' = TRUE
NoFault == UNCHANGED <<trouble, faults>>
Goes(p, to) == at' = [at EXCEPT ![p] = to]
Generating(p) == at[p] \in {"generated", "key opened", "key written", "cert opened"}
------------------------------------------------------------------------------
(* validate_certificate on a whole file. *)
Valid(c) == c.is = "whole" /\ day <= c.until
ExpiringSoon(c) == c.until - day < Soon

(* create_ssl_context: the files must exist, parse and belong together. *)
Usable == key.is = "whole" /\ cert.is = "whole" /\ key.pair = cert.pair

Start ==
  /\ web = "down" /\ at["server"] = "idle"
  /\ IF tls.enabled /\ ~tls.configured
     THEN Goes("server", "checking") /\ UNCHANGED web
     ELSE /\ web' = IF tls.enabled THEN "https" ELSE "http"
          /\ UNCHANGED at
  /\ trouble' = (trouble \/ at["tool"] # "idle")
  /\ UNCHANGED <<tls, key, cert, making, day, pairs, faults>>

(* get_or_create_certificate looks at the certificate, not at the key. *)
GetOrCreateCertificate ==
  /\ at["server"] = "checking"
  /\ Goes("server", IF /\ "absent" \notin {key.is, cert.is}
                       /\ Valid(cert) /\ ~ExpiringSoon(cert)
                    THEN "loading" ELSE "generating")
  /\ UNCHANGED <<tls, key, cert, making, web, day, pairs>> /\ NoFault

(* python tls_manager.py --generate, at any time. *)
Generate ==
  /\ at["tool"] = "idle" /\ Goes("tool", "generating")
  /\ trouble' = (trouble \/ at["server"] # "idle")
  /\ UNCHANGED <<tls, key, cert, making, web, day, pairs, faults>>

(* generate_self_signed_cert: a pair in memory, the key file, the          *)
(* certificate file; each file is emptied before it is written.            *)
GenerateKey(p) ==
  /\ at[p] = "generating" /\ pairs < MaxPairs
  /\ pairs' = pairs + 1 /\ making' = [making EXCEPT ![p] = pairs']
  /\ Goes(p, "generated")
  /\ UNCHANGED <<tls, key, cert, web, day>> /\ NoFault

OpenKey(p) ==
  /\ at[p] = "generated" /\ Goes(p, "key opened")
  /\ key' = Emptied
  /\ UNCHANGED <<tls, cert, making, web, day, pairs>> /\ NoFault

WriteKey(p) ==
  /\ at[p] = "key opened" /\ Goes(p, "key written")
  /\ key' = Whole(making[p], 0)
  /\ UNCHANGED <<tls, cert, making, web, day, pairs>> /\ NoFault

OpenCert(p) ==
  /\ at[p] = "key written" /\ Goes(p, "cert opened")
  /\ cert' = Emptied
  /\ UNCHANGED <<tls, key, making, web, day, pairs>> /\ NoFault

Written(p) == Goes(p, IF p = "server" THEN "loading" ELSE "idle")

WriteCert(p) ==
  /\ at[p] = "cert opened" /\ Written(p)
  /\ cert' = Whole(making[p], day + Validity)
  /\ UNCHANGED <<tls, key, making, web, day, pairs>> /\ NoFault

(* TLSError: the connector falls back to HTTP, the command line ends. *)
GenerateFails(p) ==
  /\ Generating(p) /\ Fault
  /\ Goes(p, "idle")
  /\ web' = IF p = "server" THEN "http" ELSE web
  /\ UNCHANGED <<tls, key, cert, making, day, pairs>>

CreateSslContext ==
  /\ at["server"] = "loading" /\ Goes("server", "idle")
  /\ web' = IF Usable THEN "https" ELSE "http"
  /\ UNCHANGED <<tls, key, cert, making, day, pairs>> /\ NoFault

(* The connector is stopped or killed: what it writes stays as it is. *)
ServerEnds ==
  /\ web # "down" \/ at["server"] # "idle"
  /\ web' = "down" /\ Goes("server", "idle")
  /\ UNCHANGED <<tls, key, cert, making, day, pairs>> /\ NoFault

ToolKilled ==
  /\ Generating("tool") /\ Fault
  /\ Goes("tool", "idle")
  /\ UNCHANGED <<tls, key, cert, making, web, day, pairs>>

KeyRemoved ==
  /\ key # Absent /\ Fault
  /\ key' = Absent
  /\ UNCHANGED <<tls, cert, at, making, web, day, pairs>>

Tick ==
  /\ day < MaxDays /\ day' = day + 1
  /\ UNCHANGED <<tls, key, cert, at, making, web, pairs>> /\ NoFault

Next ==
  \/ Start \/ GetOrCreateCertificate \/ CreateSslContext \/ ServerEnds
  \/ Generate \/ ToolKilled \/ KeyRemoved \/ Tick
  \/ \E p \in Processes :
       \/ GenerateKey(p) \/ OpenKey(p) \/ WriteKey(p) \/ OpenCert(p) \/ WriteCert(p)
       \/ GenerateFails(p)

Spec == Init /\ [][Next]_tlsVars
------------------------------------------------------------------------------
Pairs == 0 .. MaxPairs
Files == [is : {"absent", "emptied", "whole"}, pair : Pairs, until : 0 .. MaxDays + Validity]

TypeOK ==
  /\ {key, cert} \subseteq Files
  /\ \A p \in Processes :
       /\ at[p] \in {"idle", "checking", "generating", "generated", "key opened",
                     "key written", "cert opened", "loading"}
       /\ making[p] \in Pairs
  /\ web \in {"down", "http", "https"} /\ trouble \in BOOLEAN
  /\ day \in 0 .. MaxDays /\ pairs \in Pairs /\ faults \in 0 .. MaxFaults

(* However often the connector is killed between its two writes, a         *)
(* connector with TLS comes up without it only after one of the troubles   *)
(* above: a certificate that would be kept has its own key beside it.      *)
PlainOnlyAfterTrouble ==
  tls.enabled /\ ~trouble =>
    /\ web # "http"
    /\ at["tool"] = "idle" /\ ~Generating("server") /\ Valid(cert) /\ ~ExpiringSoon(cert)
         => Usable

CertificatesSound == TypeOK /\ PlainOnlyAfterTrouble
=============================================================================
