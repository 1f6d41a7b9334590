-------------------------------- MODULE Pki --------------------------------
(***************************************************************************)
(* services/pki-service: certificate authorities and the certificates they *)
(* issue.  Issuing takes a read of the CA, an UPDATE ... RETURNING of its  *)
(* serial counter, the signature and an INSERT, each a step of its own.    *)
(***************************************************************************)
EXTENDS Naturals, FiniteSets

CONSTANTS
  Calls,       \* requests in flight at one time
  RowIds,      \* ids of the rows of each table; certificates are never deleted
  Passwords,   \* values of the key-encryption secret of a deployment
  MaxSerial    \* a bound of the model: certificates asked of one CA

VARIABLES
  authorities,   \* rows of certificate_authorities
  certificates,  \* rows of certificates
  pkiCall,       \* requests in flight
  encKey,        \* Handler.encKey of the running process
  signed         \* observed only: how often a CA has signed a serial number

pkiVars == <<authorities, certificates, pkiCall, encKey, signed>>

\* A key pair is named by the row it was made for.
Sealed == [key : RowIds, under : Passwords]
CA == [id : RowIds, keyPEM : Sealed, serial : 0 .. MaxSerial, deleted : BOOLEAN]
Cert == [id : RowIds, ca : RowIds, serial : 1 .. MaxSerial, status : {"active", "revoked"}]

Idle == [op |-> "none"]
Call ==
  {Idle}
    \cup [op : {"serial"}, ca : CA]
    \cup [op : {"sign"}, ca : CA, serial : 1 .. MaxSerial]
    \cup [op : {"insert"}, ca : RowIds, serial : 1 .. MaxSerial]

TypeOK ==
  /\ authorities \subseteq CA
  /\ certificates \subseteq Cert
  /\ pkiCall \in [Calls -> Call]
  /\ encKey \in Passwords
  /\ signed \in [RowIds -> [1 .. MaxSerial -> 0 .. 2]]

Init ==
  /\ authorities = {}
  /\ certificates = {}
  /\ pkiCall = [k \in Calls |-> Idle]
  /\ encKey \in Passwords
  /\ signed = [id \in RowIds |-> [n \in 1 .. MaxSerial |-> 0]]

Become(k, call) == pkiCall' = [pkiCall EXCEPT ![k] = call]
Answer(k) == Become(k, Idle)

-----------------------------------------------------------------------------
(* crypto and repository *)

\* AES-GCM under a key derived from the password and a salt of its own.
EncryptPrivateKey(key, password) == [key |-> key, under |-> password]
DecryptPrivateKey(sealed, password) == IF sealed.under = password THEN {sealed.key} ELSE {}

GetCAByID(id) == {ca \in authorities : ca.id = id /\ ~ca.deleted}

\* Slip: the UPDATE counts for a CA that is deleted, too.
NextSerialOfAny(id) == {ca.serial + 1 : ca \in {a \in authorities : a.id = id}}

\* UPDATE ... SET serial_number = serial_number + 1 ... RETURNING, of a row
\* that is not deleted.
GetNextSerialNumber(id) == {ca.serial + 1 : ca \in GetCAByID(id)}
StoreSerial(id, serial) ==
  authorities' = {IF ca.id = id THEN [ca EXCEPT !.serial = serial] ELSE ca : ca \in authorities}

\* x509.CreateCertificate with the CA's key: it is this that makes the
\* certificate valid, whether or not a row is stored.
CreateCertificate(ca, serial) ==
  signed' = [signed EXCEPT ![ca][serial] = IF @ < 2 THEN @ + 1 ELSE @]

-----------------------------------------------------------------------------
(* The handlers *)

\* The counter starts at 0: the CA's own random serial is not the counter's.
CreateCA(k) ==
  /\ pkiCall[k] = Idle
  /\ \E id \in RowIds \ {ca.id : ca \in authorities} :
       authorities' = authorities \cup
         {[id |-> id, keyPEM |-> EncryptPrivateKey(id, encKey), serial |-> 0, deleted |-> FALSE]}
  /\ UNCHANGED <<certificates, pkiCall, encKey, signed>>

DeleteCA(k, id) ==
  /\ pkiCall[k] = Idle
  /\ authorities' = {IF ca.id = id THEN [ca EXCEPT !.deleted = TRUE] ELSE ca : ca \in authorities}
  /\ UNCHANGED <<certificates, pkiCall, encKey, signed>>

\* The handler reads the CA and opens its key, or answers 404 or 500.
CreateCertificateOf(k, id) ==
  /\ pkiCall[k] = Idle
  /\ \E ca \in GetCAByID(id) :
       /\ DecryptPrivateKey(ca.keyPEM, encKey) # {}
       /\ Become(k, [op |-> "serial", ca |-> ca])
  /\ UNCHANGED <<authorities, certificates, encKey, signed>>

\* Slip: the serial is counted from the row the handler has read.
TakeSerialRead(k) ==
  /\ pkiCall[k].op = "serial"
  /\ LET ca == pkiCall[k].ca IN
     /\ ca.serial < MaxSerial
     /\ StoreSerial(ca.id, ca.serial + 1)
     /\ Become(k, [op |-> "sign", ca |-> ca, serial |-> ca.serial + 1])
  /\ UNCHANGED <<certificates, encKey, signed>>

TakeSerial(k) ==
  /\ pkiCall[k].op = "serial"
  /\ LET ca == pkiCall[k].ca
         next == GetNextSerialNumber(ca.id)
     IN  \/ next = {} /\ Answer(k) /\ UNCHANGED authorities
         \/ \E serial \in next :
              /\ serial <= MaxSerial
              /\ StoreSerial(ca.id, serial)
              /\ Become(k, [op |-> "sign", ca |-> ca, serial |-> serial])
  /\ UNCHANGED <<certificates, encKey, signed>>

\* A step that fails gives the serial away.
Sign(k) ==
  /\ pkiCall[k].op = "sign"
  /\ LET call == pkiCall[k] IN
     \/ Answer(k) /\ UNCHANGED signed
     \/ /\ CreateCertificate(call.ca.id, call.serial)
        /\ Become(k, [op |-> "insert", ca |-> call.ca.id, serial |-> call.serial])
  /\ UNCHANGED <<authorities, certificates, encKey>>

\* The INSERT does not ask whether the CA is still there: it is, deleted or not.
CreateCert(k) ==
  /\ pkiCall[k].op = "insert"
  /\ \/ UNCHANGED certificates
     \/ \E id \in RowIds \ {c.id : c \in certificates} :
          certificates' = certificates \cup
            {[id |-> id, ca |-> pkiCall[k].ca, serial |-> pkiCall[k].serial, status |-> "active"]}
  /\ Answer(k)
  /\ UNCHANGED <<authorities, encKey, signed>>

RevokeCert(k, id) ==
  /\ pkiCall[k] = Idle
  /\ certificates' = {IF c.id = id THEN [c EXCEPT !.status = "revoked"] ELSE c : c \in certificates}
  /\ UNCHANGED <<authorities, pkiCall, encKey, signed>>

\* The process starts anew, maybe with another secret.
RestartPki(password) ==
  /\ pkiCall' = [k \in Calls |-> Idle]
  /\ encKey' = password
  /\ UNCHANGED <<authorities, certificates, signed>>

Next ==
  \/ \E k \in Calls :
       \/ CreateCA(k) \/ TakeSerial(k) \/ Sign(k) \/ CreateCert(k)
       \/ \E id \in RowIds : DeleteCA(k, id) \/ CreateCertificateOf(k, id) \/ RevokeCert(k, id)
  \/ \E password \in Passwords : RestartPki(password)

Spec == Init /\ [][Next]_pkiVars

-----------------------------------------------------------------------------

\* No CA signs two certificates with one serial number, whether or not a row
\* is stored.
SignedOnce ==
  \A id \in RowIds : \A n \in 1 .. MaxSerial : signed[id][n] < 2

\* A row is of a certificate that was signed, and of no other row's.
RowsAreSigned ==
  /\ \A c \in certificates : signed[c.ca][c.serial] = 1
  /\ \A c, d \in certificates : c.ca = d.ca /\ c.serial = d.serial => c = d

\* A relying party, and a revocation, tell certificates apart by CA and serial
\* number, and they can: however requests overlap, fail or are cut off by a
\* restart, one that is signed is the only one of its number, and has at most
\* one row.
SerialsAreUnique == SignedOnce /\ RowsAreSigned

\* A certificate keeps its row, its CA and its serial number and is revoked for
\* good; a CA that is deleted stays so, its counter where it was.
RevokedStay ==
  [][/\ \A c \in certificates : \E d \in certificates' :
         /\ d.id = c.id /\ d.ca = c.ca /\ d.serial = c.serial
         /\ c.status = "revoked" => d.status = "revoked"
     /\ \A a \in authorities : a.deleted => a \in authorities']_pkiVars
=============================================================================
