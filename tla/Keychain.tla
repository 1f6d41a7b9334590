------------------------------ MODULE Keychain ------------------------------
(***************************************************************************)
(* services/keychain-service: keys and passwords, sealed under a key that  *)
(* the process is started with.  The owner is checked on a row that is     *)
(* read, and opened, before the statement that changes it; a caller with   *)
(* no id is not checked.  A step is one SQL statement, or a restart.       *)
(***************************************************************************)
CONSTANTS
  Calls,      \* requests in flight at one time
  RowIds,     \* ids of items, deleted softly and not reused
  Users,
  Nobody,     \* the id of a caller whose token carries none
  EncKeys,    \* values of KEYCHAIN_ENCRYPTION_KEY
  Texts       \* values of a column, and private keys

VARIABLES
  items,      \* rows of keychain_items
  encKey,     \* the key of the running process
  chainCall,  \* requests in flight
  kept        \* observed only: the private key each item was made with

keychainVars == <<items, encKey, chainCall, kept>>

Callers == Users \cup {Nobody}

Sealed == [key : EncKeys, text : Texts]
Row == [id : RowIds, user : Users, name : Texts, private : Sealed, deleted : BOOLEAN]

Idle == [op |-> "none"]
Call ==
  {Idle}
    \cup [op : {"update"}, by : Callers, id : RowIds, name : Texts]
    \cup [op : {"delete", "fetch"}, by : Callers, id : RowIds]
    \cup [op : {"page"}, by : Users]

TypeOK ==
  /\ items \subseteq Row
  /\ \A i, j \in items : i.id = j.id => i = j
  /\ encKey \in EncKeys
  /\ chainCall \in [Calls -> Call]
  /\ kept \in [RowIds -> Texts \cup {"none"}]

Init ==
  /\ items = {}
  /\ encKey \in EncKeys
  /\ chainCall = [k \in Calls |-> Idle]
  /\ kept = [id \in RowIds |-> "none"]

Become(k, call) == chainCall' = [chainCall EXCEPT ![k] = call]
Answer(k) == Become(k, Idle)

-----------------------------------------------------------------------------
(* Sealing, the table and the owner *)

\* AES-GCM under a key derived with a fresh salt: opens under its own key,
\* fails under any other.
Encrypt(text) == [key |-> encKey, text |-> text]
Decrypt(sealed) == {t \in Texts : sealed = [key |-> encKey, text |-> t]}

\* A row whose private key does not open is an error and no row.
GetItemByID(id) == {i \in items : i.id = id /\ ~i.deleted /\ Decrypt(i.private) # {}}

ListItems(u) == {i \in items : i.user = u /\ ~i.deleted}

Named == {i.id : i \in items}
           \cup {chainCall[k].id :
                  k \in {j \in Calls : chainCall[j].op \in {"update", "delete", "fetch"}}}
FreshIds == RowIds \ Named

\* The private key is sealed on its way into the row.
InsertItem(u, name, text) ==
  \E id \in FreshIds :
    /\ items' = items \cup {[id |-> id, user |-> u, name |-> name,
                             private |-> Encrypt(text), deleted |-> FALSE]}
    /\ kept' = [kept EXCEPT ![id] = text]

\* What an UPDATE makes of a row: its columns come from an allow-list that
\* has neither the private key nor the owner.
buildUpdateQuery(i, name) == [i EXCEPT !.name = name]

\* Slip: whoever asks is taken for a caller without an id.
Anybody(u, id) == TRUE

\* authMiddleware and callerUserIDFromContext give the caller; another
\* user's item is answered with 404.  No check, and no read, for a caller
\* without an id.
Owns(u, id) == u # Nobody => \E i \in GetItemByID(id) : i.user = u

-----------------------------------------------------------------------------
(* The handlers *)

CreateItem(k, u, name, text) ==
  /\ chainCall[k] = Idle
  /\ InsertItem(u, name, text)
  /\ UNCHANGED <<encKey, chainCall>>

\* Two statements: how many rows there are, and a page of them.
CountItems(k, u) ==
  /\ chainCall[k] = Idle
  /\ Become(k, [op |-> "page", by |-> u])
  /\ UNCHANGED <<items, encKey, kept>>

GetItem(k, u, id) ==
  /\ chainCall[k] = Idle
  /\ GetItemByID(id) # {} /\ Owns(u, id)
  /\ Become(k, [op |-> "fetch", by |-> u, id |-> id])
  /\ UNCHANGED <<items, encKey, kept>>

AnswerRead(k) ==
  /\ chainCall[k].op \in {"page", "fetch"}
  /\ Answer(k)
  /\ UNCHANGED <<items, encKey, kept>>

UpdateItem(k, u, id, name) ==
  /\ chainCall[k] = Idle
  /\ Owns(u, id)
  /\ Become(k, [op |-> "update", by |-> u, id |-> id, name |-> name])
  /\ UNCHANGED <<items, encKey, kept>>

DeleteItem(k, u, id) ==
  /\ chainCall[k] = Idle
  /\ Owns(u, id)
  /\ Become(k, [op |-> "delete", by |-> u, id |-> id])
  /\ UNCHANGED <<items, encKey, kept>>

\* UPDATE ... WHERE id AND deleted_at IS NULL.  A statement that fails, or
\* finds no row, is answered with an error; otherwise the row is read again.
StoreItem(k) ==
  /\ chainCall[k].op = "update"
  /\ LET call == chainCall[k]
         live == {i \in items : i.id = call.id /\ ~i.deleted}
     IN  \/ Answer(k) /\ UNCHANGED items
         \/ /\ live # {}
            /\ items' = (items \ live) \cup {buildUpdateQuery(i, call.name) : i \in live}
            /\ Become(k, [op |-> "fetch", by |-> call.by, id |-> call.id])
  /\ UNCHANGED <<encKey, kept>>

\* An update without a column is no statement: the row is read at once.
StoreNothing(k) ==
  /\ chainCall[k].op = "update"
  /\ LET call == chainCall[k]
     IN  Become(k, [op |-> "fetch", by |-> call.by, id |-> call.id])
  /\ UNCHANGED <<items, encKey, kept>>

RemoveItem(k) ==
  /\ chainCall[k].op = "delete"
  /\ LET live == {i \in items : i.id = chainCall[k].id /\ ~i.deleted}
     IN  \/ items' = (items \ live) \cup {[i EXCEPT !.deleted = TRUE] : i \in live}
         \/ UNCHANGED items
  /\ Answer(k)
  /\ UNCHANGED <<encKey, kept>>

\* The process stops and starts again, perhaps with another key; without
\* one it does not start.
Restart ==
  /\ encKey' \in EncKeys
  /\ chainCall' = [k \in Calls |-> Idle]
  /\ UNCHANGED <<items, kept>>

Next ==
  \/ \E k \in Calls :
       \/ \E u \in Users :
            \/ \E name, text \in Texts : CreateItem(k, u, name, text)
            \/ CountItems(k, u)
       \/ \E u \in Callers, id \in RowIds :
            \/ GetItem(k, u, id) \/ DeleteItem(k, u, id)
            \/ \E name \in Texts : UpdateItem(k, u, id, name)
       \/ AnswerRead(k) \/ StoreItem(k) \/ StoreNothing(k) \/ RemoveItem(k)
  \/ Restart

Spec == Init /\ [][Next]_keychainVars

-----------------------------------------------------------------------------

\* What a request with an id of its own is about to change, or to answer, is
\* its sender's own, although the owner was checked in a statement before.
\* Nothing is said of a caller without an id: the code does not check it.
OwnersStayApart ==
  \A k \in Calls :
    chainCall[k].op \in {"update", "delete", "fetch"} /\ chainCall[k].by # Nobody =>
      \A i \in items : i.id = chainCall[k].id => i.user = chainCall[k].by

\* Whatever was updated, and with whichever keys the service was restarted
\* meanwhile, the private key that opens is the one the item was made with.
PrivateKeysAreKept ==
  \A i \in items : Decrypt(i.private) \subseteq {kept[i.id]}

\* A deleted item stays deleted and as it was.
DeletedItemsStay == [][\A i \in items : i.deleted => i \in items']_items
=============================================================================
