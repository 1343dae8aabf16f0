------------------------------- MODULE KeyStore -------------------------------
(***************************************************************************)
(* service/keystore and its router: a key is stored as two entries, the    *)
(* public key and the encrypted private key, one write each unless a       *)
(* transaction joins them.  Requests are handled step by step, a step for  *)
(* each access to the storage; a handler that stops leaves what it wrote.  *)
(***************************************************************************)
EXTENDS Naturals, Sequences

CONSTANTS Handler,   \* one request each
          KeyId,
          Old,       \* names the secrets of before
          None

VARIABLES request,   \* request[h]: [op, ...], chosen once
          pc,
          reply,     \* status of the answer, 0 for none
          public,    \* public[id]: the secret it belongs to, or None
          private,   \* private[id]: [secret, revoked]
          storing    \* storing[h]: keys the handler has yet to write

keyVars == <<public, private>>

NoKey == [secret |-> None, revoked |-> FALSE]
Stored(id) == private[id].secret # None
Write(id, key) == [id |-> id, key |-> key]
NewKey(h) == [secret |-> h, revoked |-> FALSE]

GoTo(h, step) == pc' = [pc EXCEPT ![h] = step]

\* The first answer counts: a second one finds the status already sent.
Respond(h, status) ==
  /\ reply' = [reply EXCEPT ![h] = IF @ = 0 THEN status ELSE @]
  /\ GoTo(h, "ended")

SuccessOf(op) ==
  CASE op \in {"createKey", "createWeb", "createIon", "batch", "storeKey"} -> 201
    [] op \in {"update", "revokeKey", "keyDetails", "sign", "get", "resolve", "list"} -> 200
    [] op = "softDelete" -> 204

Succeed(h) == Respond(h, SuccessOf(request[h].op))

------------------------------------------------------------------------------
\* The keys in `writes`, a sequence, are to be stored one after the other.
StoreKeys(h, writes) ==
  /\ storing' = [storing EXCEPT ![h] = writes]
  /\ GoTo(h, "public")

WritePublic(h) ==
  LET next == Head(storing[h])
  IN /\ pc[h] = "public"
     /\ public' = [public EXCEPT ![next.id] = next.key.secret]
     /\ GoTo(h, "private")
     /\ UNCHANGED <<request, reply, private, storing>>

WritePrivate(h) ==
  LET next == Head(storing[h])
  IN /\ pc[h] = "private"
     /\ private' = [private EXCEPT ![next.id] = next.key]
     /\ storing' = [storing EXCEPT ![h] = Tail(@)]
     /\ IF Len(storing[h]) > 1 THEN GoTo(h, "public") /\ UNCHANGED reply ELSE Succeed(h)
     /\ UNCHANGED <<request, public>>

\* Both entries of every key in ids, inside a transaction.
StoreInTransaction(ids, key) ==
  /\ public' = [id \in KeyId |-> IF id \in ids THEN key.secret ELSE public[id]]
  /\ private' = [id \in KeyId |-> IF id \in ids THEN key ELSE private[id]]

------------------------------------------------------------------------------
\* PUT /v1/keys: any id, one that is in use and one that is revoked as well.
StoreKey(h) ==
  /\ pc[h] = "begin" /\ request[h].op = "storeKey"
  /\ StoreKeys(h, <<Write(request[h].id, NewKey(h))>>)
  /\ UNCHANGED <<request, reply, public, private>>

\* DELETE /v1/keys/{id}: what was read is stored again, with the flag.
RevokeKey(h) ==
  /\ pc[h] = "begin" /\ request[h].op = "revokeKey"
  /\ IF Stored(request[h].id)
     THEN /\ StoreKeys(h, <<Write(request[h].id,
                                 [private[request[h].id] EXCEPT !.revoked = TRUE])>>)
          /\ UNCHANGED reply
     ELSE Respond(h, 500) /\ UNCHANGED storing
  /\ UNCHANGED <<request, public, private>>

\* GET /v1/keys/{id}, which needs both entries.
GetKeyDetails(h) ==
  /\ pc[h] = "begin" /\ request[h].op = "keyDetails"
  /\ IF Stored(request[h].id) /\ public[request[h].id] # None
     THEN Succeed(h) ELSE Respond(h, 400)
  /\ UNCHANGED <<request, public, private, storing>>

\* MUTANT of Usable: the flag is not looked at.
Usable_Revoked(id) == Stored(id)

Usable(id) == Stored(id) /\ ~private[id].revoked

\* Sign, for the services that issue credentials, schemas and requests.
Sign(h) ==
  /\ pc[h] = "begin" /\ request[h].op = "sign"
  /\ IF Usable(request[h].id) THEN Succeed(h) ELSE Respond(h, 500)
  /\ UNCHANGED <<request, public, private, storing>>

------------------------------------------------------------------------------
\* The router: a path or a body it cannot decode is refused before anything else.
BadRequest(h, ops) ==
  /\ pc[h] = "begin" /\ request[h].op \in ops
  /\ Respond(h, 400)
  /\ UNCHANGED <<request, public, private, storing>>

PutKey(h) == BadRequest(h, {"storeKey"}) \/ StoreKey(h)
GetKey(h) == BadRequest(h, {"keyDetails"}) \/ GetKeyDetails(h)
DeleteKey(h) == BadRequest(h, {"revokeKey"}) \/ RevokeKey(h)

KeyStep(h) ==
  \/ PutKey(h) \/ GetKey(h) \/ DeleteKey(h) \/ Sign(h)
  \/ WritePublic(h) \/ WritePrivate(h)
==============================================================================
