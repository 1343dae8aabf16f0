----------------------------- MODULE MCDIDService -----------------------------
(***************************************************************************)
(* Three requests of any kind for an ion DID, a web DID, two key DIDs and   *)
(* the key of an existing DID, on an empty store or one with DIDs in it.   *)
(***************************************************************************)
EXTENDS DIDService

CONSTANTS h1, h2, h3, di, dw, k0, k1, k2

MCMethod == [d \in {di, dw, k0, k1, k2} |->
  IF d = di THEN "ion" ELSE IF d = dw THEN "web" ELSE "key"]
MCKeyId == {di, dw, k0, k1, k2} \X Use

Req(o, d) == [op |-> o, did |-> d, method |-> MCMethod[d], id |-> <<d, "doc">>, dids |-> {k1, k2}]

Requests ==
  <<Req("createIon", di), Req("update", di), Req("update", di), Req("update", di),
    [Req("update", di) EXCEPT !.method = "key"], Req("softDelete", di), Req("get", di),
    Req("createWeb", dw), Req("createWeb", dw), Req("softDelete", dw), Req("get", dw),
    Req("createKey", k1), Req("batch", k1), Req("softDelete", k1), Req("resolve", k1),
    Req("list", k1), Req("storeKey", k0), Req("revokeKey", k0), Req("sign", k0),
    Req("keyDetails", k0)>>

\* Handlers are alike: one order of every choice of three requests is enough, and
\* requests for different DIDs have nothing in common.  An ion or key DID is created
\* once, its name being made of its keys.
About(r) == IF r.op = "batch" \/ r.did = k1 THEN "new" ELSE r.did

MCWorkload ==
  LET n == 1..Len(Requests)
      Together(i, j) ==
        /\ i < j /\ About(Requests[i]) = About(Requests[j])
        /\ ~(Requests[i].op = "createKey" /\ Requests[j].op = "batch")
  IN {[h \in {h1, h2, h3} |-> Requests[IF h = h1 THEN t[1] ELSE IF h = h2 THEN t[2] ELSE t[3]]] :
        t \in {u \in n \X n \X n :
                 Together(u[1], u[2]) /\ Together(u[2], u[3]) /\ Together(u[1], u[3])}}
MCExisting == {di, dw, k0}
==============================================================================
