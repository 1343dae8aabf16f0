--------------------------- MODULE MCStorageEngine ---------------------------
(***************************************************************************)
(* Three callers, any of eight calls each, over a manifest and its          *)
(* operation, a second manifest, a manifest request and the service key.   *)
(***************************************************************************)
EXTENDS StorageEngine

CONSTANTS c1, c2, c3, m1, m2, op, req, sk

MCOrder == <<sk, m1, req, m2, op>>
MCNamespace == [k \in {m1, m2, op, req, sk} |->
  CASE k \in {m1, m2} -> "manifest" [] k = req -> "manifest_request"
    [] k = op -> "operation" [] k = sk -> "service"]
MCLonger == [n \in {"manifest", "manifest_request", "operation", "service"} |->
  IF n = "manifest" THEN {"manifest_request"} ELSE {}]

Call(o, ks) == [op |-> o, keys |-> ks, namespace |-> "none", size |-> 0]
List(o, n) == [op |-> o, keys |-> <<>>, namespace |-> "manifest", size |-> n]

Calls ==
  <<Call("update", <<m1, op>>), Call("update", <<m1>>), Call("ensure", <<sk>>),
    Call("write", <<m1, op>>), Call("write", <<m2>>), Call("delete", <<m1>>),
    List("list", 1), List("keys", 5)>>

\* Callers are alike: one order of every choice of three calls is enough.
MCWorkload ==
  {[c \in {c1, c2, c3} |-> Calls[IF c = c1 THEN t[1] ELSE IF c = c2 THEN t[2] ELSE t[3]]] :
     t \in {u \in (1..Len(Calls)) \X (1..Len(Calls)) \X (1..Len(Calls)) :
               u[1] <= u[2] /\ u[2] <= u[3]}}
MCStored == {m1, m2, op, sk}
==============================================================================
