-------------------------------- MODULE Store --------------------------------
(***************************************************************************)
(* What core/storage promises the services: a call takes effect in one     *)
(* step, on the contents of that moment, or not at all.  A call that was   *)
(* answered took effect exactly once, one that failed did so at most once. *)
(* The contents of a key are the clients whose writes are folded into it.  *)
(***************************************************************************)
EXTENDS Naturals, Sequences

CONSTANTS Client,    \* callers of the storage, with one call each
          Key        \* namespaces and keys, joined

VARIABLES request,   \* request[c]: the call of client c, [op, keys]
          contents,  \* contents[k]: the writers folded into key k, {} for none
          answer     \* answer[c]: "none", "done" or "failed"

storeVars == <<request, contents, answer>>

Target(c) == {request[c].keys[i] : i \in DOMAIN request[c].keys}
Updaters == {c \in Client : request[c].op = "update"}

\* Update and UpdateValueAndOperation read before they write, the value first and
\* then its operation, which may be updated once.
Valid(c) ==
  request[c].op = "update" =>
    /\ \A k \in Target(c) : contents[k] # {}
    /\ Len(request[c].keys) = 2 => contents[request[c].keys[2]] \cap Updaters = {}

Effect(c, k) ==
  CASE request[c].op = "update" -> contents[k] \cup {c}
    [] request[c].op = "ensure" -> IF contents[k] = {} THEN {c} ELSE contents[k]
    [] request[c].op = "write" -> {c}
    [] request[c].op = "delete" -> {}

\* A read-only call, and a call that is refused, change nothing.
Reads(c) == request[c].op \in {"list", "keys"}

Call(c) ==
  /\ answer[c] = "none"
  /\ ~Reads(c) /\ Valid(c)
  /\ contents' = [k \in Key |-> IF k \in Target(c) THEN Effect(c, k) ELSE contents[k]]
  /\ \E a \in {"done", "failed"} : answer' = [answer EXCEPT ![c] = a]
  /\ UNCHANGED request

Refuse(c) ==
  /\ answer[c] = "none"
  /\ \/ answer' = [answer EXCEPT ![c] = "failed"]
     \/ Reads(c) /\ answer' = [answer EXCEPT ![c] = "done"]
  /\ UNCHANGED <<request, contents>>

StoreNext == \E c \in Client : Call(c) \/ Refuse(c)

StoreSpec == answer = [c \in Client |-> "none"] /\ [][StoreNext]_storeVars
==============================================================================
