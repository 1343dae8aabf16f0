----------------------------- MODULE Operations ------------------------------
(***************************************************************************)
(* core/service/operation: the records of long-running operations in the   *)
(* key-value store, shared by the services that create and settle them.    *)
(* A record that is done carries the value the operation led to.  One      *)
(* operator per access; the services' actions are built from them.         *)
(***************************************************************************)
CONSTANTS OpId,        \* operations, by the object they are about
          Response,    \* what an operation can lead to
          NoResponse   \* none so far

VARIABLE operations    \* the stored record of each operation

Operation == [state : {"absent", "running", "done"},
              response : Response \cup {NoResponse}]

NoOperation == [state |-> "absent", response |-> NoResponse]

OperationsTypeOK == operations \in [OpId -> Operation]

OperationsInit == operations = [o \in OpId |-> NoOperation]

\* StoreOperation of a record with Done == FALSE: a plain write, which replaces
\* whatever record the key holds.
StoreOperation(o) ==
  operations' = [operations EXCEPT ![o] = [state |-> "running", response |-> NoResponse]]

\* StoreOperation of a record that is done from the start.
StoreDoneOperation(o, response) ==
  operations' = [operations EXCEPT ![o] = [state |-> "done", response |-> response]]

\* OperationUpdater.Validate fails for a missing record and for one that is done.
Unfinished(o) == operations[o].state = "running"

\* MUTANT of FinishOperation: does not look whether the operation is done.
FinishOperation_Again(o, response) ==
  /\ operations[o].state # "absent"
  /\ operations' = [operations EXCEPT ![o] = [state |-> "done", response |-> response]]

\* The operation's half of UpdateValueAndOperation: one transaction with the
\* update of the value that becomes the response.
FinishOperation(o, response) ==
  /\ Unfinished(o)
  /\ operations' = [operations EXCEPT ![o] = [state |-> "done", response |-> response]]

\* An operation as the client that polls it sees it.
Polled(o) ==
  IF operations[o].state = "absent" THEN <<"unknown">>
  ELSE IF operations[o].state = "running" THEN <<"undecided">>
  ELSE <<"settled", operations[o].response>>
==============================================================================
