----------------------------- MODULE Idempotency -----------------------------
(***************************************************************************)
(* wallet/idempotency.service.ts: execute runs a handler once per key and  *)
(* answers later calls of that key with what the first one got.  The key's *)
(* row and the handler's transaction are separate commits, in this order:  *)
(* look up, insert the row, run the handler, store the response.           *)
(*                                                                         *)
(* A module with a handler EXTENDS this one and says, in HandlerReturns,   *)
(* what the transaction does.  Some actions therefore leave the handler's  *)
(* own variables to it.                                                    *)
(***************************************************************************)
EXTENDS Integers, FiniteSets

CONSTANTS Call, Key, None,
          KeyOf   \* (scope, user, key) of each call

ASSUME KeyOfAssumption == KeyOf \in [Call -> Key]

VARIABLES
  row,      \* idempotency_keys: [state, hash, response] of each key
  pc,       \* where each call is
  payload,  \* what it was asked, hashed
  result,   \* what its handler committed
  answer    \* what it answered

idemVars == <<row, pc, payload, result, answer>>

NoRow == [state |-> "absent", hash |-> None, response |-> None]
Running == {"handler", "returned"}

IdemTypeOK ==
  /\ \A k \in Key : row[k].state \in {"absent", "open", "completed"}
  /\ pc \in [Call -> {"new", "find", "insert", "ended"} \cup Running]
  /\ \A c \in Call : answer[c].kind \in
       {"none", "fresh", "replayed", "in progress", "other payload", "error"}

NoAnswer == [kind |-> "none", result |-> None]

IdemInit ==
  /\ row = [k \in Key |-> NoRow]
  /\ pc = [c \in Call |-> "new"]
  /\ payload = [c \in Call |-> None]
  /\ result = [c \in Call |-> None]
  /\ answer = [c \in Call |-> NoAnswer]

-----------------------------------------------------------------------------
Begin(c, p) ==
  /\ pc[c] = "new"
  /\ pc' = [pc EXCEPT ![c] = "find"]
  /\ payload' = [payload EXCEPT ![c] = p]
  /\ UNCHANGED <<row, result, answer>>

End(c, kind, r) ==
  /\ pc' = [pc EXCEPT ![c] = "ended"]
  /\ answer' = [answer EXCEPT ![c] = [kind |-> kind, result |-> r]]

FindAbsent(c) ==
  /\ pc[c] = "find"
  /\ row[KeyOf[c]].state = "absent"
  /\ pc' = [pc EXCEPT ![c] = "insert"]
  /\ UNCHANGED <<row, payload, result, answer>>

\* Bug: the payload of the first call is not looked at.
FindExisting_AnyPayload(c) ==
  LET r == row[KeyOf[c]] IN
  /\ pc[c] = "find"
  /\ \/ /\ r.state = "completed"
        /\ End(c, "replayed", r.response)
     \/ /\ r.state = "open"
        /\ End(c, "in progress", None)
  /\ UNCHANGED <<row, payload, result>>

FindExisting(c) ==
  LET r == row[KeyOf[c]] IN
  /\ pc[c] = "find"
  /\ \/ /\ r.state # "absent"
        /\ r.hash # payload[c]
        /\ End(c, "other payload", None)
     \/ /\ r.state = "completed"
        /\ r.hash = payload[c]
        /\ End(c, "replayed", r.response)
     \/ /\ r.state = "open"
        /\ r.hash = payload[c]
        /\ End(c, "in progress", None)
  /\ UNCHANGED <<row, payload, result>>

\* Bug: ON CONFLICT DO UPDATE, the row is taken over.
InsertKey_Takes(c) ==
  /\ pc[c] = "insert"
  /\ row' = [row EXCEPT ![KeyOf[c]] =
       [state |-> "open", hash |-> payload[c], response |-> None]]
  /\ pc' = [pc EXCEPT ![c] = "handler"]
  /\ UNCHANGED <<payload, result, answer>>

InsertKey(c) ==
  /\ pc[c] = "insert"
  /\ row[KeyOf[c]].state = "absent"
  /\ row' = [row EXCEPT ![KeyOf[c]] =
       [state |-> "open", hash |-> payload[c], response |-> None]]
  /\ pc' = [pc EXCEPT ![c] = "handler"]
  /\ UNCHANGED <<payload, result, answer>>

\* A concurrent call inserted the key first: execute calls itself.
InsertCollides(c) ==
  /\ pc[c] = "insert"
  /\ row[KeyOf[c]].state # "absent"
  /\ pc' = [pc EXCEPT ![c] = "find"]
  /\ UNCHANGED <<row, payload, result, answer>>

\* The handler's transaction commits.
HandlerReturns(c, r) ==
  /\ pc[c] = "handler"
  /\ pc' = [pc EXCEPT ![c] = "returned"]
  /\ result' = [result EXCEPT ![c] = r]
  /\ UNCHANGED <<row, payload, answer>>

\* Its exception rolls it back and leaves execute; the row stays as it is.
HandlerThrows(c) ==
  /\ pc[c] = "handler"
  /\ End(c, "error", None)
  /\ UNCHANGED <<row, payload, result>>

StoreResponse(c) ==
  /\ pc[c] = "returned"
  /\ row' = [row EXCEPT ![KeyOf[c]] =
       [state |-> "completed", hash |-> @.hash, response |-> result[c]]]
  /\ End(c, "fresh", result[c])
  /\ UNCHANGED <<payload, result>>

\* The process dies in the middle of a call.
Dies(c) ==
  /\ pc[c] \in Running
  /\ End(c, "error", None)
  /\ UNCHANGED <<row, payload, result>>

\* What a call does without its handler.
Execute(c) ==
  \/ FindAbsent(c) \/ FindExisting(c) \/ InsertKey(c) \/ InsertCollides(c)
  \/ HandlerThrows(c) \/ StoreResponse(c) \/ Dies(c)

-----------------------------------------------------------------------------
(***************************************************************************)
(* Of all the calls made under one key, at most one commits its handler's  *)
(* transaction, although none of them holds a lock while it runs.          *)
(***************************************************************************)
HandlerOncePerKey ==
  \A c, d \in Call :
    result[c] # None /\ result[d] # None /\ KeyOf[c] = KeyOf[d] => c = d

(***************************************************************************)
(* A replayed answer is what the handler committed for that key, and for   *)
(* the same payload.                                                       *)
(***************************************************************************)
ReplayIsTheResult ==
  \A c \in Call : answer[c].kind = "replayed" =>
    \E d \in Call : /\ KeyOf[d] = KeyOf[c] /\ payload[d] = payload[c]
                    /\ result[d] # None /\ result[d] = answer[c].result

(***************************************************************************)
(* "Request with this idempotency key is in progress": whoever is told so  *)
(* is told while another call of the key runs.                             *)
(***************************************************************************)
InProgressIsRunning ==
  [][\A c \in Call :
       answer[c].kind = "none" /\ answer'[c].kind = "in progress" =>
         \E d \in Call : KeyOf[d] = KeyOf[c] /\ pc[d] \in Running]_idemVars
=============================================================================
