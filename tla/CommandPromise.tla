---------------------------- MODULE CommandPromise ----------------------------
(***************************************************************************)
(* What the command dispatch promises its callers, without reads, rows or  *)
(* recovery: an invocation takes effect at most once, at one instant; one  *)
(* key takes effect at most once in a window of TTL; a success names an    *)
(* effect earned by the same key and the same input; and after a definite  *)
(* error the invocation never takes effect.                                *)
(***************************************************************************)
EXTENDS Naturals

CONSTANTS Calls, Requests, Ids, TTL, DefiniteErrors, OpenErrors, NotInvoked, NoAnswer

VARIABLES
  existing,  \* the resources that exist already, at version 1
  invoked,   \* the request of each invocation and the time it was captured
  effects,   \* the effects so far: call, request, resource, version, now
  answer     \* what each invocation has returned

promise == <<existing, invoked, effects, answer>>

Init ==
  /\ existing \subseteq Ids
  /\ invoked = [c \in Calls |-> NotInvoked]
  /\ effects = {}
  /\ answer = [c \in Calls |-> NoAnswer]

Invoke(c) ==
  /\ invoked[c] = NotInvoked
  /\ invoked'[c] \in [request : Requests, now : Nat]
  /\ invoked' = [invoked EXCEPT ![c] = invoked'[c]]
  /\ UNCHANGED <<effects, answer>>

\* A new version of one resource, on top of the one before it.
OnTop(id, version) ==
  LET history == { e \in effects : e.resource = id } IN
  /\ \A e \in history : e.version < version
  /\ version = (IF id \in existing THEN 2 ELSE 1) \/ \E e \in history : e.version + 1 = version

Effect(c) ==
  /\ invoked[c] # NotInvoked
  /\ \A e \in effects : e.call # c
  /\ \A e \in effects :
       e.request.key = invoked[c].request.key => e.now + TTL <= invoked[c].now
  /\ answer[c] = NoAnswer \/ answer[c] \in OpenErrors
  /\ \E new \in effects' \ effects :
       /\ new \in [call : {c}, request : {invoked[c].request}, resource : Ids,
                   version : Nat \ {0}, now : {invoked[c].now}]
       /\ OnTop(new.resource, new.version)
       /\ effects' = effects \cup {new}
  /\ UNCHANGED <<invoked, answer>>

SameIntent(p, q) == p.key = q.key /\ p.resource = q.resource /\ p.payload = q.payload

Return(c) ==
  /\ invoked[c] # NotInvoked /\ answer[c] = NoAnswer
  /\ \/ \E e \in effects :
          /\ SameIntent(e.request, invoked[c].request)
          /\ answer' = [answer EXCEPT ![c] =
               [ok |-> TRUE, resource |-> e.resource, version |-> e.version]]
     \/ \E error \in OpenErrors : answer' = [answer EXCEPT ![c] = error]
     \/ /\ \A e \in effects : e.call # c
        /\ \E error \in DefiniteErrors : answer' = [answer EXCEPT ![c] = error]
  /\ UNCHANGED <<invoked, effects>>

Next ==
  /\ UNCHANGED existing
  /\ \E c \in Calls : Invoke(c) \/ Effect(c) \/ Return(c)

Spec == Init /\ [][Next]_promise
=============================================================================
