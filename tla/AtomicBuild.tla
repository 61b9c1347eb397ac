---------------------------- MODULE AtomicBuild -----------------------------
(***************************************************************************)
(* What a transaction-building call promises, whatever it awaits on the    *)
(* way: it judges the user's allowance at one instant between its          *)
(* invocation and its return, and then either returns the whole list that  *)
(* this judgement calls for, or fails and returns nothing.  Calls do not   *)
(* disturb one another and never change the chain.                         *)
(***************************************************************************)
CONSTANTS
  Calls, Requests, Pairs, Amounts,
  Dependent,     \* the requests that depend on an allowance
  PairOf(_),     \* the one they depend on
  Enough(_, _)   \* whether an allowance is enough for a request

VARIABLES
  ask,       \* the request of each call
  verdict,   \* its judgement: open, enough or short
  result,    \* pending, failed, nothing, action or "approval, action"
  allowance

vars == <<ask, verdict, result, allowance>>

Init ==
  /\ ask \in [Calls -> Requests]
  /\ verdict = [c \in Calls |-> "open"]
  /\ result = [c \in Calls |-> "pending"]
  /\ allowance \in [Pairs -> Amounts]

\* The instant at which the allowance is judged.
Judge(c) ==
  /\ result[c] = "pending" /\ verdict[c] = "open"
  /\ ask[c] \in Dependent
  /\ verdict' = [verdict EXCEPT ![c] =
       IF Enough(ask[c], allowance[PairOf(ask[c])]) THEN "enough" ELSE "short"]
  /\ UNCHANGED <<ask, result, allowance>>

\* The list that the judgement calls for; requests that depend on no
\* allowance need none.
Return(c) ==
  /\ result[c] = "pending"
  /\ verdict[c] = "open" => ask[c] \notin Dependent
  /\ result' = [result EXCEPT ![c] =
       IF verdict[c] = "short" THEN "approval, action" ELSE "action"]
  /\ UNCHANGED <<ask, verdict, allowance>>

\* Nothing to build: the market lacks a contract.
Decline(c) ==
  /\ result[c] = "pending" /\ verdict[c] = "open"
  /\ result' = [result EXCEPT ![c] = "nothing"]
  /\ UNCHANGED <<ask, verdict, allowance>>

Fail(c) ==
  /\ result[c] = "pending"
  /\ result' = [result EXCEPT ![c] = "failed"]
  /\ UNCHANGED <<ask, verdict, allowance>>

CallAgain(c) ==
  /\ result[c] # "pending"
  /\ \E q \in Requests : ask' = [ask EXCEPT ![c] = q]
  /\ verdict' = [verdict EXCEPT ![c] = "open"]
  /\ result' = [result EXCEPT ![c] = "pending"]
  /\ UNCHANGED allowance

\* Others use the account.
AllowanceChanges ==
  /\ allowance' \in [Pairs -> Amounts]
  /\ UNCHANGED <<ask, verdict, result>>

Next ==
  \/ \E c \in Calls : \/ Judge(c) \/ Return(c) \/ Decline(c) \/ Fail(c)
                      \/ CallAgain(c)
  \/ AllowanceChanges

Spec == Init /\ [][Next]_vars
=============================================================================
