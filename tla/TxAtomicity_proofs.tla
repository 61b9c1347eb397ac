------------------------- MODULE TxAtomicity_proofs --------------------------
(***************************************************************************)
(* TxBuilder implements AtomicBuild, by itself and in the application that *)
(* sends what it returns: the proof that every step of a call is a step of *)
(* the abstraction, or one it does not see.                                *)
(***************************************************************************)
EXTENDS TxWallet_proofs

USE DEF AllowanceKinds

\* A read of the allowance has been answered before the k-th read.
JudgedBefore(q, k) == \E i \in 1..4 : i < k /\ IsAllowance(PlanOf[q], i)

Settled(ok) == IF ok THEN "enough" ELSE "short"

(* What the abstraction sees of a call that is not about to use an answer. *)
LEMMA VerdictBefore ==
  ASSUME NEW q \in Accepted, NEW k \in 1..5, NEW p, p # "answered",
         NEW answer, NEW ok
  PROVE  VerdictOf(q, k, p, answer, ok) =
           IF JudgedBefore(q, k) THEN Settled(ok) ELSE "open"
<1>1. \A i \in 1..4 : Judged(q, k, p, i) <=> i < k /\ IsAllowance(PlanOf[q], i)
  BY AcceptedReads DEF Judged, IsAllowance, Reads
<1>2. ~Judged(q, k, p, k)
  BY DEF Judged
<1> QED BY <1>1, <1>2 DEF VerdictOf, JudgedBefore, Settled

(* What it sees of a call that has been answered its k-th read.            *)
LEMMA VerdictAnswered ==
  ASSUME NEW q \in Accepted, NEW k \in 1..4, k <= Len(Reads(q)),
         NEW answer, NEW ok
  PROVE  VerdictOf(q, k, "answered", answer, ok) =
           IF IsAllowance(PlanOf[q], k)
           THEN Settled(Suffices(PlanOf[q], answer))
           ELSE IF JudgedBefore(q, k) THEN Settled(ok) ELSE "open"
<1>1. \A i \in 1..4 : Judged(q, k, "answered", i)
                        <=> (i < k \/ i = k) /\ IsAllowance(PlanOf[q], i)
  BY AcceptedReads DEF Judged, IsAllowance, Reads
<1>2. CASE IsAllowance(PlanOf[q], k)
  BY <1>1, <1>2 DEF VerdictOf, Settled, IsEnough
<1>3. CASE ~IsAllowance(PlanOf[q], k)
  BY <1>1, <1>3 DEF VerdictOf, JudgedBefore, Settled
<1> QED BY <1>2, <1>3

LEMMA VerdictAtFirst ==
  ASSUME NEW q, NEW p, p # "answered", NEW answer, NEW ok
  PROVE  VerdictOf(q, 1, p, answer, ok) = "open"
BY DEF VerdictOf, Judged

LEMMA JudgedByTheEnd ==
  ASSUME NEW q \in Checking
  PROVE  q \in Accepted /\ JudgedBefore(q, Len(Reads(q)) + 1)
<1>1. q \in Accepted /\ PlanOf[q].token # None
  BY DEF Checking
<1>2. PICK i \in 1..4 : IsAllowance(PlanOf[q], i)
  BY <1>1, AcceptedReads DEF OneAllowance
<1>3. Len(Reads(q)) \in 0..4
  BY <1>1, AcceptedReads
<1>4. i < Len(Reads(q)) + 1
  BY <1>2, <1>3 DEF IsAllowance, Reads
<1> QED BY <1>1, <1>2, <1>4 DEF JudgedBefore

-----------------------------------------------------------------------------
(* The abstract variables when only call c has moved on.                   *)
LEMMA OthersLookTheSame ==
  ASSUME NEW c \in Calls,
         \A d \in Calls \ {c} :
           /\ req'[d] = req[d] /\ pc'[d] = pc[d] /\ at'[d] = at[d]
           /\ got'[d] = got[d] /\ approved'[d] = approved[d]
           /\ txs'[d] = txs[d]
  PROVE  /\ verdictBar' = [verdictBar EXCEPT ![c] =
              VerdictOf(req'[c], at'[c], pc'[c], got'[c], approved'[c])]
         /\ resultBar' = [resultBar EXCEPT ![c] = ResultOf(pc'[c], txs'[c])]
<1>1. /\ verdictBar' = [d \in Calls |->
           VerdictOf(req'[d], at'[d], pc'[d], got'[d], approved'[d])]
      /\ resultBar' = [d \in Calls |-> ResultOf(pc'[d], txs'[d])]
  BY DEF verdictBar, resultBar, VerdictOf, ResultOf, Judged, IsEnough, PlanOf,
         Reads
<1> QED BY <1>1 DEF verdictBar, resultBar

(* The steps of the abstraction that one call can take, seen at that call. *)
AtomicMove(c) ==
  \/ verdictBar'[c] = verdictBar[c] /\ resultBar'[c] = resultBar[c]
  \/ /\ resultBar[c] = "pending" /\ verdictBar'[c] = verdictBar[c]
     /\ \/ resultBar'[c] = "failed"
        \/ verdictBar[c] = "open" /\ resultBar'[c] = "nothing"
        \/ /\ verdictBar[c] = "open" => req[c] \notin Checking
           /\ resultBar'[c] = IF verdictBar[c] = "short"
                              THEN "approval, action" ELSE "action"
  \/ /\ resultBar[c] = "pending" /\ verdictBar[c] = "open"
     /\ req[c] \in Checking /\ resultBar'[c] = resultBar[c]
     /\ verdictBar'[c] = IF IsEnough(req[c], allowance[PairOf(req[c])])
                         THEN "enough" ELSE "short"

\* A step of call c alone that looks like one of those.
Turn(c) ==
  /\ req' = req /\ allowance' = allowance
  /\ \A d \in Calls \ {c} :
       /\ pc'[d] = pc[d] /\ at'[d] = at[d] /\ got'[d] = got[d]
       /\ approved'[d] = approved[d] /\ txs'[d] = txs[d]
  /\ AtomicMove(c)

(* The code up to the k-th read or the end, when the abstraction sees of   *)
(* the call before it what it sees after it.                               *)
LEMMA ProceedIsAtomic ==
  ASSUME TypeOK, NEW c \in Calls, req[c] \in Accepted,
         pc[c] \notin {"done", "failed"}, txs[c] = << >>,
         NEW cache \in [Tokens -> Nat], req' = req, allowance' = allowance,
         NEW k \in 1..5, NEW ok \in BOOLEAN, k <= Len(Reads(req[c])) + 1,
         Proceed(c, k, cache, ok),
         verdictBar[c] = IF JudgedBefore(req[c], k) THEN Settled(ok) ELSE "open",
         ~JudgedBefore(req[c], k) => ok = TRUE
  PROVE  Turn(c)
<1>1. Plan(req[c], cache).reads = Reads(req[c])
  BY PlanNow
<1>2. /\ approved' = [approved EXCEPT ![c] = ok]
      /\ got' = [got EXCEPT ![c] = 0] /\ at' = [at EXCEPT ![c] = k]
  BY DEF Proceed
<1>3. \/ /\ txs' = txs
         /\ pc' = [pc EXCEPT ![c] = IF IsCached(Reads(req[c])[k], cache)
                                    THEN "cached" ELSE "asked"]
      \/ /\ k = Len(Reads(req[c])) + 1
         /\ pc' = [pc EXCEPT ![c] = "done"] /\ txs' = [txs EXCEPT ![c] = Listed(ok)]
      \/ pc' = [pc EXCEPT ![c] = "failed"] /\ txs' = txs
  BY <1>1, AcceptedReads DEF Proceed
<1>4. \A d \in Calls \ {c} :
        /\ pc'[d] = pc[d] /\ at'[d] = at[d] /\ got'[d] = got[d]
        /\ approved'[d] = approved[d] /\ txs'[d] = txs[d]
  BY <1>2, <1>3 DEF TypeOK
<1>5. approved'[c] = ok /\ at'[c] = k /\ got'[c] = 0 /\ req'[c] = req[c]
  BY <1>2 DEF TypeOK
<1>6. pc'[c] # "answered"
  BY <1>3 DEF TypeOK
<1>7. verdictBar'[c] = verdictBar[c]
  <2>1. verdictBar'[c] = VerdictOf(req[c], k, pc'[c], 0, ok)
    BY <1>5 DEF verdictBar
  <2> QED BY <1>6, <2>1, VerdictBefore
<1>8. resultBar[c] = "pending"
  BY DEF resultBar, ResultOf
<1>9. resultBar'[c] = ResultOf(pc'[c], txs'[c])
  BY DEF resultBar, ResultOf
<1>10. CASE /\ txs' = txs
            /\ pc' = [pc EXCEPT ![c] = IF IsCached(Reads(req[c])[k], cache)
                                       THEN "cached" ELSE "asked"]
  <2>1. pc'[c] \in {"cached", "asked"}
    BY <1>10 DEF TypeOK
  <2>2. resultBar'[c] = "pending"
    BY <1>9, <2>1 DEF ResultOf
  <2> QED BY <1>4, <1>7, <1>8, <2>2 DEF Turn, AtomicMove
<1>11. CASE /\ k = Len(Reads(req[c])) + 1
            /\ pc' = [pc EXCEPT ![c] = "done"] /\ txs' = [txs EXCEPT ![c] = Listed(ok)]
  <2>1. pc'[c] = "done" /\ txs'[c] = Listed(ok)
    BY <1>11 DEF TypeOK
  <2>2. resultBar'[c] = IF ok THEN "action" ELSE "approval, action"
    <3>1. /\ <<"action">> # << >> /\ <<"approval", "action">> # << >>
          /\ <<"action">> # <<"approval", "action">>
      OBVIOUS
    <3> QED BY <1>9, <2>1, <3>1 DEF ResultOf, Listed
  <2>3. verdictBar[c] = "short" <=> ~ok
    BY DEF Settled
  <2>4. verdictBar[c] = "open" => req[c] \notin Checking
    BY <1>11, JudgedByTheEnd DEF Settled
  <2>5. AtomicMove(c)
    BY <1>7, <1>8, <2>2, <2>3, <2>4 DEF AtomicMove
  <2> QED BY <1>4, <2>5 DEF Turn
<1>12. CASE pc' = [pc EXCEPT ![c] = "failed"] /\ txs' = txs
  <2>1. pc'[c] = "failed"
    BY <1>12 DEF TypeOK
  <2>2. resultBar'[c] = "failed"
    BY <1>9, <2>1 DEF ResultOf
  <2> QED BY <1>4, <1>7, <1>8, <2>2 DEF Turn, AtomicMove
<1> QED BY <1>3, <1>10, <1>11, <1>12

\* A call that only fails.
LEMMA FailIsAtomic ==
  ASSUME TypeOK, NEW c \in Calls, pc[c] \notin {"done", "failed", "answered"},
         req' = req, allowance' = allowance,
         UNCHANGED <<at, got, approved, txs>>, pc' = [pc EXCEPT ![c] = "failed"]
  PROVE  Turn(c)
<1>1. \A d \in Calls \ {c} : pc'[d] = pc[d]
  BY DEF TypeOK
<1>2. pc'[c] = "failed"
  BY DEF TypeOK
<1>3. resultBar[c] = "pending" /\ resultBar'[c] = "failed"
  BY <1>2 DEF resultBar, ResultOf
<1>4. verdictBar'[c] = verdictBar[c]
  BY <1>2 DEF verdictBar, VerdictOf, Judged, IsEnough, PlanOf, Reads
<1> QED BY <1>1, <1>3, <1>4 DEF Turn, AtomicMove

-----------------------------------------------------------------------------
(* Each step of TxBuilder. *)

LEMMA BeginIsAtomic ==
  ASSUME NEW c \in Calls, Own(c), Begin(c)
  PROVE  Turn(c)
<1>0. /\ TypeOK /\ pc[c] = "idle" /\ at[c] = 1 /\ txs[c] = << >>
      /\ req[c] \in Requests /\ req' = req /\ allowance' = allowance
      /\ tokenDecimals \in [Tokens -> Nat]
  BY DEF Own, CallInv, TypeOK, Begin, chainVars
<1>1. verdictBar[c] = "open" /\ ~JudgedBefore(req[c], 1)
  BY <1>0, VerdictAtFirst DEF verdictBar, JudgedBefore
<1>2. CASE Entry(req[c]) = "go" /\ Proceed(c, 1, tokenDecimals, TRUE)
  <2>1. req[c] \in Accepted /\ 1 <= Len(Reads(req[c])) + 1
    BY <1>0, <1>2, AcceptedReads DEF Accepted
  <2>2. 1 \in 1..5 /\ TRUE \in BOOLEAN
    OBVIOUS
  <2> QED BY <1>0, <1>1, <1>2, <2>1, <2>2, ProceedIsAtomic
<1>3. CASE /\ pc' = [pc EXCEPT ![c] = "failed"]
           /\ UNCHANGED <<at, got, approved, txs>>
  BY <1>0, <1>3, FailIsAtomic
<1>4. CASE /\ pc' = [pc EXCEPT ![c] = "done"]
           /\ UNCHANGED <<at, got, approved, txs>>
  <2>1. pc'[c] = "done" /\ \A d \in Calls \ {c} : pc'[d] = pc[d]
    BY <1>0, <1>4 DEF TypeOK
  <2>2. resultBar[c] = "pending" /\ resultBar'[c] = "nothing"
    <3>1. resultBar[c] = ResultOf("idle", << >>)
      BY <1>0 DEF resultBar
    <3>2. resultBar'[c] = ResultOf("done", << >>)
      BY <1>0, <1>4, <2>1 DEF resultBar
    <3> QED BY <3>1, <3>2 DEF ResultOf
  <2>3. verdictBar'[c] = "open"
    <3>1. verdictBar'[c] = VerdictOf(req'[c], 1, pc'[c], got'[c], approved'[c])
      BY <1>0, <1>4 DEF verdictBar
    <3> QED BY <2>1, <3>1, VerdictAtFirst
  <2>4. AtomicMove(c)
    BY <1>1, <2>2, <2>3 DEF AtomicMove
  <2> QED BY <1>0, <1>4, <2>1, <2>4 DEF Turn
<1> QED BY <1>2, <1>3, <1>4 DEF Begin

\* The answer to the read of the allowance is the judgement.
LEMMA AnswerIsAtomic ==
  ASSUME NEW c \in Calls, Own(c), Answer(c)
  PROVE  Turn(c)
<1> DEFINE q == req[c]
           k == at[c]
<1>0. /\ TypeOK /\ CallInv(c) /\ pc[c] = "asked" /\ pc[c] \in Awaiting
      /\ UNCHANGED <<req, at, approved, txs, allowance>>
      /\ got' = [got EXCEPT ![c] = ValueOf(CurrentRead(c))]
      /\ pc' = [pc EXCEPT ![c] = "answered"]
  BY DEF Own, Answer, Awaiting, chainVars
<1>1. q \in Accepted /\ k \in 1..4 /\ k <= Len(Reads(q)) /\ k \in 1..5
  BY <1>0, AwaitingAt
<1>2. /\ pc'[c] = "answered" /\ got'[c] = ValueOf(CurrentRead(c))
      /\ \A d \in Calls \ {c} : pc'[d] = pc[d] /\ got'[d] = got[d]
  BY <1>0 DEF TypeOK
<1>3. resultBar[c] = "pending" /\ resultBar'[c] = "pending"
  BY <1>0, <1>2 DEF resultBar, ResultOf
<1>4. verdictBar[c] = IF JudgedBefore(q, k) THEN Settled(approved[c]) ELSE "open"
  BY <1>0, <1>1, VerdictBefore DEF verdictBar
<1>5. verdictBar'[c] = IF IsAllowance(PlanOf[q], k)
                       THEN Settled(Suffices(PlanOf[q], ValueOf(CurrentRead(c))))
                       ELSE IF JudgedBefore(q, k) THEN Settled(approved[c])
                       ELSE "open"
  <2>1. verdictBar'[c] = VerdictOf(q, k, "answered", ValueOf(CurrentRead(c)),
                                   approved[c])
    BY <1>0, <1>2 DEF verdictBar, VerdictOf, Judged, IsEnough, PlanOf, Reads
  <2> QED BY <1>1, <2>1, VerdictAnswered
<1>6. CASE IsAllowance(PlanOf[q], k)
  <2>1. ~JudgedBefore(q, k) /\ q \in Checking
    BY <1>1, <1>6, AcceptedReads DEF JudgedBefore, OneAllowance
  <2>2. CurrentRead(c).kind \in AllowanceKinds
        /\ <<CurrentRead(c).token, CurrentRead(c).spender>> = PairOf(q)
    BY <1>1, <1>6, AcceptedReads
       DEF OneAllowance, IsAllowance, PairOf, CurrentRead, Reads
  <2>3. ValueOf(CurrentRead(c)) = allowance[PairOf(q)]
    BY <2>2 DEF ValueOf
  <2>4. AtomicMove(c)
    BY <1>3, <1>4, <1>5, <1>6, <2>1, <2>3 DEF AtomicMove, Settled, IsEnough
  <2> QED BY <1>0, <1>2, <2>4 DEF Turn
<1>7. CASE ~IsAllowance(PlanOf[q], k)
  <2>1. AtomicMove(c)
    BY <1>3, <1>4, <1>5, <1>7 DEF AtomicMove
  <2> QED BY <1>0, <1>2, <2>1 DEF Turn
<1> QED BY <1>6, <1>7

\* What the abstraction sees of a call that waits for its k-th read.
LEMMA AwaitingLooks ==
  ASSUME NEW c \in Calls, Own(c), pc[c] \in Awaiting
  PROVE  /\ req[c] \in Accepted /\ at[c] \in 1..4 /\ at[c] + 1 \in 1..5
         /\ at[c] + 1 <= Len(Reads(req[c])) + 1
         /\ txs[c] = << >> /\ pc[c] \notin {"done", "failed"}
         /\ approved[c] \in BOOLEAN
         /\ ~JudgedBefore(req[c], at[c]) => approved[c] = TRUE
         /\ IsAllowance(PlanOf[req[c]], at[c])
              <=> CurrentRead(c).kind \in AllowanceKinds
         /\ JudgedBefore(req[c], at[c] + 1)
              <=> \/ JudgedBefore(req[c], at[c])
                  \/ CurrentRead(c).kind \in AllowanceKinds
         /\ verdictBar[c] =
              IF pc[c] = "answered" /\ CurrentRead(c).kind \in AllowanceKinds
              THEN Settled(Suffices(PlanOf[req[c]], got[c]))
              ELSE IF JudgedBefore(req[c], at[c]) THEN Settled(approved[c])
              ELSE "open"
<1> DEFINE q == req[c]
           k == at[c]
<1>1. /\ TypeOK /\ CallInv(c) /\ approved[c] \in BOOLEAN
  BY DEF Own, TypeOK
<1>2. q \in Accepted /\ k \in 1..4 /\ k <= Len(Reads(q))
  BY <1>1, AwaitingAt
<1>3. k + 1 \in 1..5 /\ k + 1 <= Len(Reads(q)) + 1 /\ k \in 1..5
  <2> DEFINE n == Len(Reads(q))
  <2>1. n \in 0..4 /\ k <= n
    BY <1>2, AcceptedReads
  <2> HIDE DEF n
  <2>2. k + 1 \in 1..5 /\ k + 1 <= n + 1 /\ k \in 1..5
    BY <1>2, <2>1
  <2> QED BY <2>2 DEF n
<1>4. txs[c] = << >> /\ pc[c] \notin {"done", "failed"}
  BY <1>1 DEF CallInv, Awaiting
<1>5. ~JudgedBefore(q, k) => approved[c] = TRUE
  BY <1>1, <1>2 DEF CallInv, Started, VerdictHolds, JudgedBefore
<1>6. IsAllowance(PlanOf[q], k) <=> CurrentRead(c).kind \in AllowanceKinds
  BY <1>2, AcceptedReads DEF IsAllowance, CurrentRead, Reads
<1>7. JudgedBefore(q, k + 1) <=> JudgedBefore(q, k) \/ IsAllowance(PlanOf[q], k)
  <2>1. \A i \in 1..4 : i < k + 1 <=> i < k \/ i = k
    BY <1>2
  <2> QED BY <1>2, <2>1 DEF JudgedBefore
<1>8. pc[c] # "answered" =>
        verdictBar[c] = IF JudgedBefore(q, k) THEN Settled(approved[c]) ELSE "open"
  BY <1>2, <1>3, VerdictBefore DEF verdictBar
<1>9. pc[c] = "answered" =>
        verdictBar[c] = IF IsAllowance(PlanOf[q], k)
                        THEN Settled(Suffices(PlanOf[q], got[c]))
                        ELSE IF JudgedBefore(q, k) THEN Settled(approved[c])
                        ELSE "open"
  BY <1>2, VerdictAnswered DEF verdictBar
<1> QED BY <1>1, <1>2, <1>3, <1>4, <1>5, <1>6, <1>7, <1>8, <1>9

\* The continuation of any read but that of the allowance.
LEMMA PlainResumeIsAtomic ==
  ASSUME NEW c \in Calls, Own(c), pc[c] \in Awaiting,
         CurrentRead(c).kind \notin AllowanceKinds,
         NEW cache \in [Tokens -> Nat], req' = req, allowance' = allowance,
         Proceed(c, at[c] + 1, cache, approved[c])
  PROVE  Turn(c)
<1>1. TypeOK
  BY DEF Own
<1>2. /\ verdictBar[c] = IF JudgedBefore(req[c], at[c] + 1)
                         THEN Settled(approved[c]) ELSE "open"
      /\ ~JudgedBefore(req[c], at[c] + 1) => approved[c] = TRUE
  BY AwaitingLooks
<1> QED BY <1>1, <1>2, AwaitingLooks, ProceedIsAtomic

LEMMA ResumeIsAtomic ==
  ASSUME NEW c \in Calls, Own(c), Resume(c)
  PROVE  Turn(c)
<1>0. TypeOK /\ CallInv(c) /\ tokenDecimals \in [Tokens -> Nat]
  BY DEF Own, TypeOK
<1>1. CASE ResumeCached(c)
  <2>1. /\ pc[c] \in Awaiting /\ CurrentRead(c).kind \notin AllowanceKinds
        /\ req' = req /\ allowance' = allowance
        /\ Proceed(c, at[c] + 1, tokenDecimals, approved[c])
    BY <1>0, <1>1 DEF ResumeCached, CallInv, IsCached, Awaiting, chainVars
  <2> QED BY <1>0, <2>1, PlainResumeIsAtomic
<1>2. CASE ResumeDecimals(c)
  <2>1. /\ pc[c] \in Awaiting /\ CurrentRead(c).kind \notin AllowanceKinds
        /\ req' = req /\ allowance' = allowance
        /\ Proceed(c, at[c] + 1, tokenDecimals', approved[c])
    BY <1>2 DEF ResumeDecimals, Awaiting, chainVars
  <2>2. tokenDecimals' \in [Tokens -> Nat]
    BY <1>0, <1>2 DEF ResumeDecimals, TypeOK
  <2> QED BY <2>1, <2>2, PlainResumeIsAtomic
<1>3. CASE ResumeLookup(c)
  <2>1. /\ pc[c] \in Awaiting /\ CurrentRead(c).kind \notin AllowanceKinds
        /\ req' = req /\ allowance' = allowance
        /\ Proceed(c, at[c] + 1, tokenDecimals, approved[c])
    BY <1>3 DEF ResumeLookup, Awaiting, chainVars
  <2> QED BY <1>0, <2>1, PlainResumeIsAtomic
<1>4. CASE ResumeTransferable(c)
  <2>0. /\ pc[c] = "answered" /\ pc[c] \in Awaiting
        /\ CurrentRead(c).kind \notin AllowanceKinds
        /\ req' = req /\ allowance' = allowance
    BY <1>4 DEF ResumeTransferable, Awaiting, chainVars
  <2>1. CASE Proceed(c, at[c] + 1, tokenDecimals, approved[c])
    BY <1>0, <2>0, <2>1, PlainResumeIsAtomic
  <2>2. CASE /\ pc' = [pc EXCEPT ![c] = "failed"]
             /\ got' = [got EXCEPT ![c] = 0] /\ UNCHANGED <<at, approved, txs>>
    <3>1. /\ pc'[c] = "failed" /\ got'[c] = 0
          /\ \A d \in Calls \ {c} : pc'[d] = pc[d] /\ got'[d] = got[d]
      BY <1>0, <2>2 DEF TypeOK
    <3>2. resultBar[c] = "pending" /\ resultBar'[c] = "failed"
      BY <2>0, <3>1 DEF resultBar, ResultOf
    <3>3. verdictBar'[c] = VerdictOf(req[c], at[c], "failed", 0, approved[c])
      BY <2>0, <2>2, <3>1 DEF verdictBar, VerdictOf, Judged, IsEnough, PlanOf, Reads
    <3>4. req[c] \in Accepted /\ at[c] \in 1..5
      BY <2>0, <1>0, AwaitingAt
    <3>5. verdictBar'[c] = IF JudgedBefore(req[c], at[c]) THEN Settled(approved[c])
                           ELSE "open"
      BY <3>3, <3>4, VerdictBefore
    <3>6. verdictBar'[c] = verdictBar[c]
      BY <2>0, <3>5, AwaitingLooks
    <3>7. AtomicMove(c)
      BY <3>2, <3>6 DEF AtomicMove
    <3> QED BY <2>0, <2>2, <3>1, <3>7 DEF Turn
  <2> QED BY <1>4, <2>1, <2>2 DEF ResumeTransferable
<1>5. CASE ResumeAllowance(c)
  <2> DEFINE ok == Suffices(Plan(req[c], tokenDecimals), got[c])
  <2>0. /\ pc[c] = "answered" /\ pc[c] \in Awaiting
        /\ CurrentRead(c).kind \in AllowanceKinds
        /\ req' = req /\ allowance' = allowance
        /\ Proceed(c, at[c] + 1, tokenDecimals, ok)
    BY <1>5 DEF ResumeAllowance, Awaiting, chainVars
  <2>1. ok \in BOOLEAN /\ ok = Suffices(PlanOf[req[c]], got[c])
    BY <2>0, VerdictNow DEF Own
  <2> HIDE DEF ok
  <2>2. /\ JudgedBefore(req[c], at[c] + 1) /\ verdictBar[c] = Settled(ok)
    BY <2>0, <2>1, AwaitingLooks
  <2> QED BY <1>0, <2>0, <2>1, <2>2, AwaitingLooks, ProceedIsAtomic
<1> QED BY <1>1, <1>2, <1>3, <1>4, <1>5 DEF Resume

LEMMA RejectIsAtomic ==
  ASSUME NEW c \in Calls, Own(c), Reject(c)
  PROVE  Turn(c)
BY FailIsAtomic DEF Own, Reject, chainVars

-----------------------------------------------------------------------------
(* TxBuilder by itself. *)

AtomicStep == [Atomic!Next]_(Atomic!vars)

\* Such a step is a step of Atomic.
LEMMA OneMoves ==
  ASSUME NEW c \in Calls, Turn(c)
  PROVE  AtomicStep
<1> DEFINE v == verdictBar'[c]
           r == resultBar'[c]
<1>0. req' = req /\ allowance' = allowance /\ AtomicMove(c)
  BY DEF Turn
<1>1. /\ verdictBar' = [verdictBar EXCEPT ![c] = v]
      /\ resultBar' = [resultBar EXCEPT ![c] = r]
  <2>1. /\ verdictBar' = [verdictBar EXCEPT ![c] =
              VerdictOf(req'[c], at'[c], pc'[c], got'[c], approved'[c])]
        /\ resultBar' = [resultBar EXCEPT ![c] = ResultOf(pc'[c], txs'[c])]
    BY OthersLookTheSame DEF Turn
  <2> QED BY <2>1 DEF verdictBar, resultBar
<1>2. /\ verdictBar[c] = v => verdictBar' = verdictBar
      /\ resultBar[c] = r => resultBar' = resultBar
  BY <1>1 DEF verdictBar, resultBar
<1> HIDE DEF v, r
<1>3. CASE verdictBar[c] = v /\ resultBar[c] = r
  BY <1>0, <1>2, <1>3 DEF AtomicStep, Atomic!vars
<1>4. CASE resultBar[c] = "pending" /\ verdictBar[c] = v /\ r = "failed"
  <2>1. Atomic!Fail(c)
    BY <1>0, <1>1, <1>2, <1>4 DEF Atomic!Fail
  <2> QED BY <2>1 DEF AtomicStep, Atomic!Next
<1>5. CASE /\ resultBar[c] = "pending" /\ verdictBar[c] = v
           /\ verdictBar[c] = "open" /\ r = "nothing"
  <2>1. Atomic!Decline(c)
    BY <1>0, <1>1, <1>2, <1>5 DEF Atomic!Decline
  <2> QED BY <2>1 DEF AtomicStep, Atomic!Next
<1>6. CASE /\ resultBar[c] = "pending" /\ verdictBar[c] = v
           /\ verdictBar[c] = "open" => req[c] \notin Checking
           /\ r = IF verdictBar[c] = "short" THEN "approval, action" ELSE "action"
  <2>1. Atomic!Return(c)
    BY <1>0, <1>1, <1>2, <1>6 DEF Atomic!Return
  <2> QED BY <2>1 DEF AtomicStep, Atomic!Next
<1>7. CASE /\ resultBar[c] = "pending" /\ verdictBar[c] = "open"
           /\ req[c] \in Checking /\ r = resultBar[c]
           /\ v = IF IsEnough(req[c], allowance[PairOf(req[c])])
                  THEN "enough" ELSE "short"
  <2>1. Atomic!Judge(c)
    BY <1>0, <1>1, <1>2, <1>7 DEF Atomic!Judge
  <2> QED BY <2>1 DEF AtomicStep, Atomic!Next
<1> QED BY <1>0, <1>3, <1>4, <1>5, <1>6, <1>7 DEF AtomicMove, v, r

LEMMA NextCallIsAtomic ==
  ASSUME IInv, NEW c \in Calls, NextCall(c)
  PROVE  AtomicStep
<1>0. TypeOK /\ CallInv(c)
  BY DEF IInv
<1>1. /\ pc[c] \in {"done", "failed"} /\ allowance' = allowance
      /\ pc'[c] = "idle" /\ at'[c] = 1 /\ txs'[c] = << >>
      /\ \A d \in Calls \ {c} :
           /\ req'[d] = req[d] /\ pc'[d] = pc[d] /\ at'[d] = at[d]
           /\ got'[d] = got[d] /\ approved'[d] = approved[d]
           /\ txs'[d] = txs[d]
      /\ \E q \in Requests : req' = [req EXCEPT ![c] = q]
  BY <1>0 DEF NextCall, TypeOK, chainVars
<1>2. verdictBar' = [verdictBar EXCEPT ![c] = "open"]
  <2>1. VerdictOf(req'[c], at'[c], pc'[c], got'[c], approved'[c]) = "open"
    BY <1>1, VerdictAtFirst
  <2> QED BY <1>1, <2>1, OthersLookTheSame
<1>3. resultBar' = [resultBar EXCEPT ![c] = "pending"]
  <2>1. ResultOf(pc'[c], txs'[c]) = "pending"
    BY <1>1 DEF ResultOf
  <2> QED BY <1>1, <2>1, OthersLookTheSame
<1>4. resultBar[c] # "pending"
  <2>1. CASE pc[c] = "failed"
    BY <2>1 DEF resultBar, ResultOf
  <2>2. CASE pc[c] = "done"
    <3>1. txs[c] \in Lists
      BY <1>0 DEF TypeOK
    <3> QED BY <2>2, <3>1 DEF resultBar, ResultOf, Lists
  <2> QED BY <1>1, <2>1, <2>2
<1>5. Atomic!CallAgain(c)
  BY <1>1, <1>2, <1>3, <1>4 DEF Atomic!CallAgain
<1> QED BY <1>5 DEF AtomicStep, Atomic!Next

\* What is seen of the calls does not depend on the chain.
LEMMA OutsideIsAtomic ==
  ASSUME IInv, IInv', Outside
  PROVE  AtomicStep
<1>1. UNCHANGED callVars /\ allowance' \in [Pairs -> 0..MaxUint]
  BY DEF Outside, AllowanceMoves, TransferableMoves, IInv, TypeOK
<1>2. verdictBar' = verdictBar /\ resultBar' = resultBar /\ req' = req
  BY <1>1 DEF callVars, verdictBar, resultBar, VerdictOf, ResultOf, Judged,
              IsEnough, PlanOf, Reads
<1>3. Atomic!AllowanceChanges
  BY <1>1, <1>2 DEF Atomic!AllowanceChanges
<1> QED BY <1>3 DEF AtomicStep, Atomic!Next

LEMMA NextIsAtomic == IInv /\ IInv' /\ [Next]_vars => AtomicStep
<1> SUFFICES ASSUME IInv, IInv', [Next]_vars PROVE AtomicStep
  OBVIOUS
<1>0. \A c \in Calls : Own(c)
  BY DEF IInv, Own
<1>1. ASSUME NEW c \in Calls, CallStep(c) PROVE AtomicStep
  <2>1. CASE Reject(c)
    BY <1>0, <2>1, RejectIsAtomic, OneMoves
  <2>2. CASE Begin(c) \/ Answer(c) \/ Resume(c)
    BY <1>0, <2>2, BeginIsAtomic, AnswerIsAtomic, ResumeIsAtomic, OneMoves
  <2> QED BY <1>1, <2>1, <2>2, NextCallIsAtomic DEF CallStep
<1>2. CASE UNCHANGED vars
  <2>1. UNCHANGED callVars /\ allowance' = allowance
    BY <1>2 DEF vars, chainVars
  <2>2. verdictBar' = verdictBar /\ resultBar' = resultBar /\ req' = req
    BY <2>1 DEF callVars, verdictBar, resultBar, VerdictOf, ResultOf, Judged,
                IsEnough, PlanOf, Reads
  <2> QED BY <2>1, <2>2 DEF AtomicStep, Atomic!vars
<1> QED BY <1>1, <1>2, OutsideIsAtomic DEF Next

LEMMA InitIsAtomic == Init => Atomic!Init
<1> SUFFICES ASSUME Init PROVE Atomic!Init
  OBVIOUS
<1>0. \A c \in Calls : at[c] = 1 /\ pc[c] = "idle"
  BY DEF Init
<1>1. \A c \in Calls : verdictBar[c] = "open"
  BY <1>0, VerdictAtFirst DEF verdictBar
<1>2. \A c \in Calls : resultBar[c] = "pending"
  BY DEF Init, resultBar, ResultOf
<1>3. /\ verdictBar = [c \in Calls |-> "open"]
      /\ resultBar = [c \in Calls |-> "pending"]
  BY <1>1, <1>2 DEF verdictBar, resultBar
<1>4. allowance \in [Pairs -> 0..MaxUint] /\ req \in [Calls -> Requests]
  BY InitInv DEF IInv, TypeOK
<1> QED BY <1>3, <1>4 DEF Atomic!Init

(***************************************************************************)
(* Every call is atomic: whatever it awaits and whatever the other calls   *)
(* leave in the decimals cache meanwhile, it acts as if it had judged the  *)
(* user's allowance at one instant, and returned the whole list that this  *)
(* judgement calls for, or nothing.                                        *)
(***************************************************************************)
THEOREM CallsAreAtomic == Spec => BuildsAtomically
<1>1. IInv /\ IInv' /\ [Next]_vars => [Atomic!Next]_(Atomic!vars)
  BY NextIsAtomic DEF AtomicStep
<1> QED BY <1>1, InitIsAtomic, Invariance, PTL
        DEF Spec, BuildsAtomically, Atomic!Spec

-----------------------------------------------------------------------------
(* In the application. *)

AsSentStep == [AsSent!Next]_(AsSent!vars)

\* Of a call that has no mined approval the two abstractions see the same.
LEMMA SeenAlike ==
  ASSUME NEW c \in Calls
  PROVE  /\ "approval" \notin mined[c] => returnedBar[c] = resultBar[c]
         /\ "approval" \notin mined'[c] => returnedBar'[c] = resultBar'[c]
BY DEF returnedBar, resultBar, ReturnedOf

\* Of the others, what they have seen.
LEMMA OthersReturned ==
  ASSUME NEW c \in Calls, mined' = mined,
         \A d \in Calls \ {c} : pc'[d] = pc[d] /\ txs'[d] = txs[d]
  PROVE  returnedBar' = [returnedBar EXCEPT ![c] = returnedBar'[c]]
<1>1. returnedBar' = [d \in Calls |-> ReturnedOf(pc'[d], txs'[d], mined'[d])]
  BY DEF returnedBar, ReturnedOf, ResultOf
<1> QED BY <1>1 DEF returnedBar

\* A step of the builder is a step of the abstraction here as well.
LEMMA OneMovesAsSent ==
  ASSUME NEW c \in Calls, Turn(c), mined' = mined, "approval" \notin mined[c]
  PROVE  AsSentStep
<1> DEFINE v == verdictBar'[c]
           r == returnedBar'[c]
<1>0. req' = req /\ allowance' = allowance /\ AtomicMove(c)
  BY DEF Turn
<1>1. /\ verdictBar' = [verdictBar EXCEPT ![c] = v]
      /\ returnedBar' = [returnedBar EXCEPT ![c] = r]
  <2>1. verdictBar' = [verdictBar EXCEPT ![c] =
              VerdictOf(req'[c], at'[c], pc'[c], got'[c], approved'[c])]
    BY OthersLookTheSame DEF Turn
  <2>2. returnedBar' = [returnedBar EXCEPT ![c] = returnedBar'[c]]
    BY OthersReturned DEF Turn
  <2> QED BY <2>1, <2>2 DEF verdictBar
<1>2. /\ verdictBar[c] = v => verdictBar' = verdictBar
      /\ returnedBar[c] = r => returnedBar' = returnedBar
  BY <1>1 DEF verdictBar, returnedBar
<1>3. resultBar[c] = returnedBar[c] /\ resultBar'[c] = r
  BY SeenAlike
<1> HIDE DEF v, r
<1>4. CASE verdictBar[c] = v /\ returnedBar[c] = r
  BY <1>0, <1>2, <1>4 DEF AsSentStep, AsSent!vars
<1>5. CASE returnedBar[c] = "pending" /\ verdictBar[c] = v /\ r = "failed"
  <2>1. AsSent!Fail(c)
    BY <1>0, <1>1, <1>2, <1>5 DEF AsSent!Fail
  <2> QED BY <2>1 DEF AsSentStep, AsSent!Next
<1>6. CASE /\ returnedBar[c] = "pending" /\ verdictBar[c] = v
           /\ verdictBar[c] = "open" /\ r = "nothing"
  <2>1. AsSent!Decline(c)
    BY <1>0, <1>1, <1>2, <1>6 DEF AsSent!Decline
  <2> QED BY <2>1 DEF AsSentStep, AsSent!Next
<1>7. CASE /\ returnedBar[c] = "pending" /\ verdictBar[c] = v
           /\ verdictBar[c] = "open" => req[c] \notin Checking
           /\ r = IF verdictBar[c] = "short" THEN "approval, action" ELSE "action"
  <2>1. AsSent!Return(c)
    BY <1>0, <1>1, <1>2, <1>7 DEF AsSent!Return
  <2> QED BY <2>1 DEF AsSentStep, AsSent!Next
<1>8. CASE /\ returnedBar[c] = "pending" /\ verdictBar[c] = "open"
           /\ req[c] \in Checking /\ r = returnedBar[c]
           /\ v = IF IsEnough(req[c], allowance[PairOf(req[c])])
                  THEN "enough" ELSE "short"
  <2>1. AsSent!Judge(c)
    BY <1>0, <1>1, <1>2, <1>8 DEF AsSent!Judge
  <2> QED BY <2>1 DEF AsSentStep, AsSent!Next
<1> QED BY <1>0, <1>3, <1>4, <1>5, <1>6, <1>7, <1>8 DEF AtomicMove, v

\* A step that leaves the calls alone, and in their lists at most what is mined.
LEMMA CallsStay ==
  ASSUME WInv', UNCHANGED <<req, pc, at, got, approved>>, returnedBar' = returnedBar
  PROVE  AsSentStep
<1>1. allowance' \in [Pairs -> 0..MaxUint]
  BY DEF WInv, TypeOK
<1>2. verdictBar' = verdictBar /\ req' = req
  BY DEF verdictBar, VerdictOf, Judged, IsEnough, PlanOf, Reads
<1>3. AsSent!AllowanceChanges
  BY <1>1, <1>2 DEF AsSent!AllowanceChanges
<1> QED BY <1>3 DEF AsSentStep, AsSent!Next

\* In particular one of the wallet, the chain or the provider.
LEMMA ListsStay ==
  ASSUME WInv', UNCHANGED <<callVars, mined>>
  PROVE  AsSentStep
<1>1. returnedBar' = returnedBar
  BY DEF returnedBar, ReturnedOf, ResultOf, callVars
<1> QED BY <1>1, CallsStay DEF callVars

LEMMA ShiftIsUnseen ==
  ASSUME WInv, WInv', NEW c \in Calls, ShiftList(c)
  PROVE  AsSentStep
<1>1. /\ "approval" \in mined[c] /\ mined' = mined /\ pc' = pc
      /\ \A d \in Calls \ {c} : txs'[d] = txs[d]
      /\ UNCHANGED <<req, pc, at, got, approved>>
  BY DEF ShiftList, walletVars, WInv, TypeOK
<1>2. pc[c] = "done"
  BY <1>1 DEF WInv, Kept, SentWhenBuilt
<1>3. returnedBar'[c] = returnedBar[c]
  BY <1>1, <1>2 DEF returnedBar, ReturnedOf
<1>4. returnedBar' = returnedBar
  BY <1>1, <1>3, OthersReturned DEF returnedBar
<1> QED BY <1>1, <1>4, CallsStay

\* What is mined is what was returned.
LEMMA MinedAsReturned ==
  ASSUME WInv, WInv', NEW c \in Calls, MineApproval(c) \/ MineAction(c)
  PROVE  AsSentStep
<1>1. /\ wallet[c] = "signed" /\ UNCHANGED callVars
      /\ \A d \in Calls \ {c} : mined'[d] = mined[d]
  BY DEF WInv, WalletTypeOK, MineApproval, MineAction
<1>2. /\ pc[c] = "done" /\ txs[c] # << >> /\ "action" \notin mined[c]
  BY <1>1 DEF WInv, Kept, SentWhenBuilt
<1>3. returnedBar'[c] = returnedBar[c]
  <2>1. CASE MineApproval(c)
    <3>1. txs[c] = <<"approval", "action">> /\ "approval" \notin mined[c]
      BY <1>2, <2>1, NextOfList DEF MineApproval
    <3>2. returnedBar[c] = "approval, action"
      BY <1>2, <3>1, ListShapes DEF returnedBar, ReturnedOf, ResultOf
    <3>3. "approval" \in mined'[c] /\ pc'[c] = "done"
      BY <1>1, <1>2, <2>1 DEF MineApproval, WInv, WalletTypeOK, callVars
    <3> QED BY <3>2, <3>3 DEF returnedBar, ReturnedOf
  <2>2. CASE MineAction(c)
    <3>1. "approval" \in mined'[c] <=> "approval" \in mined[c]
      <4>1. mined' = [mined EXCEPT ![c] = mined[c] \cup {"action"}] \/ mined' = mined
        BY <2>2 DEF MineAction
      <4>2. mined'[c] = mined[c] \cup {"action"} \/ mined'[c] = mined[c]
        BY <4>1 DEF WInv, WalletTypeOK
      <4> QED BY <4>2
    <3>2. resultBar'[c] = resultBar[c]
      BY <1>1 DEF resultBar, ResultOf, callVars
    <3>3. /\ returnedBar[c] = IF "approval" \in mined[c] THEN "approval, action"
                              ELSE resultBar[c]
          /\ returnedBar'[c] = IF "approval" \in mined'[c] THEN "approval, action"
                               ELSE resultBar'[c]
      BY <1>1, <1>2 DEF returnedBar, resultBar, ReturnedOf, callVars
    <3> QED BY <3>1, <3>2, <3>3
  <2> QED BY <2>1, <2>2
<1>4. returnedBar' = returnedBar
  <2>1. returnedBar' = [d \in Calls |-> ReturnedOf(pc'[d], txs'[d], mined'[d])]
    BY DEF returnedBar, ReturnedOf, ResultOf
  <2>2. ASSUME NEW d \in Calls \ {c}
        PROVE  ReturnedOf(pc'[d], txs'[d], mined'[d]) = ReturnedOf(pc[d], txs[d], mined[d])
    BY <1>1 DEF callVars
  <2>3. ReturnedOf(pc'[c], txs'[c], mined'[c]) = ReturnedOf(pc[c], txs[c], mined[c])
    BY <1>3, <2>1 DEF returnedBar
  <2> QED BY <2>1, <2>2, <2>3 DEF returnedBar
<1> QED BY <1>1, <1>4, CallsStay DEF callVars

\* Starting over is another call with the same request.
LEMMA RebuildCallsAgain ==
  ASSUME WInv, NEW c \in Calls, Rebuild(c)
  PROVE  AsSentStep
<1>1. /\ req' = req /\ allowance' = allowance /\ req \in [Calls -> Requests]
      /\ pc'[c] = "idle" /\ at'[c] = 1 /\ txs'[c] = << >> /\ mined'[c] = {}
      /\ \A d \in Calls \ {c} :
           /\ pc'[d] = pc[d] /\ at'[d] = at[d] /\ got'[d] = got[d]
           /\ approved'[d] = approved[d] /\ txs'[d] = txs[d] /\ mined'[d] = mined[d]
  BY DEF Rebuild, WInv, TypeOK, WalletTypeOK, chainVars
<1>2. verdictBar' = [verdictBar EXCEPT ![c] = "open"]
  <2>1. VerdictOf(req'[c], at'[c], pc'[c], got'[c], approved'[c]) = "open"
    BY <1>1, VerdictAtFirst
  <2> QED BY <1>1, <2>1, OthersLookTheSame
<1>3. returnedBar' = [returnedBar EXCEPT ![c] = "pending"]
  <2>1. returnedBar' = [d \in Calls |-> ReturnedOf(pc'[d], txs'[d], mined'[d])]
    BY DEF returnedBar, ReturnedOf, ResultOf
  <2>2. ReturnedOf(pc'[c], txs'[c], mined'[c]) = "pending"
    BY <1>1 DEF ReturnedOf, ResultOf
  <2> QED BY <1>1, <2>1, <2>2 DEF returnedBar
<1>4. returnedBar[c] # "pending"
  <2>1. CASE pc[c] = "failed"
    BY <2>1 DEF returnedBar, ReturnedOf, ResultOf
  <2>2. CASE wallet[c] \in {"refused", "faulted", "reverted"}
    <3>1. pc[c] = "done" /\ txs[c] \in Lists
      BY <2>2 DEF WInv, TypeOK, Kept, SentWhenBuilt
    <3> QED BY <3>1 DEF returnedBar, ReturnedOf, ResultOf, Lists
  <2> QED BY <2>1, <2>2 DEF Rebuild
<1>5. \E q \in Requests : req' = [req EXCEPT ![c] = q]
  <2>1. req[c] \in Requests /\ req = [req EXCEPT ![c] = req[c]]
    BY <1>1
  <2> QED BY <1>1, <2>1
<1>6. AsSent!CallAgain(c)
  BY <1>1, <1>2, <1>3, <1>4, <1>5 DEF AsSent!CallAgain
<1> QED BY <1>6 DEF AsSentStep, AsSent!Next

LEMMA WalletIsAtomic == WInv /\ WInv' /\ [WalletNext]_allVars => AsSentStep
<1> SUFFICES ASSUME WInv, WInv', [WalletNext]_allVars PROVE AsSentStep
  OBVIOUS
<1>1. ASSUME NEW c \in Calls, pc[c] # "done"
      PROVE  Own(c) /\ "approval" \notin mined[c]
  BY <1>1 DEF WInv, Kept, SentWhenBuilt, AsReturned, Own
<1>2. ASSUME NEW c \in Calls, Build(c) PROVE AsSentStep
  <2>1. /\ Begin(c) \/ Answer(c) \/ Resume(c)
        /\ pc[c] # "done" /\ mined' = mined
    BY <1>2 DEF Build, walletVars, Begin, Answer, Resume, ResumeCached, ResumeDecimals,
                ResumeTransferable, ResumeAllowance, ResumeLookup
  <2>2. Turn(c)
    BY <1>1, <2>1, BeginIsAtomic, AnswerIsAtomic, ResumeIsAtomic
  <2> QED BY <1>1, <2>1, <2>2, OneMovesAsSent
<1>3. ASSUME NEW c \in Calls, Fault(c) PROVE AsSentStep
  <2>1. CASE Reject(c) /\ mined' = mined
    <3>1. pc[c] # "done"
      BY <2>1 DEF Reject
    <3> QED BY <1>1, <2>1, <3>1, RejectIsAtomic, OneMovesAsSent
  <2>2. CASE UNCHANGED <<callVars, mined>>
    BY <2>2, ListsStay
  <2> QED BY <1>3, <2>1, <2>2 DEF Fault, vars
<1>4. ASSUME NEW c \in Calls,
             CallTx(c) \/ EstimateTx(c) \/ CallGas(c) \/ GasPrice(c) \/ GasEstimate(c)
      PROVE  AsSentStep
  BY <1>4, ListsStay DEF CallTx, EstimateTx, CallGas, GasPrice, GasEstimate, vars
<1>5. CASE Outside /\ UNCHANGED walletVars
  BY <1>5, ListsStay DEF Outside, AllowanceMoves, TransferableMoves, walletVars
<1>6. CASE UNCHANGED allVars
  BY <1>6, ListsStay DEF allVars, walletVars, vars
<1> QED BY <1>2, <1>3, <1>4, <1>5, <1>6, ShiftIsUnseen, MinedAsReturned,
           RebuildCallsAgain DEF WalletNext

LEMMA WalletInitIsAtomic == WalletInit => AsSent!Init
<1> SUFFICES ASSUME WalletInit PROVE AsSent!Init
  OBVIOUS
<1>1. Init /\ \A c \in Calls : mined[c] = {}
  BY DEF WalletInit
<1>2. /\ req \in [Calls -> Requests] /\ allowance \in [Pairs -> 0..MaxUint]
      /\ verdictBar = [c \in Calls |-> "open"]
      /\ resultBar = [c \in Calls |-> "pending"]
  BY <1>1, InitIsAtomic DEF Atomic!Init
<1>3. returnedBar = [c \in Calls |-> "pending"]
  BY <1>1, <1>2 DEF returnedBar, resultBar, ReturnedOf
<1> QED BY <1>2, <1>3 DEF AsSent!Init

(***************************************************************************)
(* Calls are atomic in the application as well: between lists that are     *)
(* sent, whose approvals and actions move the allowances, that are shifted *)
(* or started over, a call acts as if it had judged its allowance at one   *)
(* instant, and what it has returned stays so.                             *)
(***************************************************************************)
THEOREM SentCallsAreAtomic == WalletSpec => SendsAtomically
<1>1. WInv /\ WInv' /\ [WalletNext]_allVars => [AsSent!Next]_(AsSent!vars)
  BY WalletIsAtomic DEF AsSentStep
<1> QED BY <1>1, WalletInitIsAtomic, WalletInvariance, PTL
        DEF WalletSpec, SendsAtomically, AsSent!Spec
=============================================================================
