----------------------- MODULE DelegationBySig_proofs -----------------------
(***************************************************************************)
(* Powers go where the user said, and a signature that misses its target   *)
(* is noticed, for any number of delegations, users, names and changes.    *)
(***************************************************************************)
EXTENDS DelegationBySig, TLAPS

Current(c) == nonces[ask[c].user]

\* The nonce in hand was the contract's, and is unless one was spent since.
NonceHolds(c) ==
  (pc[c] = "resolvesFirst" \/ (pc[c] = "resolves" /\ ask[c].bySig)) =>
    /\ nonce[c] <= Current(c)
    /\ "nonce" \notin moved[c] => nonce[c] = Current(c)

\* So was the nonce of the message, and its address the one of the name.
MessageHolds(c) ==
  (ask[c].bySig /\ pc[c] \in {"prepared", "readsNonce", "resolves", "built", "sent"}) =>
    /\ message[c] \in Content /\ message[c].powers = ask[c].powers
    /\ message[c].nonce <= Current(c)
    /\ "nonce" \notin moved[c] => message[c].nonce = Current(c)
    /\ "name" \notin moved[c] => message[c].delegatee = Resolved(c)

\* The transaction was made later than the message.
LaterNonce(c) ==
  (ask[c].bySig /\ pc[c] = "resolves") => message[c].nonce <= nonce[c]

TxHolds(c) ==
  pc[c] \in {"built", "sent"} =>
    /\ tx[c] \in Content /\ tx[c].powers = ask[c].powers
    /\ "name" \notin moved[c] => tx[c].delegatee = Resolved(c)
    /\ ask[c].bySig => /\ message[c].nonce <= tx[c].nonce
                       /\ "nonce" \notin moved[c] => tx[c].nonce = Current(c)

\* What has failed has failed for a reason.
EndHolds(c) ==
  /\ pc[c] \in {"refused", "reverted"} => moved[c] # {} \/ expired[c]
  /\ pc[c] = "ineffective" => "name" \in moved[c]

\* Only what the validator accepts gets under way.
UnderWay(c) == pc[c] \notin {"idle", "thrown"} => Accepted(c)

CallInv(c) == /\ NonceHolds(c) /\ MessageHolds(c) /\ LaterNonce(c) /\ TxHolds(c)
              /\ EndHolds(c) /\ UnderWay(c)

Inv == TypeOK /\ \A c \in Calls : CallInv(c)

-----------------------------------------------------------------------------
\* An address that was resolved is one.
LEMMA ResolvedIsAddress ==
  ASSUME TypeOK, NEW c \in Calls, Accepted(c), Resolved(c) # None
  PROVE  Resolved(c) \in Addresses
<1>1. ask[c] \in Ask
  BY DelegationAssumption DEF TypeOK
<1> QED BY <1>1 DEF TypeOK, Ask, Accepted, Resolved, IsName

LEMMA AskTypes ==
  ASSUME TypeOK, NEW c \in Calls
  PROVE  /\ ask[c].user \in Users /\ ask[c].powers \in SUBSET Powers
         /\ ask[c].bySig \in BOOLEAN /\ Current(c) \in Nat
<1>1. ask[c] \in Ask
  BY DelegationAssumption DEF TypeOK
<1> QED BY <1>1 DEF TypeOK, Ask, Current

\* The content of a message or a transaction that is made now.
LEMMA SaysContent ==
  ASSUME TypeOK, NEW c \in Calls, Accepted(c), Resolved(c) # None
  PROVE  /\ Says(c) \in Content
         /\ Says(c).delegatee = Resolved(c) /\ Says(c).nonce = nonce[c]
         /\ Says(c).powers = ask[c].powers
BY ResolvedIsAddress, AskTypes DEF Says, Content, TypeOK

LEMMA InitInv == Init => Inv
BY DelegationAssumption
   DEF Init, Inv, TypeOK, CallInv, NonceHolds, MessageHolds, LaterNonce, TxHolds,
       EndHolds, UnderWay, Nothing, Phases, Ends

\* A step of one call does not touch what holds of another.
LEMMA OthersKeep ==
  ASSUME NEW d \in Calls, CallInv(d), UNCHANGED <<nonces, resolves, ask>>,
         pc'[d] = pc[d], nonce'[d] = nonce[d], message'[d] = message[d],
         tx'[d] = tx[d], expired'[d] = expired[d], moved'[d] = moved[d]
  PROVE  CallInv(d)'
BY DEF CallInv, NonceHolds, MessageHolds, LaterNonce, TxHolds, EndHolds, UnderWay,
       Current, Resolved, IsName, Accepted

\* Nor does a nonce that is spent, or a name that is set, but for the mark.
LEMMA MarkedKeeps ==
  ASSUME TypeOK, TypeOK', NEW d \in Calls, CallInv(d),
         UNCHANGED <<ask, message, tx, nonce>>,
         pc'[d] = pc[d], expired[d] => expired'[d],
         Current(d) <= Current(d)', moved[d] \subseteq moved'[d],
         "nonce" \in moved'[d] \/ Current(d)' = Current(d),
         "name" \in moved'[d] \/ Resolved(d)' = Resolved(d)
  PROVE  CallInv(d)'
<1>1. Current(d) \in Nat /\ Current(d)' \in Nat
  BY AskTypes DEF TypeOK, Current
<1>2. nonce[d] \in Nat
  BY DEF TypeOK
<1>3. NonceHolds(d)'
  BY <1>1, <1>2 DEF CallInv, NonceHolds
<1>4. MessageHolds(d)'
  BY <1>1 DEF CallInv, MessageHolds, Content
<1>5. TxHolds(d)' /\ LaterNonce(d)'
  BY <1>1 DEF CallInv, TxHolds, LaterNonce
<1>6. EndHolds(d)' /\ UnderWay(d)'
  BY DEF CallInv, EndHolds, UnderWay, Accepted
<1> QED BY <1>3, <1>4, <1>5, <1>6 DEF CallInv

\* A step of one call: what is left is what holds of that call.
LEMMA StepOfOne ==
  ASSUME Inv, TypeOK', NEW c \in Calls, CallInv(c)',
         UNCHANGED <<nonces, resolves, ask>>,
         \A d \in Calls \ {c} :
           /\ pc'[d] = pc[d] /\ nonce'[d] = nonce[d] /\ message'[d] = message[d]
           /\ tx'[d] = tx[d] /\ expired'[d] = expired[d] /\ moved'[d] = moved[d]
  PROVE  Inv'
<1>1. ASSUME NEW d \in Calls, d # c
      PROVE  CallInv(d)'
  BY <1>1, OthersKeep DEF Inv
<1> QED BY <1>1 DEF Inv

-----------------------------------------------------------------------------
(* The message. *)

LEMMA BeginKeeps == ASSUME Inv, NEW c \in Calls, Begin(c) PROVE Inv'
<1>1. TypeOK'
  BY DEF Inv, TypeOK, Begin, Goes, chainVars, Phases, Ends
<1>2. CallInv(c)'
  BY DEF Inv, TypeOK, Begin, Goes, CallInv, NonceHolds, MessageHolds, LaterNonce,
         TxHolds, EndHolds, UnderWay, Accepted
<1> QED BY <1>1, <1>2, StepOfOne DEF Begin, Goes, chainVars, Inv, TypeOK

LEMMA GetNonceKeeps == ASSUME Inv, NEW c \in Calls, GetNonce(c) PROVE Inv'
<1>1. TypeOK'
  BY AskTypes DEF Inv, TypeOK, GetNonce, Goes, chainVars, Phases, Ends, Current
<1>2. CallInv(c)'
  BY <1>1, AskTypes
     DEF Inv, TypeOK, GetNonce, Goes, chainVars, Current, CallInv, NonceHolds,
         MessageHolds, LaterNonce, TxHolds, EndHolds, UnderWay, Accepted
<1> QED BY <1>1, <1>2, StepOfOne DEF GetNonce, Goes, chainVars, Inv, TypeOK

\* The address in the message is the one the name has now.
LEMMA PrepareKeeps ==
  ASSUME Inv, NEW c \in Calls, PrepareDelegateSignature(c) PROVE Inv'
<1>1. pc[c] = "resolvesFirst" /\ Accepted(c) /\ NonceHolds(c)
  BY DEF Inv, CallInv, UnderWay, PrepareDelegateSignature
<1>2. CASE Resolved(c) = None
  <2>1. TypeOK'
    BY <1>2 DEF Inv, TypeOK, PrepareDelegateSignature, Goes, chainVars, Phases, Ends
  <2>2. CallInv(c)'
    BY <1>2 DEF Inv, TypeOK, PrepareDelegateSignature, Goes, CallInv, NonceHolds,
                MessageHolds, LaterNonce, TxHolds, EndHolds, UnderWay, Accepted
  <2> QED BY <1>2, <2>1, <2>2, StepOfOne
          DEF PrepareDelegateSignature, Goes, chainVars, Inv, TypeOK
<1>3. CASE Resolved(c) # None
  <2>1. /\ pc' = [pc EXCEPT ![c] = "prepared"]
        /\ message' = [message EXCEPT ![c] = Says(c)]
        /\ moved' = [moved EXCEPT ![c] = @ \ {"name"}]
        /\ UNCHANGED <<chainVars, ask, nonce, tx, expired, outside>>
    BY <1>3 DEF PrepareDelegateSignature, Goes
  <2>2. /\ Says(c) \in Content /\ Says(c).delegatee = Resolved(c)
        /\ Says(c).nonce = nonce[c] /\ Says(c).powers = ask[c].powers
    BY <1>1, <1>3, SaysContent DEF Inv
  <2>3. TypeOK'
    BY <2>1, <2>2 DEF Inv, TypeOK, chainVars, Phases, Ends
  <2>4. message'[c] = Says(c) /\ pc'[c] = "prepared" /\ moved'[c] \subseteq moved[c]
        /\ ("nonce" \notin moved'[c] => "nonce" \notin moved[c])
    BY <2>1 DEF Inv, TypeOK
  <2>5. Current(c)' = Current(c) /\ Resolved(c)' = Resolved(c) /\ ask' = ask
    BY <2>1 DEF Current, Resolved, IsName, chainVars
  <2>6. MessageHolds(c)'
    BY <1>1, <2>2, <2>4, <2>5 DEF NonceHolds, MessageHolds
  <2>7. CallInv(c)'
    BY <1>1, <2>4, <2>5, <2>6
       DEF CallInv, NonceHolds, LaterNonce, TxHolds, EndHolds, UnderWay, Accepted
  <2> QED BY <2>1, <2>3, <2>7, StepOfOne DEF chainVars, Inv, TypeOK
<1> QED BY <1>2, <1>3

LEMMA SignKeeps == ASSUME Inv, NEW c \in Calls, Sign(c) PROVE Inv'
<1>1. TypeOK'
  BY DEF Inv, TypeOK, Sign, Goes, chainVars, Phases, Ends
<1>2. CallInv(c)'
  BY DEF Inv, TypeOK, Sign, Goes, chainVars, Current, Resolved, IsName, CallInv,
         NonceHolds, MessageHolds, LaterNonce, TxHolds, EndHolds, UnderWay, Accepted
<1> QED BY <1>1, <1>2, StepOfOne DEF Sign, Goes, chainVars, Inv, TypeOK

-----------------------------------------------------------------------------
(* The transaction. *)

\* Nonces only grow: the second nonce is not before the first.
LEMMA ReadNonceKeeps == ASSUME Inv, NEW c \in Calls, ReadNonce(c) PROVE Inv'
<1>1. TypeOK'
  BY AskTypes DEF Inv, TypeOK, ReadNonce, Goes, chainVars, Phases, Ends, Current
<1>2. CallInv(c)'
  BY AskTypes
     DEF Inv, TypeOK, ReadNonce, Goes, chainVars, Current, Resolved, IsName,
         CallInv, NonceHolds, MessageHolds, LaterNonce, TxHolds, EndHolds,
         UnderWay, Accepted
<1> QED BY <1>1, <1>2, StepOfOne DEF ReadNonce, Goes, chainVars, Inv, TypeOK

LEMMA ResolveKeeps == ASSUME Inv, NEW c \in Calls, Resolve(c) PROVE Inv'
<1>1. /\ pc[c] = "resolves" /\ Accepted(c) /\ NonceHolds(c) /\ LaterNonce(c)
      /\ MessageHolds(c)
  BY DEF Inv, CallInv, UnderWay, Resolve
<1>2. CASE Resolved(c) = None
  <2>1. TypeOK'
    BY <1>2 DEF Inv, TypeOK, Resolve, Goes, chainVars, Phases, Ends
  <2>2. CallInv(c)'
    BY <1>2 DEF Inv, TypeOK, Resolve, Goes, CallInv, NonceHolds, MessageHolds,
                LaterNonce, TxHolds, EndHolds, UnderWay, Accepted
  <2> QED BY <1>2, <2>1, <2>2, StepOfOne DEF Resolve, Goes, chainVars, Inv, TypeOK
<1>3. CASE Resolved(c) # None
  <2>1. /\ pc' = [pc EXCEPT ![c] = "built"]
        /\ tx' = [tx EXCEPT ![c] = Says(c)]
        /\ moved' = [moved EXCEPT ![c] = IF ask[c].bySig THEN @ ELSE {}]
        /\ UNCHANGED <<chainVars, ask, nonce, message, expired, outside>>
    BY <1>3 DEF Resolve, Goes
  <2>2. /\ Says(c) \in Content /\ Says(c).delegatee = Resolved(c)
        /\ Says(c).nonce = nonce[c] /\ Says(c).powers = ask[c].powers
    BY <1>1, <1>3, SaysContent DEF Inv
  <2>3. TypeOK'
    BY <2>1, <2>2 DEF Inv, TypeOK, chainVars, Phases, Ends
  <2>4. /\ tx'[c] = Says(c) /\ pc'[c] = "built" /\ message' = message
        /\ ask[c].bySig => moved'[c] = moved[c]
    BY <2>1 DEF Inv, TypeOK
  <2>5. Current(c)' = Current(c) /\ Resolved(c)' = Resolved(c) /\ ask' = ask
    BY <2>1 DEF Current, Resolved, IsName, chainVars
  <2>6. MessageHolds(c)' /\ TxHolds(c)'
    BY <1>1, <2>2, <2>4, <2>5 DEF NonceHolds, MessageHolds, LaterNonce, TxHolds
  <2>7. CallInv(c)'
    BY <1>1, <2>4, <2>5, <2>6
       DEF CallInv, NonceHolds, LaterNonce, EndHolds, UnderWay, Accepted
  <2> QED BY <2>1, <2>3, <2>7, StepOfOne DEF chainVars, Inv, TypeOK
<1> QED BY <1>2, <1>3

LEMMA RejectKeeps == ASSUME Inv, NEW c \in Calls, Reject(c) PROVE Inv'
<1>1. TypeOK'
  BY DelegationAssumption DEF Inv, TypeOK, Reject, Goes, chainVars, Phases, Ends
<1>2. CallInv(c)'
  BY DEF Inv, TypeOK, Reject, Goes, CallInv, NonceHolds, MessageHolds, LaterNonce,
         TxHolds, EndHolds, UnderWay, Accepted
<1> QED BY <1>1, <1>2, StepOfOne DEF Reject, Goes, chainVars, Inv, TypeOK

-----------------------------------------------------------------------------
(* The contract. *)

\* Two contents are the same when they agree in what they say.
LEMMA SameContent ==
  ASSUME NEW a \in Content, NEW b \in Content, a.delegatee = b.delegatee,
         a.nonce = b.nonce, a.powers = b.powers
  PROVE  a = b
BY DEF Content

\* Where nothing moved, the signature is the one for the transaction.
LEMMA RevertedForAReason ==
  ASSUME Inv, NEW c \in Calls, pc[c] \in {"built", "sent"}, Effect(c) = "reverted"
  PROVE  moved[c] # {} \/ expired[c]
<1>1. ask[c].bySig
  BY DEF Effect
<1>2. MessageHolds(c) /\ TxHolds(c)
  BY DEF Inv, CallInv
<1>3. SUFFICES ASSUME moved[c] = {}, ~expired[c] PROVE FALSE
  OBVIOUS
<1>4. /\ message[c] \in Content /\ tx[c] \in Content
      /\ message[c].delegatee = tx[c].delegatee
      /\ message[c].nonce = Current(c) /\ tx[c].nonce = Current(c)
      /\ message[c].powers = tx[c].powers
  BY <1>1, <1>2, <1>3 DEF MessageHolds, TxHolds
<1>5. RecoversUser(c)
  BY <1>4, SameContent DEF RecoversUser
<1>6. Effect(c) = "done"
  BY <1>1, <1>3, <1>4, <1>5 DEF Effect, Current
<1> QED BY <1>6

\* A transaction with the nonce 0 was made for a message with the nonce 0.
LEMMA IneffectiveName ==
  ASSUME Inv, NEW c \in Calls, pc[c] \in {"built", "sent"},
         Effect(c) = "ineffective"
  PROVE  "name" \in moved[c]
<1>1. ask[c].bySig /\ ~RecoversUser(c) /\ tx[c].nonce = 0
  BY DEF Effect
<1>2. MessageHolds(c) /\ TxHolds(c)
  BY DEF Inv, CallInv
<1>3. SUFFICES ASSUME "name" \notin moved[c] PROVE FALSE
  OBVIOUS
<1>4. /\ message[c] \in Content /\ tx[c] \in Content
      /\ message[c].delegatee = tx[c].delegatee
      /\ message[c].nonce <= tx[c].nonce
      /\ message[c].powers = tx[c].powers
  BY <1>1, <1>2, <1>3 DEF MessageHolds, TxHolds
<1>5. message[c].nonce \in Nat
  BY <1>4 DEF Content
<1>6. message[c].nonce = tx[c].nonce
  BY <1>1, <1>4, <1>5
<1> QED BY <1>1, <1>4, <1>6, SameContent DEF RecoversUser

LEMMA CallTxKeeps == ASSUME Inv, NEW c \in Calls, CallTx(c) PROVE Inv'
<1>1. TypeOK'
  BY DEF Inv, TypeOK, CallTx, Goes, chainVars, Phases, Ends
<1>2. pc'[c] \in {"refused", "sent"} /\ pc[c] = "built"
  BY DEF CallTx, Goes, Inv, TypeOK
<1>3. pc'[c] = "refused" => moved[c] # {} \/ expired[c]
  BY RevertedForAReason DEF CallTx, Goes, Inv, TypeOK
<1>4. CallInv(c)'
  BY <1>2, <1>3
     DEF Inv, CallTx, chainVars, Current, Resolved, IsName, CallInv, NonceHolds,
         MessageHolds, LaterNonce, TxHolds, EndHolds, UnderWay, Accepted
<1> QED BY <1>1, <1>4, StepOfOne DEF CallTx, Goes, chainVars, Inv, TypeOK

-----------------------------------------------------------------------------
\* A nonce that is spent marks those who read it.
LEMMA SpentNonceKeeps ==
  ASSUME TypeOK, TypeOK', NEW u \in Users, SpendNonce(u),
         UNCHANGED <<resolves, ask, message, tx, nonce, expired>>,
         NEW d \in Calls, pc'[d] = pc[d], CallInv(d)
  PROVE  CallInv(d)'
<1>1. Current(d) \in Nat /\ moved[d] \subseteq moved'[d]
  BY AskTypes DEF SpendNonce
<1>2. CASE ask[d].user = u
  <2>1. Current(d)' = Current(d) + 1 /\ "nonce" \in moved'[d]
    BY <1>2, AskTypes DEF SpendNonce, Current, TypeOK
  <2> QED BY <1>1, <2>1, MarkedKeeps DEF Resolved, IsName
<1>3. CASE ask[d].user # u
  <2>1. Current(d)' = Current(d)
    BY <1>3, AskTypes DEF SpendNonce, Current, TypeOK
  <2> QED BY <1>1, <2>1, MarkedKeeps DEF Resolved, IsName
<1> QED BY <1>2, <1>3

LEMMA MineKeeps == ASSUME Inv, NEW c \in Calls, Mine(c) PROVE Inv'
<1>1. TypeOK
  BY DEF Inv
<1>2. pc[c] = "sent" /\ TxHolds(c) /\ UnderWay(c)
  BY DEF Mine, Inv, CallInv
<1>3. Effect(c) \in Ends
  BY DEF Effect, Ends
<1>4. pc' \in [Calls -> Phases \cup Ends] /\ pc'[c] = Effect(c)
      /\ \A d \in Calls \ {c} : pc'[d] = pc[d]
  BY <1>1, <1>3 DEF Mine, Goes, TypeOK
<1>5. tx[c].delegatee \in Addresses
  BY <1>2 DEF TxHolds, Content
<1>6. delegates' \in [Users -> [Powers -> Addresses \cup {None}]]
  <2>1. CASE Effect(c) = "done"
    <3> DEFINE row == [p \in Powers |-> IF p \in tx[c].powers THEN tx[c].delegatee
                                        ELSE delegates[ask[c].user][p]]
    <3>1. row \in [Powers -> Addresses \cup {None}]
      BY <1>1, <1>5, AskTypes DEF TypeOK
    <3>2. delegates' = [delegates EXCEPT ![ask[c].user] = row]
      BY <1>1, <2>1, AskTypes DEF Mine, TypeOK
    <3> HIDE DEF row
    <3> QED BY <1>1, <3>1, <3>2 DEF TypeOK
  <2>2. CASE Effect(c) # "done"
    BY <1>1, <2>2 DEF Mine, TypeOK
  <2> QED BY <2>1, <2>2
<1>7. nonces' \in [Users -> Nat] /\ moved' \in [Calls -> SUBSET {"nonce", "name"}]
  BY <1>1, AskTypes DEF Mine, SpendNonce, TypeOK
<1>8. TypeOK'
  BY <1>1, <1>4, <1>6, <1>7 DEF Mine, TypeOK
<1>9. UNCHANGED <<resolves, ask, message, tx, nonce, expired>>
  BY DEF Mine
<1>10. CallInv(c)'
  <2>1. pc'[c] = "reverted" => moved'[c] # {} \/ expired'[c]
    BY <1>2, <1>4, RevertedForAReason DEF Mine
  <2>2. pc'[c] = "ineffective" => "name" \in moved'[c]
    BY <1>2, <1>4, IneffectiveName DEF Mine
  <2>3. Accepted(c)'
    BY <1>2, <1>9 DEF UnderWay, Accepted
  <2>4. pc'[c] \in {"done", "reverted", "ineffective"}
    BY <1>4 DEF Effect
  <2> QED BY <2>1, <2>2, <2>3, <2>4
          DEF CallInv, NonceHolds, MessageHolds, LaterNonce, TxHolds, EndHolds,
              UnderWay
<1>11. CASE Effect(c) = "done" /\ ask[c].bySig
  <2>1. SpendNonce(ask[c].user) /\ ask[c].user \in Users
    BY <1>1, <1>11, AskTypes DEF Mine
  <2>2. ASSUME NEW d \in Calls, d # c
        PROVE  CallInv(d)'
    BY <1>1, <1>4, <1>8, <1>9, <2>1, <2>2, SpentNonceKeeps DEF Inv
  <2> QED BY <1>8, <1>10, <2>2 DEF Inv
<1>12. CASE ~(Effect(c) = "done" /\ ask[c].bySig)
  BY <1>4, <1>8, <1>9, <1>10, <1>12, StepOfOne DEF Mine
<1> QED BY <1>11, <1>12

LEMMA StartOverKeeps == ASSUME Inv, NEW c \in Calls, StartOver(c) PROVE Inv'
<1>1. TypeOK'
  BY DEF Inv, TypeOK, StartOver, Goes, chainVars, Phases, Ends
<1>2. CallInv(c)'
  BY DEF Inv, TypeOK, StartOver, Goes, CallInv, NonceHolds, MessageHolds,
         LaterNonce, TxHolds, EndHolds, UnderWay
<1> QED BY <1>1, <1>2, StepOfOne DEF StartOver, Goes, chainVars, Inv, TypeOK

LEMMA OutsideKeeps == ASSUME Inv, Outside PROVE Inv'
<1>1. TypeOK /\ \A d \in Calls : CallInv(d)
  BY DEF Inv
<1>2. UNCHANGED callVars /\ outside' \in 0..MaxOutside
  BY DelegationAssumption DEF Outside, Inv, TypeOK
<1>3. ASSUME NEW u \in Users, SpendNonce(u), UNCHANGED <<delegates, resolves, expired>>
      PROVE  Inv'
  <2>1. TypeOK'
    BY <1>1, <1>2, <1>3 DEF TypeOK, SpendNonce, callVars
  <2> QED BY <1>1, <1>2, <1>3, <2>1, SpentNonceKeeps DEF Inv, callVars
<1>4. ASSUME NEW n \in Names, NEW a \in Addresses \cup {None},
             resolves' = [resolves EXCEPT ![n] = a],
             moved' = [d \in Calls |->
               IF ask[d].delegatee = n THEN moved[d] \cup {"name"} ELSE moved[d]],
             UNCHANGED <<nonces, delegates, expired>>
      PROVE  Inv'
  <2>1. TypeOK'
    BY <1>1, <1>2, <1>4 DEF TypeOK, callVars
  <2>2. ASSUME NEW d \in Calls
        PROVE  CallInv(d)'
    <3>1. Current(d)' = Current(d) /\ Current(d) \in Nat
      BY <1>1, <1>2, <1>4, AskTypes DEF Current, callVars
    <3>2. moved[d] \subseteq moved'[d]
      BY <1>4
    <3>3. "name" \in moved'[d] \/ Resolved(d)' = Resolved(d)
      BY <1>1, <1>2, <1>4 DEF Resolved, IsName, TypeOK, callVars
    <3>4. "nonce" \in moved'[d] \/ Current(d)' = Current(d)
      BY <3>1
    <3> QED BY <1>1, <1>2, <1>4, <2>1, <3>1, <3>2, <3>3, <3>4, MarkedKeeps DEF callVars
  <2> QED BY <2>1, <2>2 DEF Inv
<1>5. ASSUME NEW c \in Calls, expired' = [expired EXCEPT ![c] = TRUE],
             UNCHANGED <<chainVars, moved>>
      PROVE  Inv'
  <2>1. TypeOK'
    BY <1>1, <1>2, <1>5 DEF TypeOK, callVars, chainVars
  <2>2. ASSUME NEW d \in Calls
        PROVE  CallInv(d)'
    <3>1. Current(d)' = Current(d) /\ Current(d) \in Nat /\ Resolved(d)' = Resolved(d)
      BY <1>1, <1>2, <1>5, AskTypes DEF Current, Resolved, IsName, callVars, chainVars
    <3>2. expired[d] => expired'[d]
      BY <1>1, <1>5 DEF TypeOK
    <3> QED BY <1>1, <1>2, <1>5, <2>1, <3>1, <3>2, MarkedKeeps DEF callVars
  <2> QED BY <2>1, <2>2 DEF Inv
<1> QED BY <1>3, <1>4, <1>5 DEF Outside

LEMMA StutterKeeps == ASSUME Inv, UNCHANGED vars PROVE Inv'
BY DEF Inv, TypeOK, vars, chainVars, callVars, CallInv, NonceHolds, MessageHolds,
       LaterNonce, TxHolds, EndHolds, UnderWay, Current, Resolved, IsName, Accepted

LEMMA NextKeeps == Inv /\ [Next]_vars => Inv'
<1> SUFFICES ASSUME Inv, [Next]_vars PROVE Inv'
  OBVIOUS
<1>1. ASSUME NEW c \in Calls, Library(c) PROVE Inv'
  BY <1>1, BeginKeeps, GetNonceKeeps, PrepareKeeps, ReadNonceKeeps, ResolveKeeps
     DEF Library
<1>2. ASSUME NEW c \in Calls, Sign(c) \/ Reject(c) \/ CallTx(c) \/ Mine(c) \/ StartOver(c)
      PROVE  Inv'
  BY <1>2, SignKeeps, RejectKeeps, CallTxKeeps, MineKeeps, StartOverKeeps
<1> QED BY <1>1, <1>2, OutsideKeeps, StutterKeeps DEF Next

LEMMA Invariance == Spec => []Inv
BY InitInv, NextKeeps, PTL DEF Spec

-----------------------------------------------------------------------------
(***************************************************************************)
(* Every variable keeps its type: what a transaction delegates to is an    *)
(* address, never a name that resolved to nothing.                         *)
(***************************************************************************)
THEOREM DelegationTypeCorrect == Spec => []TypeOK
<1>1. Inv => TypeOK
  BY DEF Inv
<1> QED BY <1>1, Invariance, PTL

(***************************************************************************)
(* A signature works when nothing moved: neither tx() refuses nor the      *)
(* contract reverts the transaction prepared from it, unless the nonce or  *)
(* the name moved after they were read or the message expired.             *)
(***************************************************************************)
THEOREM SignaturesWork == Spec => []UndisturbedSignaturesWork
<1>1. Inv => UndisturbedSignaturesWork
  BY DEF Inv, CallInv, EndHolds, UndisturbedSignaturesWork
<1> QED BY <1>1, Invariance, PTL

(***************************************************************************)
(* A spent nonce is never mistaken for a success: a mined transaction that *)
(* leaves the user's powers alone has the name's new address.              *)
(***************************************************************************)
THEOREM MismatchesShow == Spec => []NoSilentMismatch
<1>1. Inv => NoSilentMismatch
  BY DEF Inv, CallInv, EndHolds, NoSilentMismatch
<1> QED BY <1>1, Invariance, PTL

-----------------------------------------------------------------------------
\* What DelegatesAsAsked says of one step.
AsAsked ==
  \A u \in Users : delegates'[u] # delegates[u] =>
    \E c \in Calls :
      /\ ask[c].user = u /\ pc[c] # "done" /\ pc'[c] = "done"
      /\ \A p \in ask[c].powers :
           "name" \in moved[c] \/ delegates'[u][p] = Resolved(c)
      /\ \A p \in Powers \ ask[c].powers :
           delegates'[u][p] = delegates[u][p]

LEMMA MineAsAsked == ASSUME Inv, NEW c \in Calls, Mine(c) PROVE AsAsked
<1>1. TypeOK /\ TxHolds(c) /\ pc[c] = "sent"
  BY DEF Inv, CallInv, Mine
<1>2. SUFFICES ASSUME NEW u \in Users, delegates'[u] # delegates[u]
               PROVE  /\ ask[c].user = u /\ pc[c] # "done" /\ pc'[c] = "done"
                      /\ \A p \in ask[c].powers :
                           "name" \in moved[c] \/ delegates'[u][p] = Resolved(c)
                      /\ \A p \in Powers \ ask[c].powers :
                           delegates'[u][p] = delegates[u][p]
  BY DEF AsAsked
<1>3. Effect(c) = "done"
  BY <1>2 DEF Mine
<1>4. ask[c].user = u
  BY <1>1, <1>2, <1>3, AskTypes DEF Mine, TypeOK
<1>5. delegates'[u] = [p \in Powers |-> IF p \in tx[c].powers THEN tx[c].delegatee
                                        ELSE delegates[u][p]]
  BY <1>1, <1>3, <1>4 DEF Mine, TypeOK
<1>6. tx[c].powers = ask[c].powers /\ ask[c].powers \subseteq Powers
      /\ ("name" \notin moved[c] => tx[c].delegatee = Resolved(c))
  BY <1>1, AskTypes DEF TxHolds
<1>7. pc'[c] = "done"
  BY <1>1, <1>3 DEF Mine, Goes, TypeOK
<1> QED BY <1>1, <1>4, <1>5, <1>6, <1>7

\* Only the contract delegates.
LEMMA StepAsAsked == Inv /\ [Next]_vars => [AsAsked]_vars
<1> SUFFICES ASSUME Inv, Next PROVE AsAsked
  OBVIOUS
<1>1. ASSUME NEW c \in Calls, Library(c) PROVE AsAsked
  BY <1>1 DEF AsAsked, Library, Begin, GetNonce, PrepareDelegateSignature, ReadNonce,
              Resolve, chainVars
<1>2. ASSUME NEW c \in Calls, Sign(c) \/ Reject(c) \/ CallTx(c) \/ StartOver(c)
      PROVE  AsAsked
  BY <1>2 DEF AsAsked, Sign, Reject, CallTx, StartOver, chainVars
<1>3. Outside => AsAsked
  BY DEF AsAsked, Outside, chainVars
<1> QED BY <1>1, <1>2, <1>3, MineAsAsked DEF Next

(***************************************************************************)
(* Powers go where the user said, in whatever order the delegations of any *)
(* number of users run and whatever others do to nonces and names.         *)
(***************************************************************************)
THEOREM PowersGoAsAsked == Spec => DelegatesAsAsked
<1>1. Spec => [][AsAsked]_vars
  BY Invariance, StepAsAsked, PTL DEF Spec
<1> QED BY <1>1 DEF AsAsked, DelegatesAsAsked
=============================================================================
