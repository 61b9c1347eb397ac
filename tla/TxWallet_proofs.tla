-------------------------- MODULE TxWallet_proofs ---------------------------
(***************************************************************************)
(* Proofs about TxWallet, for every application over every set of calls:   *)
(* what the library established when it built a list is still true of it   *)
(* when the list is quoted, simulated and mined.                           *)
(***************************************************************************)
EXTENDS TxWallet, TxBuilder_proofs, FiniteSetTheorems

(***************************************************************************)
(* The inductive invariant, beside that of the builder.  Until the first   *)
(* transaction of a list is mined, the list is as the library returned it; *)
(* afterwards the builder's invariant need not hold of it, since its own   *)
(* approval changed the allowance and the application may have shifted it. *)
(***************************************************************************)
AsReturned(c) == mined[c] = {} => CallInv(c)

\* Only a returned list is sent or quoted, and an executed one is left alone.
SentWhenBuilt(c) ==
  /\ mined[c] # {} \/ wallet[c] # "rest" \/ quote[c] # "none"
       => pc[c] = "done" /\ txs[c] # << >>
  /\ wallet[c] # "rest" => "action" \notin mined[c]

ApprovalWasDue(c) == txs[c] = <<"approval", "action">> => ~approved[c]

\* A mined approval covers every action.
Granted(c) ==
  /\ "approval" \in mined[c] /\ "action" \notin mined[c]
  /\ "allowance" \notin moved[c] /\ req[c] \in Checking
  => allowance[PairOf(req[c])] = MaxUint

SendsWork(c) == wallet[c] \in {"refused", "reverted"} => ~Undisturbed(c)

QuotesWork(c) ==
  /\ quote[c] = "estimating" /\ ~forced[c] => txs[c] = <<"action">>
  /\ quote[c] = "nullByRevert" /\ ~forced[c] /\ "action" \notin mined[c]
       => ~Undisturbed(c)

Kept(c) == /\ AsReturned(c) /\ SentWhenBuilt(c) /\ ApprovalWasDue(c)
           /\ Granted(c) /\ SendsWork(c) /\ QuotesWork(c)

WInv == /\ WalletTypeOK /\ TypeOK /\ CacheInv
        /\ \A c \in Calls : Kept(c)

-----------------------------------------------------------------------------
(* Lists, and what a step that leaves the builder alone preserves.         *)

LEMMA ListShapes ==
  /\ <<"action">> # << >> /\ <<"approval", "action">> # << >>
  /\ <<"action">> # <<"approval", "action">>
  /\ Head(<<"action">>) = "action" /\ Head(<<"approval", "action">>) = "approval"
  /\ Tail(<<"approval", "action">>) = <<"action">>
  /\ Len(<< >>) = 0 /\ Len(<<"action">>) = 1 /\ Len(<<"approval", "action">>) = 2
  /\ <<"action">>[1] = "action" /\ <<"approval", "action">>[1] = "approval"
OBVIOUS

LEMMA InvStays ==
  ASSUME UNCHANGED vars
  PROVE  /\ TypeOK => TypeOK'
         /\ CacheInv => CacheInv'
         /\ \A d \in Calls : CallInv(d) => CallInv(d)'
BY DEF vars, callVars, chainVars, TypeOK, CacheInv, CallInv, Started,
       CurrentRead, Reads, PlanOf

\* The wallet's part of the state of a call.
WalletStill(d) ==
  /\ wallet'[d] = wallet[d] /\ mined'[d] = mined[d]
  /\ quote'[d] = quote[d] /\ forced'[d] = forced[d]

LEMMA UndisturbedStays ==
  ASSUME UNCHANGED vars, NEW d \in Calls
  PROVE  Undisturbed(d)' = Undisturbed(d)
BY DEF vars, callVars, Undisturbed

\* A step of the wallet of c that leaves the builder and the chain alone.
LEMMA QuietStep ==
  ASSUME WInv, NEW c \in Calls, UNCHANGED vars, WalletTypeOK',
         \A d \in Calls \ {c} : WalletStill(d),
         mined'[c] = mined[c],
         SentWhenBuilt(c)', SendsWork(c)', QuotesWork(c)'
  PROVE  WInv'
<1>1. TypeOK' /\ CacheInv' /\ \A d \in Calls : CallInv(d) => CallInv(d)'
  BY InvStays DEF WInv
<1>2. /\ txs' = txs /\ approved' = approved /\ moved' = moved /\ req' = req
      /\ allowance' = allowance /\ pc' = pc
  BY DEF vars, callVars, chainVars
<1>3. ASSUME NEW d \in Calls PROVE Kept(d)'
  <2>1. Kept(d) /\ mined'[d] = mined[d]
    BY DEF WInv, WalletStill
  <2>2. AsReturned(d)' /\ ApprovalWasDue(d)' /\ Granted(d)'
    BY <1>1, <1>2, <2>1 DEF Kept, AsReturned, ApprovalWasDue, Granted, PairOf, PlanOf
  <2>3. SentWhenBuilt(d)' /\ SendsWork(d)' /\ QuotesWork(d)'
    <3>1. CASE d = c
      BY <3>1
    <3>2. CASE d # c
      BY <1>2, <2>1, <3>2, UndisturbedStays
         DEF Kept, SentWhenBuilt, SendsWork, QuotesWork, WalletStill
    <3> QED BY <3>1, <3>2
  <2> QED BY <2>2, <2>3 DEF Kept
<1> QED BY <1>1, <1>3 DEF WInv

-----------------------------------------------------------------------------
(* What a returned list is worth to the one who sends it.                  *)

LEMMA DrawsBounded ==
  ASSUME NEW q \in Requests
  PROVE  /\ Draws(q) \in 0..MaxUint
         /\ q \in Checking /\ NamesItsAmount(q) => Draws(q) <= Spends(q)
<1>1. CASE q \notin Checking
  BY <1>1, RequestAssumption DEF Draws, Positive
<1>2. CASE q \in Checking
  <2>1. /\ PlanOf[q].amount \in 0..MaxUint /\ Outstanding \in 0..SuperBig
        /\ SuperBig < MaxUint /\ SuperBig \in Nat /\ MaxUint \in Nat
    BY <1>2, WalletAssumption, RequestAssumption DEF Positive
  <2>2. CASE q.amount = All \/ ~NamesItsAmount(q)
    BY <1>2, <2>1, <2>2 DEF Draws, Spends
  <2>3. CASE ~(q.amount = All \/ ~NamesItsAmount(q))
    BY <1>2, <2>1, <2>3 DEF Draws, Spends
  <2> QED BY <2>2, <2>3
<1> QED BY <1>1, <1>2

\* The list of a call none of whose transactions are mined.
LEMMA FreshList ==
  ASSUME WInv, NEW c \in Calls, pc[c] = "done", txs[c] # << >>, mined[c] = {}
  PROVE  /\ Own(c) /\ req[c] \in Accepted /\ txs[c] = Listed(approved[c])
         /\ ~approved[c] => req[c] \in Checking
<1>1. Own(c) /\ CallInv(c)
  BY DEF WInv, Kept, AsReturned, Own
<1>2. req[c] \in Accepted
  BY <1>1 DEF CallInv
<1>3. /\ txs[c] = Listed(approved[c])
      /\ VerdictHolds(req[c], at[c], approved[c], allowance, moved[c])
  BY <1>1, <1>2, DoneHolds
<1>4. \A k \in 1..4 : IsAllowance(PlanOf[req[c]], k) => req[c] \in Checking
  BY <1>2, AcceptedReads
<1>5. ~approved[c] => req[c] \in Checking
  BY <1>3, <1>4 DEF VerdictHolds
<1> QED BY <1>1, <1>2, <1>3, <1>5

(* The heart of the matter: when the action's turn comes and nobody else   *)
(* has touched the allowance, the contract can pull what the action draws. *)
LEMMA ListWorks ==
  ASSUME WInv, NEW c \in Calls, pc[c] = "done", txs[c] # << >>,
         "action" \notin mined[c],
         mined[c] = {} => txs[c] = <<"action">>,
         Undisturbed(c)
  PROVE  WouldSucceed(c, "action")
<1> SUFFICES ASSUME req[c] \in Checking
             PROVE  allowance[PairOf(req[c])] >= Draws(req[c])
  BY DEF WouldSucceed
<1>1. /\ req[c] \in Requests /\ req[c] \in Accepted
      /\ NamesItsAmount(req[c]) /\ "allowance" \notin moved[c]
  BY DEF Checking, Accepted, Undisturbed
<1>2. /\ Draws(req[c]) \in 0..MaxUint /\ Draws(req[c]) <= Spends(req[c])
      /\ MaxUint \in Nat
  BY <1>1, DrawsBounded, RequestAssumption DEF Positive
<1>3. CASE mined[c] = {}
  <2>1. Own(c)
    BY <1>3, FreshList
  <2>2. CurrentVerdict(c)
    BY <1>1 DEF CurrentVerdict
  <2>3. allowance[PairOf(req[c])] >= Spends(req[c])
    BY <1>1, <1>3, <2>1, <2>2, ListIsCovered
  <2>4. allowance[PairOf(req[c])] \in 0..MaxUint
    BY <2>1 DEF Own, TypeOK, Pairs
  <2>5. Spends(req[c]) \in Int
    <3>1. SuperBig \in Int /\ PlanOf[req[c]].amount \in Int
      BY WalletAssumption, RequestAssumption DEF Positive
    <3> QED BY <3>1 DEF Spends
  <2> QED BY <1>2, <2>3, <2>4, <2>5
<1>4. CASE mined[c] # {}
  <2>1. "approval" \in mined[c] /\ Granted(c)
    BY <1>4 DEF WInv, WalletTypeOK, Kept
  <2>2. allowance[PairOf(req[c])] = MaxUint
    BY <1>1, <2>1 DEF Granted
  <2> QED BY <1>2, <2>2
<1> QED BY <1>3, <1>4

\* The next transaction of a list that has not been executed.
LEMMA NextOfList ==
  ASSUME WInv, NEW c \in Calls, pc[c] = "done", txs[c] # << >>,
         "action" \notin mined[c]
  PROVE  \/ /\ NextTx(c) = "approval" /\ mined[c] = {}
            /\ txs[c] = <<"approval", "action">>
         \/ /\ NextTx(c) = "action"
            /\ mined[c] = {} => txs[c] = <<"action">>
<1>1. txs[c] \in {<<"action">>, <<"approval", "action">>}
  BY DEF WInv, TypeOK, Lists
<1>2. mined[c] \in {{}, {"approval"}}
  BY DEF WInv, WalletTypeOK
<1> QED BY <1>1, <1>2, ListShapes DEF NextTx

-----------------------------------------------------------------------------
(* The steps.                                                              *)

LEMMA WalletInitInv == WalletInit => WInv
<1> SUFFICES ASSUME WalletInit PROVE WInv
  OBVIOUS
<1>1. TypeOK /\ CacheInv /\ \A c \in Calls : CallInv(c)
  BY InitInv DEF WalletInit, IInv
<1>2. WalletTypeOK
  BY WalletAssumption DEF WalletInit, WalletTypeOK
<1>3. ASSUME NEW c \in Calls PROVE Kept(c)
  <2>1. /\ wallet[c] = "rest" /\ mined[c] = {} /\ quote[c] = "none"
        /\ txs[c] = << >>
    BY DEF WalletInit, Init
  <2> QED BY <1>1, <2>1, ListShapes
       DEF Kept, AsReturned, SentWhenBuilt, ApprovalWasDue, Granted, SendsWork,
           QuotesWork
<1> QED BY <1>1, <1>2, <1>3 DEF WInv

(* A step of a call that is being built: none of its transactions exist.   *)
LEMMA BuilderStep ==
  ASSUME WInv, NEW c \in Calls, pc[c] # "done", CallStep(c),
         UNCHANGED <<wallet, mined, quote, forced>>, WalletTypeOK'
  PROVE  WInv'
<1>1. /\ mined[c] = {} /\ wallet[c] = "rest" /\ quote[c] = "none"
      /\ Own(c)
  BY DEF WInv, Kept, SentWhenBuilt, AsReturned, Own
<1>2. Own(c)' /\ Alone(c)
  BY <1>1, CallStepKeeps
<1>3. Kept(c)'
  <2>1. /\ mined'[c] = {} /\ wallet'[c] = "rest" /\ quote'[c] = "none"
        /\ CallInv(c)'
    BY <1>1, <1>2 DEF Own
  <2>2. txs'[c] = <<"approval", "action">> => ~approved'[c]
    BY <2>1, ListShapes DEF CallInv, Listed
  <2> QED BY <2>1, <2>2
       DEF Kept, AsReturned, SentWhenBuilt, ApprovalWasDue, Granted, SendsWork,
           QuotesWork
<1>4. ASSUME NEW d \in Calls \ {c} PROVE Kept(d)'
  <2>1. Kept(d)
    BY DEF WInv
  <2>2. AsReturned(d)'
    <3> SUFFICES ASSUME mined'[d] = {} PROVE CallInv(d)'
      BY DEF AsReturned
    <3>1. Own(d)
      BY <2>1 DEF WInv, Kept, AsReturned, Own
    <3> QED BY <1>2, <3>1, OthersKeep
  <2>3. /\ req'[d] = req[d] /\ pc'[d] = pc[d] /\ approved'[d] = approved[d]
        /\ txs'[d] = txs[d] /\ moved'[d] = moved[d] /\ allowance' = allowance
    BY <1>2 DEF Alone, chainVars
  <2> QED BY <2>1, <2>2, <2>3
       DEF Kept, SentWhenBuilt, ApprovalWasDue, Granted, SendsWork, QuotesWork,
           Undisturbed, PairOf, PlanOf
<1> QED BY <1>2, <1>3, <1>4 DEF WInv, Own

LEMMA RebuildKeeps ==
  ASSUME WInv, NEW c \in Calls, Rebuild(c)
  PROVE  WInv'
<1>1. TypeOK' /\ CacheInv' /\ WalletTypeOK'
  BY DEF WInv, Rebuild, TypeOK, CacheInv, WalletTypeOK, chainVars, Lists
<1>2. /\ pc'[c] = "idle" /\ at'[c] = 1 /\ txs'[c] = << >>
      /\ wallet'[c] = "rest" /\ mined'[c] = {} /\ quote'[c] = "none"
  BY DEF WInv, Rebuild, TypeOK, WalletTypeOK
<1>3. Kept(c)'
  <2>1. CallInv(c)'
    BY <1>2 DEF CallInv, Started, Awaiting
  <2> QED BY <1>2, <2>1, ListShapes
       DEF Kept, AsReturned, SentWhenBuilt, ApprovalWasDue, Granted, SendsWork,
           QuotesWork
<1>4. ASSUME NEW d \in Calls \ {c} PROVE Kept(d)'
  <2>1. /\ req' = req /\ pc'[d] = pc[d] /\ at'[d] = at[d] /\ got'[d] = got[d]
        /\ approved'[d] = approved[d] /\ txs'[d] = txs[d]
        /\ moved'[d] = moved[d] /\ allowance' = allowance
        /\ transferable' = transferable /\ tokenDecimals' = tokenDecimals
        /\ WalletStill(d)
    BY DEF WInv, Rebuild, TypeOK, WalletTypeOK, chainVars, WalletStill
  <2>2. Kept(d)
    BY DEF WInv
  <2>3. AsReturned(d)'
    <3> SUFFICES ASSUME CallInv(d) PROVE CallInv(d)'
      BY <2>1, <2>2 DEF Kept, AsReturned, WalletStill
    <3> QED BY <1>1, <2>1, BystanderKeeps DEF WInv
  <2> QED BY <2>1, <2>2, <2>3
       DEF Kept, SentWhenBuilt, ApprovalWasDue, Granted, SendsWork, QuotesWork,
           Undisturbed, PairOf, PlanOf, WalletStill
<1> QED BY <1>1, <1>3, <1>4 DEF WInv

LEMMA ShiftListKeeps ==
  ASSUME WInv, NEW c \in Calls, ShiftList(c)
  PROVE  WInv'
<1>0. /\ TypeOK /\ txs[c] \in Lists /\ Len(txs[c]) = 2 /\ "approval" \in mined[c]
      /\ txs' = [txs EXCEPT ![c] = Tail(@)]
      /\ UNCHANGED <<tokenDecimals, req, pc, at, got, approved, allowance,
                     transferable, outside, moved, wallet, mined, quote, forced,
                     faults>>
  BY DEF WInv, ShiftList, TypeOK, chainVars, walletVars
<1>1. txs[c] = <<"approval", "action">> /\ txs'[c] = <<"action">>
  <2>1. txs[c] = << >> \/ txs[c] = <<"action">> \/ txs[c] = <<"approval", "action">>
    BY <1>0 DEF Lists
  <2>2. txs[c] # << >> /\ txs[c] # <<"action">>
    BY <1>0
  <2>3. txs'[c] = Tail(txs[c])
    BY <1>0 DEF TypeOK
  <2> QED BY <2>1, <2>2, <2>3, ListShapes
<1>2. \A d \in Calls \ {c} : txs'[d] = txs[d]
  BY <1>0 DEF TypeOK
<1>3. TypeOK' /\ CacheInv' /\ WalletTypeOK'
  <2>1. txs' \in [Calls -> Lists]
    BY <1>0, <1>1 DEF TypeOK, Lists
  <2> QED BY <1>0, <2>1 DEF WInv, TypeOK, CacheInv, WalletTypeOK
<1>4. ASSUME NEW d \in Calls PROVE Kept(d)'
  <2>1. Kept(d)
    BY DEF WInv
  <2>2. AsReturned(d)'
    <3>1. CASE d = c
      BY <1>0, <3>1 DEF AsReturned
    <3>2. CASE d # c
      <4> SUFFICES ASSUME CallInv(d) PROVE CallInv(d)'
        BY <1>0, <2>1 DEF Kept, AsReturned
      <4> QED BY <1>0, <1>2, <1>3, <3>2, BystanderKeeps DEF WInv
    <3> QED BY <3>1, <3>2
  <2>3. SentWhenBuilt(d)' /\ ApprovalWasDue(d)' /\ QuotesWork(d)'
    BY <1>0, <1>1, <1>2, <2>1, ListShapes
       DEF Kept, SentWhenBuilt, ApprovalWasDue, QuotesWork, Undisturbed
  <2>4. Granted(d)' /\ SendsWork(d)'
    BY <1>0, <2>1 DEF Kept, Granted, SendsWork, Undisturbed, PairOf, PlanOf
  <2> QED BY <2>2, <2>3, <2>4 DEF Kept
<1> QED BY <1>3, <1>4 DEF WInv

(* A transaction of c that sets the allowance its request depends on.      *)
LEMMA AllowanceSet ==
  ASSUME WInv, NEW c \in Calls, req[c] \in Checking, NEW a \in 0..MaxUint,
         SetAllowance(c, PairOf(req[c]), a),
         UNCHANGED <<tokenDecimals, callVars, transferable, outside>>,
         WalletTypeOK', \A d \in Calls \ {c} : WalletStill(d),
         Kept(c)'
  PROVE  WInv'
<1>0. /\ TypeOK /\ CacheInv /\ PairOf(req[c]) \in Pairs
      /\ UNCHANGED <<req, pc, at, got, approved, txs>>
  BY DEF WInv, Pairs, callVars
<1>1. TypeOK' /\ CacheInv'
  <2>1. allowance' \in [Pairs -> 0..MaxUint]
    BY <1>0 DEF TypeOK, SetAllowance
  <2>2. moved' \in [Calls -> SUBSET {"allowance", "transferable"}]
    BY <1>0 DEF TypeOK, SetAllowance
  <2> QED BY <1>0, <2>1, <2>2 DEF TypeOK, CacheInv
<1>2. ASSUME NEW d \in Calls \ {c} PROVE Kept(d)'
  <2>1. Kept(d) /\ WalletStill(d)
    BY DEF WInv
  <2>2. /\ moved[d] \subseteq moved'[d]
        /\ "allowance" \notin moved'[d] => ~Touches(PairOf(req[c]), req[d])
    BY <1>0 DEF SetAllowance, TypeOK
  <2>3. "allowance" \notin moved'[d] /\ req[d] \in Checking =>
          allowance'[PairOf(req[d])] = allowance[PairOf(req[d])]
    <3> SUFFICES ASSUME ~Touches(PairOf(req[c]), req[d]), req[d] \in Checking
                 PROVE  allowance'[PairOf(req[d])] = allowance[PairOf(req[d])]
      BY <2>2
    <3>1. PairOf(req[d]) \in Pairs /\ PairOf(req[d]) # PairOf(req[c])
      BY DEF Pairs, Touches
    <3> QED BY <1>0, <3>1 DEF SetAllowance, TypeOK
  <2>4. AsReturned(d)'
    <3> SUFFICES ASSUME CallInv(d) PROVE CallInv(d)'
      BY <2>1 DEF Kept, AsReturned, WalletStill
    <3> QED BY <1>0, <1>1, <2>2, <2>3, BystanderKeeps
  <2>5. Undisturbed(d)' => Undisturbed(d)
    BY <1>0, <2>2 DEF Undisturbed
  <2>6. Granted(d)'
    BY <1>0, <2>1, <2>2, <2>3 DEF Kept, Granted, WalletStill, PairOf, PlanOf
  <2> QED BY <1>0, <2>1, <2>4, <2>5, <2>6
       DEF Kept, SentWhenBuilt, ApprovalWasDue, SendsWork, QuotesWork, WalletStill
<1> QED BY <1>1, <1>2 DEF WInv

LEMMA MineApprovalKeeps ==
  ASSUME WInv, NEW c \in Calls, MineApproval(c)
  PROVE  WInv'
<1>0. /\ wallet[c] = "signed" /\ NextTx(c) = "approval"
      /\ SetAllowance(c, PairOf(req[c]), MaxUint)
      /\ UNCHANGED <<tokenDecimals, callVars, transferable, outside, quote, forced,
                     faults>>
      /\ WalletTypeOK
  BY DEF WInv, MineApproval, ApprovalAmount
<1>1. /\ mined' = [mined EXCEPT ![c] = @ \cup {"approval"}]
      /\ wallet' = [wallet EXCEPT ![c] = "rest"]
  BY DEF MineApproval
<1>2. /\ pc[c] = "done" /\ txs[c] # << >> /\ "action" \notin mined[c] /\ Kept(c)
  BY <1>0 DEF WInv, Kept, SentWhenBuilt
<1>3. mined[c] = {} /\ txs[c] = <<"approval", "action">> /\ ~approved[c]
  BY <1>0, <1>2, NextOfList DEF Kept, ApprovalWasDue
<1>4. req[c] \in Checking
  BY <1>2, <1>3, FreshList
<1>5. WalletTypeOK' /\ \A d \in Calls \ {c} : WalletStill(d)
  BY <1>0, <1>1 DEF WalletTypeOK, WalletStill
<1>6. /\ wallet'[c] = "rest" /\ mined'[c] = {"approval"} /\ quote'[c] = quote[c]
      /\ forced'[c] = forced[c] /\ allowance'[PairOf(req[c])] = MaxUint
      /\ moved'[c] = moved[c]
      /\ UNCHANGED <<req, pc, txs, approved>>
  <2>1. PairOf(req[c]) \in Pairs
    BY <1>4 DEF Pairs
  <2> QED BY <1>0, <1>1, <1>3, <2>1
       DEF WalletTypeOK, SetAllowance, WInv, TypeOK, callVars
<1>7. Kept(c)'
  BY <1>2, <1>3, <1>6
     DEF Kept, AsReturned, SentWhenBuilt, ApprovalWasDue, Granted, SendsWork,
         QuotesWork, Undisturbed, PairOf, PlanOf
<1>8. MaxUint \in 0..MaxUint
  BY RequestAssumption DEF Positive
<1> QED BY <1>0, <1>4, <1>5, <1>7, <1>8, AllowanceSet

LEMMA MineActionKeeps ==
  ASSUME WInv, NEW c \in Calls, MineAction(c)
  PROVE  WInv'
<1>0. /\ wallet[c] = "signed" /\ NextTx(c) = "action"
      /\ UNCHANGED <<tokenDecimals, callVars, transferable, outside, quote, forced,
                     faults>>
      /\ WalletTypeOK /\ TypeOK
  BY DEF WInv, MineAction
<1>1. /\ pc[c] = "done" /\ txs[c] # << >> /\ "action" \notin mined[c] /\ Kept(c)
  BY <1>0 DEF WInv, Kept, SentWhenBuilt
<1>2. mined[c] = {} => txs[c] = <<"action">>
  BY <1>0, <1>1, NextOfList
<1>3. ASSUME WouldSucceed(c, "action"),
             mined' = [mined EXCEPT ![c] = @ \cup {"action"}],
             wallet' = [wallet EXCEPT ![c] = "rest"],
             \/ /\ req[c] \in Checking
                /\ SetAllowance(c, PairOf(req[c]),
                                allowance[PairOf(req[c])] - Draws(req[c]))
             \/ UNCHANGED <<allowance, moved>>
      PROVE  WInv'
  <2>1. WalletTypeOK' /\ \A d \in Calls \ {c} : WalletStill(d)
    BY <1>0, <1>3 DEF WalletTypeOK, WalletStill
  <2>2. /\ wallet'[c] = "rest" /\ "action" \in mined'[c] /\ quote'[c] = quote[c]
        /\ forced'[c] = forced[c] /\ UNCHANGED <<req, pc, txs, approved>>
    BY <1>0, <1>3 DEF WalletTypeOK, callVars
  <2>3. Kept(c)'
    BY <1>1, <2>2
       DEF Kept, AsReturned, SentWhenBuilt, ApprovalWasDue, Granted, SendsWork,
           QuotesWork
  <2>4. CASE /\ req[c] \in Checking
             /\ SetAllowance(c, PairOf(req[c]),
                             allowance[PairOf(req[c])] - Draws(req[c]))
    <3> DEFINE before == allowance[PairOf(req[c])]
               drawn == Draws(req[c])
    <3>1. before \in 0..MaxUint /\ drawn \in 0..MaxUint /\ MaxUint \in Nat
      BY <1>0, <2>4, DrawsBounded, RequestAssumption
         DEF TypeOK, Pairs, Checking, Accepted, Positive
    <3>2. before >= drawn
      BY <1>3, <2>4 DEF WouldSucceed
    <3> HIDE DEF before, drawn
    <3>3. before - drawn \in 0..MaxUint
      BY <3>1, <3>2
    <3> QED BY <1>0, <2>1, <2>3, <2>4, <3>3, AllowanceSet DEF before, drawn
  <2>5. CASE UNCHANGED <<allowance, moved>>
    <3>1. UNCHANGED vars
      BY <1>0, <2>5 DEF vars, chainVars
    <3>2. /\ TypeOK' /\ CacheInv' /\ \A d \in Calls : CallInv(d) => CallInv(d)'
      BY <3>1, InvStays DEF WInv
    <3>3. ASSUME NEW d \in Calls \ {c} PROVE Kept(d)'
      <4>1. Kept(d) /\ WalletStill(d) /\ Undisturbed(d)' = Undisturbed(d)
        BY <2>1, <3>1, UndisturbedStays DEF WInv
      <4> QED BY <2>5, <3>2, <4>1, <2>2
           DEF Kept, AsReturned, SentWhenBuilt, ApprovalWasDue, Granted,
               SendsWork, QuotesWork, WalletStill, PairOf, PlanOf
    <3> QED BY <2>1, <2>3, <3>2, <3>3 DEF WInv
  <2> QED BY <1>3, <2>4, <2>5
<1>4. ASSUME ~WouldSucceed(c, "action"),
             wallet' = [wallet EXCEPT ![c] = "reverted"],
             UNCHANGED <<allowance, moved, mined>>
      PROVE  WInv'
  <2>1. UNCHANGED vars
    BY <1>0, <1>4 DEF vars, chainVars
  <2>2. ~Undisturbed(c)
    BY <1>1, <1>2, <1>4, ListWorks
  <2>3. ~Undisturbed(c)'
    BY <2>1, <2>2, UndisturbedStays
  <2>4. WalletTypeOK' /\ \A d \in Calls \ {c} : WalletStill(d)
    BY <1>0, <1>4 DEF WalletTypeOK, WalletStill
  <2>5. wallet'[c] = "reverted" /\ UNCHANGED <<quote, forced, mined, txs, pc>>
    BY <1>0, <1>4 DEF WalletTypeOK, callVars
  <2>6. SentWhenBuilt(c)' /\ SendsWork(c)' /\ QuotesWork(c)'
    BY <1>1, <2>3, <2>5 DEF Kept, SentWhenBuilt, SendsWork, QuotesWork
  <2> QED BY <2>1, <2>4, <2>5, <2>6, QuietStep
<1> QED BY <1>3, <1>4 DEF MineAction

LEMMA CallTxKeeps ==
  ASSUME WInv, NEW c \in Calls, CallTx(c)
  PROVE  WInv'
<1>1. UNCHANGED vars /\ UNCHANGED <<mined, quote, forced, faults>>
  BY DEF CallTx
<1>2. /\ WalletTypeOK' /\ wallet'[c] = "estimating"
      /\ \A d \in Calls \ {c} : WalletStill(d)
  BY DEF CallTx, WInv, WalletTypeOK, WalletStill
<1>3. SentWhenBuilt(c)' /\ SendsWork(c)' /\ QuotesWork(c)'
  BY <1>1, <1>2, UndisturbedStays
     DEF CallTx, WInv, Kept, SentWhenBuilt, SendsWork, QuotesWork, vars, callVars
<1> QED BY <1>1, <1>2, <1>3, QuietStep

LEMMA EstimateTxKeeps ==
  ASSUME WInv, NEW c \in Calls, EstimateTx(c)
  PROVE  WInv'
<1>1. UNCHANGED vars /\ UNCHANGED <<mined, quote, forced, faults>>
  BY DEF EstimateTx
<1>2. /\ WalletTypeOK' /\ wallet'[c] \in {"signed", "refused"}
      /\ wallet'[c] = "refused" => ~WouldSucceed(c, NextTx(c))
      /\ \A d \in Calls \ {c} : WalletStill(d)
  BY DEF EstimateTx, WInv, WalletTypeOK, WalletStill
<1>3. /\ Kept(c) /\ pc[c] = "done" /\ txs[c] # << >> /\ "action" \notin mined[c]
  BY DEF EstimateTx, WInv, Kept, SentWhenBuilt
<1>4. Undisturbed(c) => WouldSucceed(c, NextTx(c))
  <2>1. CASE NextTx(c) = "action" /\ (mined[c] = {} => txs[c] = <<"action">>)
    BY <1>3, <2>1, ListWorks
  <2>2. CASE NextTx(c) = "approval"
    BY <2>2 DEF WouldSucceed
  <2> QED BY <1>3, <2>1, <2>2, NextOfList
<1>5. SentWhenBuilt(c)' /\ SendsWork(c)' /\ QuotesWork(c)'
  BY <1>1, <1>2, <1>3, <1>4, UndisturbedStays
     DEF Kept, SentWhenBuilt, SendsWork, QuotesWork, vars, callVars
<1> QED BY <1>1, <1>2, <1>5, QuietStep

LEMMA CallGasKeeps ==
  ASSUME WInv, NEW c \in Calls, CallGas(c)
  PROVE  WInv'
<1>1. UNCHANGED vars /\ UNCHANGED <<wallet, mined, faults>>
  BY DEF CallGas
<1>2. /\ WalletTypeOK' /\ quote'[c] = "pricing"
      /\ \A d \in Calls \ {c} : WalletStill(d)
  BY DEF CallGas, WInv, WalletTypeOK, WalletStill
<1>3. SentWhenBuilt(c)' /\ SendsWork(c)' /\ QuotesWork(c)'
  BY <1>1, <1>2, UndisturbedStays
     DEF CallGas, WInv, Kept, SentWhenBuilt, SendsWork, QuotesWork, vars, callVars
<1> QED BY <1>1, <1>2, <1>3, QuietStep

LEMMA GasPriceKeeps ==
  ASSUME WInv, NEW c \in Calls, GasPrice(c)
  PROVE  WInv'
<1>1. UNCHANGED vars /\ UNCHANGED <<wallet, mined, forced, faults>>
  BY DEF GasPrice
<1>2. /\ WalletTypeOK' /\ quote'[c] \in {"recommended", "estimating"}
      /\ quote'[c] = "estimating" => ~HasPendingApprovals(c) \/ forced[c]
      /\ \A d \in Calls \ {c} : WalletStill(d)
  BY DEF GasPrice, WInv, WalletTypeOK, WalletStill, Quoted
<1>3. Kept(c) /\ pc[c] = "done" /\ txs[c] # << >>
  BY DEF GasPrice, WInv, Kept, SentWhenBuilt
<1>4. ~HasPendingApprovals(c) => txs[c] = <<"action">>
  <2>1. txs[c] = <<"action">> \/ txs[c] = <<"approval", "action">>
    BY <1>3 DEF WInv, TypeOK, Lists
  <2>2. txs[c] = <<"approval", "action">> => HasPendingApprovals(c)
    BY DEF HasPendingApprovals
  <2> QED BY <2>1, <2>2
<1>5. SentWhenBuilt(c)' /\ SendsWork(c)' /\ QuotesWork(c)'
  BY <1>1, <1>2, <1>3, <1>4, UndisturbedStays
     DEF Kept, SentWhenBuilt, SendsWork, QuotesWork, vars, callVars
<1> QED BY <1>1, <1>2, <1>5, QuietStep

LEMMA GasEstimateKeeps ==
  ASSUME WInv, NEW c \in Calls, GasEstimate(c)
  PROVE  WInv'
<1>1. UNCHANGED vars /\ UNCHANGED <<wallet, mined, forced, faults>>
  BY DEF GasEstimate
<1>2. /\ WalletTypeOK' /\ quote'[c] \in {"estimated", "nullByRevert"}
      /\ quote'[c] = "nullByRevert" => ~WouldSucceed(c, "action")
      /\ \A d \in Calls \ {c} : WalletStill(d)
  BY DEF GasEstimate, WInv, WalletTypeOK, WalletStill, Quoted
<1>3. /\ Kept(c) /\ pc[c] = "done" /\ txs[c] # << >>
      /\ ~forced[c] => txs[c] = <<"action">>
  BY DEF GasEstimate, WInv, Kept, SentWhenBuilt, QuotesWork
<1>4. ~forced[c] /\ "action" \notin mined[c] /\ Undisturbed(c)
        => WouldSucceed(c, "action")
  BY <1>3, ListWorks
<1>5. SentWhenBuilt(c)' /\ SendsWork(c)' /\ QuotesWork(c)'
  BY <1>1, <1>2, <1>3, <1>4, UndisturbedStays
     DEF Kept, SentWhenBuilt, SendsWork, QuotesWork, vars, callVars
<1> QED BY <1>1, <1>2, <1>5, QuietStep

LEMMA FaultKeeps ==
  ASSUME WInv, NEW c \in Calls, Fault(c)
  PROVE  WInv'
<1>0. /\ faults' = faults + 1 /\ faults' \in 0..MaxFaults /\ WalletTypeOK
      /\ Kept(c)
  BY WalletAssumption DEF Fault, WInv, WalletTypeOK
<1>1. CASE Reject(c) /\ UNCHANGED <<wallet, mined, quote, forced>>
  <2>1. WalletTypeOK'
    BY <1>0, <1>1 DEF WalletTypeOK
  <2>2. pc[c] # "done" /\ CallStep(c)
    BY <1>1 DEF Reject, CallStep
  <2> QED BY <1>1, <2>1, <2>2, BuilderStep
<1>2. CASE /\ wallet[c] = "estimating"
           /\ wallet' = [wallet EXCEPT ![c] = "faulted"]
           /\ UNCHANGED <<vars, mined, quote, forced>>
  <2>1. /\ WalletTypeOK' /\ wallet'[c] = "faulted"
        /\ \A d \in Calls \ {c} : WalletStill(d)
    BY <1>0, <1>2 DEF WalletTypeOK, WalletStill
  <2>2. SentWhenBuilt(c)' /\ SendsWork(c)' /\ QuotesWork(c)'
    BY <1>0, <1>2, <2>1, UndisturbedStays
       DEF Kept, SentWhenBuilt, SendsWork, QuotesWork, vars, callVars
  <2> QED BY <1>2, <2>1, <2>2, QuietStep
<1>3. CASE /\ quote[c] \in {"pricing", "estimating"}
           /\ quote' = [quote EXCEPT ![c] = "nullByFault"]
           /\ UNCHANGED <<vars, wallet, mined, forced>>
  <2>1. /\ WalletTypeOK' /\ quote'[c] = "nullByFault"
        /\ \A d \in Calls \ {c} : WalletStill(d)
    BY <1>0, <1>3 DEF WalletTypeOK, WalletStill, Quoted
  <2>2. SentWhenBuilt(c)' /\ SendsWork(c)' /\ QuotesWork(c)'
    BY <1>0, <1>3, <2>1, UndisturbedStays
       DEF Kept, SentWhenBuilt, SendsWork, QuotesWork, vars, callVars
  <2> QED BY <1>3, <2>1, <2>2, QuietStep
<1> QED BY <1>1, <1>2, <1>3 DEF Fault

LEMMA BuildKeeps ==
  ASSUME WInv, NEW c \in Calls, Build(c)
  PROVE  WInv'
<1>1. UNCHANGED <<wallet, mined, quote, forced>> /\ WalletTypeOK'
  BY DEF Build, walletVars, WInv, WalletTypeOK
<1>2. pc[c] # "done" /\ CallStep(c)
  BY DEF Build, CallStep, Begin, Answer, Resume, ResumeCached, ResumeDecimals,
         ResumeTransferable, ResumeAllowance, ResumeLookup
<1> QED BY <1>1, <1>2, BuilderStep

(* A change from outside: whoever's allowance it is, is disturbed.         *)
LEMMA WalletOutsideKeeps ==
  ASSUME WInv, Outside, UNCHANGED walletVars
  PROVE  WInv'
<1>0. /\ TypeOK /\ CacheInv /\ \A d \in Calls : Kept(d)
      /\ UNCHANGED <<tokenDecimals, req, pc, at, got, approved, txs>>
      /\ UNCHANGED <<wallet, mined, quote, forced, faults>>
  BY DEF WInv, Outside, AllowanceMoves, TransferableMoves, callVars, walletVars
<1> DEFINE Unread(d) ==
             /\ moved[d] \subseteq moved'[d]
             /\ "transferable" \notin moved'[d] => transferable' = transferable
             /\ "allowance" \notin moved'[d] /\ req[d] \in Checking =>
                  allowance'[PairOf(req[d])] = allowance[PairOf(req[d])]
<1>1. TypeOK' /\ CacheInv' /\ \A d \in Calls : Unread(d)
  <2>1. ASSUME NEW p \in Pairs, NEW a \in AllowanceLevels, AllowanceMoves(p, a)
        PROVE  TypeOK' /\ CacheInv' /\ \A d \in Calls : Unread(d)
    <3>1. TypeOK' /\ CacheInv'
      BY <1>0, <2>1, BuilderAssumption DEF AllowanceMoves, TypeOK, CacheInv
    <3>2. ASSUME NEW d \in Calls
          PROVE  /\ moved[d] \subseteq moved'[d] /\ transferable' = transferable
                 /\ "allowance" \notin moved'[d] => ~Touches(p, req[d])
      BY <2>1 DEF AllowanceMoves
    <3>3. ASSUME NEW d \in Calls, req[d] \in Checking, ~Touches(p, req[d])
          PROVE  allowance'[PairOf(req[d])] = allowance[PairOf(req[d])]
      <4>1. PairOf(req[d]) \in Pairs /\ PairOf(req[d]) # p
        BY <3>3 DEF Pairs, Touches
      <4> QED BY <1>0, <2>1, <4>1 DEF AllowanceMoves, TypeOK
    <3> QED BY <3>1, <3>2, <3>3
  <2>2. ASSUME NEW a \in TransferableLevels, TransferableMoves(a)
        PROVE  TypeOK' /\ CacheInv' /\ \A d \in Calls : Unread(d)
    <3>1. TypeOK' /\ CacheInv'
      BY <1>0, <2>2, BuilderAssumption DEF TransferableMoves, TypeOK, CacheInv
    <3>2. ASSUME NEW d \in Calls
          PROVE  /\ moved[d] \subseteq moved'[d] /\ allowance' = allowance
                 /\ "transferable" \in moved'[d]
      BY <2>2 DEF TransferableMoves
    <3> QED BY <3>1, <3>2
  <2> QED BY <2>1, <2>2 DEF Outside
<1>2. ASSUME NEW d \in Calls PROVE Kept(d)'
  <2>1. AsReturned(d)'
    <3> SUFFICES ASSUME CallInv(d) PROVE CallInv(d)'
      BY <1>0 DEF Kept, AsReturned
    <3> QED BY <1>0, <1>1, BystanderKeeps
  <2>2. Granted(d)'
    BY <1>0, <1>1 DEF Kept, Granted, PairOf, PlanOf
  <2>3. Undisturbed(d)' => Undisturbed(d)
    BY <1>0, <1>1 DEF Undisturbed
  <2> QED BY <1>0, <2>1, <2>2, <2>3
       DEF Kept, SentWhenBuilt, ApprovalWasDue, SendsWork, QuotesWork
<1>3. WalletTypeOK'
  BY <1>0 DEF WInv, WalletTypeOK
<1> QED BY <1>1, <1>2, <1>3 DEF WInv

LEMMA WalletStutter ==
  ASSUME WInv, UNCHANGED allVars
  PROVE  WInv'
<1>1. UNCHANGED vars /\ UNCHANGED <<wallet, mined, quote, forced, faults>>
  BY DEF allVars, walletVars
<1>2. TypeOK' /\ CacheInv' /\ \A d \in Calls : CallInv(d) => CallInv(d)'
  BY <1>1, InvStays DEF WInv
<1>3. WalletTypeOK'
  BY <1>1 DEF WInv, WalletTypeOK
<1>4. ASSUME NEW d \in Calls PROVE Kept(d)'
  <2>1. Undisturbed(d)' = Undisturbed(d) /\ Kept(d)
    BY <1>1, UndisturbedStays DEF WInv
  <2>2. UNCHANGED <<pc, txs, approved, allowance, moved, req>>
    BY <1>1 DEF vars, callVars, chainVars
  <2> QED BY <1>1, <1>2, <2>1, <2>2
       DEF Kept, AsReturned, SentWhenBuilt, ApprovalWasDue, Granted, SendsWork,
           QuotesWork, PairOf, PlanOf
<1> QED BY <1>2, <1>3, <1>4 DEF WInv

LEMMA WalletNextInv == WInv /\ [WalletNext]_allVars => WInv'
BY BuildKeeps, FaultKeeps, RebuildKeeps, ShiftListKeeps, CallTxKeeps,
   EstimateTxKeeps, MineApprovalKeeps, MineActionKeeps, CallGasKeeps,
   GasPriceKeeps, GasEstimateKeeps, WalletOutsideKeeps, WalletStutter
   DEF WalletNext

LEMMA WalletInvariance == WalletSpec => []WInv
BY WalletInitInv, WalletNextInv, PTL DEF WalletSpec

-----------------------------------------------------------------------------
(* The properties.                                                         *)

(***************************************************************************)
(* The wallet's variables keep their types, whatever the library and the   *)
(* chain do meanwhile.                                                     *)
(***************************************************************************)
THEOREM WalletTypeCorrect == WalletSpec => []WalletTypeOK
<1>1. WInv => WalletTypeOK
  BY DEF WInv
<1> QED BY <1>1, WalletInvariance, PTL

(***************************************************************************)
(* Sent in order, a list whose allowance nobody else touched is neither    *)
(* refused by the simulation in tx() nor reverted on chain.                *)
(***************************************************************************)
THEOREM ListsExecute == WalletSpec => []UndisturbedListsExecute
<1>1. WInv => UndisturbedListsExecute
  BY DEF WInv, Kept, SendsWork, UndisturbedListsExecute
<1> QED BY <1>1, WalletInvariance, PTL

(***************************************************************************)
(* gas() without force takes no missing approval for a failing action.     *)
(***************************************************************************)
THEOREM QuotesAnswer == WalletSpec => []UnforcedQuotesAnswer
<1>1. WInv => UnforcedQuotesAnswer
  BY DEF WInv, Kept, QuotesWork, UnforcedQuotesAnswer
<1> QED BY <1>1, WalletInvariance, PTL

\* gas() recommends a limit only to a list whose approval was found due.
FoundDue(c) == quote[c] = "recommended" => ~approved[c]

LEMMA RecommendingFindsDue ==
  ASSUME WInv, NEW c \in Calls, FoundDue(c), NEW d \in Calls, GasPrice(d)
  PROVE  FoundDue(c)'
<1>1. /\ approved' = approved
      /\ quote'[c] = "recommended" =>
           quote[c] = "recommended" \/ (c = d /\ HasPendingApprovals(c))
  BY DEF GasPrice, WInv, WalletTypeOK, vars, callVars
<1>2. HasPendingApprovals(c) => ~approved[c]
  <2> SUFFICES ASSUME HasPendingApprovals(c) PROVE ~approved[c]
    OBVIOUS
  <2>1. txs[c] \in Lists /\ ApprovalWasDue(c)
    BY DEF WInv, TypeOK, Kept
  <2>2. txs[c] # << >> /\ txs[c] # <<"action">>
    BY ListShapes DEF HasPendingApprovals
  <2> QED BY <2>1, <2>2 DEF Lists, ApprovalWasDue
<1> QED BY <1>1, <1>2 DEF FoundDue

\* Only a call that is being built changes its verdict, and that has no quote.
LEMMA OtherStepsFindDue ==
  ASSUME WInv, NEW c \in Calls, FoundDue(c), [WalletNext]_allVars,
         \A d \in Calls : ~GasPrice(d)
  PROVE  FoundDue(c)'
<1>1. WalletTypeOK /\ TypeOK /\ (quote[c] = "recommended" => pc[c] = "done")
  BY DEF WInv, Kept, SentWhenBuilt
<1>2. ASSUME NEW d \in Calls, CallStep(d), pc[d] # "done", quote' = quote
      PROVE  FoundDue(c)'
  <2>1. Own(d)
    BY <1>2 DEF WInv, Kept, AsReturned, SentWhenBuilt, Own
  <2>2. Alone(d)
    BY <1>2, <2>1, CallStepKeeps
  <2> QED BY <1>1, <1>2, <2>2 DEF FoundDue, Alone
<1>3. ASSUME NEW d \in Calls, Build(d) PROVE FoundDue(c)'
  <2>1. pc[d] # "done" /\ CallStep(d) /\ quote' = quote
    BY <1>3
       DEF Build, CallStep, walletVars, Begin, Answer, Resume, ResumeCached,
           ResumeDecimals, ResumeTransferable, ResumeAllowance, ResumeLookup
  <2> QED BY <1>2, <2>1
<1>4. ASSUME NEW d \in Calls, Fault(d) PROVE FoundDue(c)'
  <2>1. CASE Reject(d) /\ UNCHANGED <<wallet, mined, quote, forced>>
    BY <1>2, <2>1 DEF Reject, CallStep
  <2>2. CASE UNCHANGED vars
    BY <1>1, <1>4, <2>2
       DEF Fault, Reject, FoundDue, WalletTypeOK, vars, callVars
  <2> QED BY <1>4, <2>1, <2>2 DEF Fault
<1>5. ASSUME NEW d \in Calls, Rebuild(d) PROVE FoundDue(c)'
  BY <1>1, <1>5 DEF Rebuild, FoundDue, WalletTypeOK, TypeOK
<1>6. ASSUME NEW d \in Calls,
             ShiftList(d) \/ CallTx(d) \/ EstimateTx(d) \/ MineApproval(d)
               \/ MineAction(d) \/ CallGas(d) \/ GasEstimate(d)
      PROVE  FoundDue(c)'
  BY <1>1, <1>6
     DEF ShiftList, CallTx, EstimateTx, MineApproval, MineAction, CallGas,
         GasEstimate, FoundDue, WalletTypeOK, vars, callVars, walletVars
<1>7. CASE Outside /\ UNCHANGED walletVars
  BY <1>7
     DEF Outside, AllowanceMoves, TransferableMoves, FoundDue, callVars, walletVars
<1>8. CASE UNCHANGED allVars
  BY <1>8 DEF allVars, walletVars, vars, callVars, FoundDue
<1> QED BY <1>3, <1>4, <1>5, <1>6, <1>7, <1>8 DEF WalletNext

\* A verdict of "short" that still stands says that the action would revert,
\* where the library asks for no more than the action draws.
LEMMA DueWouldRevert ==
  ASSUME WInv, NEW c \in Calls, pc[c] = "done", txs[c] # << >>, mined[c] = {},
         Undisturbed(c), ~approved[c]
  PROVE  \/ ~WouldSucceed(c, "action")
         \/ /\ req[c].amount = All \/ PlanOf[req[c]].strict
            /\ ~IsEnough(req[c], allowance[PairOf(req[c])])
<1>1. Own(c) /\ req[c] \in Checking /\ req[c] \in Accepted /\ NamesItsAmount(req[c])
  BY FreshList DEF Undisturbed
<1>2. ~Suffices(PlanOf[req[c]], allowance[PairOf(req[c])])
  BY <1>1, VerdictIsCurrent DEF CurrentVerdict, Undisturbed
<1>3. CASE req[c].amount = All \/ PlanOf[req[c]].strict
  BY <1>2, <1>3 DEF IsEnough
<1>4. CASE req[c].amount # All /\ ~PlanOf[req[c]].strict
  <2>1. /\ PlanOf[req[c]].need = PlanOf[req[c]].amount
        /\ Draws(req[c]) = PlanOf[req[c]].amount
    BY <1>1, <1>4, NeedIsSpent DEF Spends, Draws
  <2>2. ~(allowance[PairOf(req[c])] >= Draws(req[c]))
    BY <1>2, <1>4, <2>1 DEF Suffices
  <2> QED BY <1>1, <2>2 DEF WouldSucceed
<1> QED BY <1>3, <1>4

(***************************************************************************)
(* gas() answers without an estimate only where none could be had: what it *)
(* recommends stands for an action that would revert, or, of '-1' and of a *)
(* delegation, for one that the library's own comparison still refuses, as *)
(* long as nothing of the list is mined and no one touches its allowance.  *)
(***************************************************************************)
THEOREM GuessesAreDue == WalletSpec => []GuessesOnlyWhereDue
<1> DEFINE Due == \A c \in Calls : FoundDue(c)
<1>1. WalletInit => Due
  BY DEF WalletInit, FoundDue
<1>2. WInv /\ Due /\ [WalletNext]_allVars => Due'
  BY RecommendingFindsDue, OtherStepsFindDue
<1>3. ASSUME WInv, Due PROVE GuessesOnlyWhereDue
  <2> SUFFICES ASSUME NEW c \in Calls, quote[c] = "recommended", mined[c] = {},
                      Undisturbed(c)
               PROVE  \/ ~WouldSucceed(c, "action")
                      \/ /\ req[c].amount = All \/ PlanOf[req[c]].strict
                         /\ ~IsEnough(req[c], allowance[PairOf(req[c])])
    BY DEF GuessesOnlyWhereDue
  <2>1. pc[c] = "done" /\ txs[c] # << >>
    BY <1>3 DEF WInv, Kept, SentWhenBuilt
  <2>2. ~approved[c]
    BY <1>3 DEF FoundDue
  <2> QED BY <1>3, <2>1, <2>2, DueWouldRevert
<1>4. WalletSpec => []Due
  BY <1>1, <1>2, WalletInvariance, PTL DEF WalletSpec
<1> QED BY <1>3, <1>4, WalletInvariance, PTL

-----------------------------------------------------------------------------
(* What an approval that was mined is good for.                            *)

Executed == {c \in Calls : "action" \in mined[c]}

\* No action draws more than d, and an approval of MaxUint, from which every
\* action of every list draws, is worth all of them together: without it enough
\* lists of one owner use up what is unlimited only by name.
WorthAll(d) ==
  /\ d \in Nat /\ MaxUint \in Nat /\ IsFiniteSet(Calls)
  /\ \A q \in Checking : Draws(q) <= d
  /\ d * Cardinality(Calls) <= MaxUint

Affordable == \E d \in Nat : WorthAll(d)

\* The inductive invariant: what is left of an allowance that one of the calls
\* had approved, and what was executed, are the approval.
Covered(d) ==
  outside = 0 =>
    \A c \in Calls :
      "approval" \in mined[c] /\ req[c] \in Checking =>
        allowance[PairOf(req[c])] + d * Cardinality(Executed) >= MaxUint

\* The calls whose action was executed can be counted.
LEMMA ExecutedFinite ==
  ASSUME IsFiniteSet(Calls)
  PROVE  /\ IsFiniteSet(Executed) /\ Cardinality(Executed) \in Nat
         /\ \A c \in Calls \ Executed :
              /\ Cardinality(Executed \cup {c}) = Cardinality(Executed) + 1
              /\ Cardinality(Executed) + 1 <= Cardinality(Calls)
<1>1. Executed \subseteq Calls /\ IsFiniteSet(Executed)
  <2>1. Executed \subseteq Calls
    BY DEF Executed
  <2> QED BY <2>1, FS_Subset
<1>2. Cardinality(Executed) \in Nat
  BY <1>1, FS_CardinalityType
<1>3. ASSUME NEW c \in Calls \ Executed
      PROVE  /\ Cardinality(Executed \cup {c}) = Cardinality(Executed) + 1
             /\ Cardinality(Executed) + 1 <= Cardinality(Calls)
  <2>1. Cardinality(Executed \cup {c}) = Cardinality(Executed) + 1
    BY <1>1, FS_AddElement
  <2>2. Executed \cup {c} \subseteq Calls
    BY <1>1
  <2>3. Cardinality(Executed \cup {c}) <= Cardinality(Calls)
    BY <2>2, FS_Subset
  <2> QED BY <2>1, <2>3
<1> QED BY <1>1, <1>2, <1>3

\* A step that neither mines, nor approves, nor reverts anything.
LEMMA CoveredStays ==
  ASSUME NEW d, Covered(d), OwnApprovalSuffices,
         UNCHANGED <<mined, outside, allowance, req>>,
         \A c \in Calls : wallet'[c] = "reverted" => wallet[c] = "reverted"
  PROVE  Covered(d)' /\ OwnApprovalSuffices'
<1>1. Covered(d)'
  BY DEF Covered, Executed, PairOf, PlanOf
<1>2. OwnApprovalSuffices'
  BY DEF OwnApprovalSuffices
<1> QED BY <1>1, <1>2

LEMMA RebuildCovers ==
  ASSUME NEW d, WInv, Covered(d), OwnApprovalSuffices, NEW c \in Calls, Rebuild(c)
  PROVE  Covered(d)' /\ OwnApprovalSuffices'
<1>1. /\ UNCHANGED <<req, outside, allowance>>
      /\ mined' = [mined EXCEPT ![c] = {}] /\ wallet' = [wallet EXCEPT ![c] = "rest"]
      /\ Kept(c) /\ WalletTypeOK
  BY DEF Rebuild, chainVars, WInv
<1>2. "action" \notin mined[c]
  BY DEF Rebuild, Kept, SentWhenBuilt, WInv
<1>3. \A b \in Calls : mined'[b] = IF b = c THEN {} ELSE mined[b]
  BY <1>1 DEF WalletTypeOK
<1>4. \A b \in Calls : wallet'[b] = IF b = c THEN "rest" ELSE wallet[b]
  BY <1>1 DEF WalletTypeOK
<1>5. Executed' = Executed
  BY <1>2, <1>3 DEF Executed
<1>6. Covered(d)'
  BY <1>1, <1>3, <1>5 DEF Covered, PairOf, PlanOf
<1>7. OwnApprovalSuffices'
  BY <1>1, <1>3, <1>4 DEF OwnApprovalSuffices
<1> QED BY <1>6, <1>7

\* An approval sets the allowance of its pair to MaxUint and leaves the others.
LEMMA MineApprovalCovers ==
  ASSUME NEW d, WorthAll(d), WInv, Covered(d), OwnApprovalSuffices,
         NEW c \in Calls, MineApproval(c)
  PROVE  Covered(d)' /\ OwnApprovalSuffices'
<1>1. /\ UNCHANGED <<req, outside>>
      /\ mined' = [mined EXCEPT ![c] = @ \cup {"approval"}]
      /\ wallet' = [wallet EXCEPT ![c] = "rest"]
      /\ allowance' = [allowance EXCEPT ![PairOf(req[c])] = MaxUint]
      /\ WalletTypeOK /\ TypeOK
  BY DEF MineApproval, SetAllowance, ApprovalAmount, callVars, WInv
<1>2. \A b \in Calls : mined'[b] = IF b = c THEN mined[c] \cup {"approval"} ELSE mined[b]
  BY <1>1 DEF WalletTypeOK
<1>3. \A b \in Calls : wallet'[b] = IF b = c THEN "rest" ELSE wallet[b]
  BY <1>1 DEF WalletTypeOK
<1>4. Executed' = Executed
  BY <1>2 DEF Executed
<1> DEFINE spent == d * Cardinality(Executed)
<1>5. spent \in Nat /\ MaxUint \in Nat
  BY ExecutedFinite DEF WorthAll
<1> HIDE DEF spent
<1>6. ASSUME outside = 0, NEW b \in Calls, "approval" \in mined'[b], req[b] \in Checking
      PROVE  allowance'[PairOf(req[b])] + spent >= MaxUint
  <2>1. PairOf(req[b]) \in Pairs
    BY <1>6 DEF Pairs
  <2>2. CASE PairOf(req[b]) = PairOf(req[c])
    <3>1. allowance'[PairOf(req[b])] = MaxUint
      BY <1>1, <2>1, <2>2 DEF TypeOK
    <3> QED BY <1>5, <3>1
  <2>3. CASE PairOf(req[b]) # PairOf(req[c])
    <3>1. allowance'[PairOf(req[b])] = allowance[PairOf(req[b])] /\ b # c
      BY <1>1, <2>1, <2>3 DEF TypeOK
    <3> QED BY <1>2, <1>6, <3>1 DEF Covered, spent
  <2> QED BY <2>2, <2>3
<1>7. Covered(d)'
  BY <1>1, <1>4, <1>6 DEF Covered, PairOf, PlanOf, spent
<1>8. OwnApprovalSuffices'
  BY <1>1, <1>2, <1>3 DEF OwnApprovalSuffices
<1> QED BY <1>7, <1>8

\* An action draws at most d from one allowance and is one execution more.
LEMMA MineActionCovers ==
  ASSUME NEW d, WorthAll(d), WInv, Covered(d), OwnApprovalSuffices,
         NEW c \in Calls, MineAction(c)
  PROVE  Covered(d)' /\ OwnApprovalSuffices'
<1>0. /\ UNCHANGED <<req, outside>> /\ WalletTypeOK /\ TypeOK
      /\ "action" \notin mined[c] /\ d \in Nat /\ MaxUint \in Nat
  BY DEF MineAction, callVars, WInv, Kept, SentWhenBuilt, WorthAll
<1> DEFINE n == Cardinality(Executed)
<1>1. /\ n \in Nat /\ Cardinality(Executed \cup {c}) = n + 1
      /\ n + 1 <= Cardinality(Calls)
  <2>1. c \in Calls \ Executed
    BY <1>0 DEF Executed
  <2> QED BY <2>1, ExecutedFinite DEF WorthAll
<1> DEFINE spent == d * n
<1>2. spent \in Nat /\ d * (n + 1) = spent + d
  <2>1. d \in Nat /\ n \in Nat
    BY <1>0, <1>1
  <2> HIDE DEF n
  <2>2. d * n \in Nat /\ d * (n + 1) = d * n + d
    BY ONLY <2>1
  <2> QED BY <2>2
<1>3. spent + d <= MaxUint
  <2> DEFINE k == Cardinality(Calls)
             j == n + 1
  <2>1. k \in Nat /\ j \in Nat /\ j <= k /\ d * k <= MaxUint
    BY <1>1, FS_CardinalityType DEF WorthAll
  <2> HIDE DEF k, j, n, spent
  <2>2. d * j <= d * k /\ d * j \in Nat /\ d * k \in Nat
    BY ONLY <1>0, <2>1
  <2>3. spent + d \in Nat
    BY <1>0, <1>2
  <2>4. d * j = spent + d
    BY <1>2 DEF j
  <2> QED BY <1>0, <2>1, <2>2, <2>3, <2>4
<1> HIDE DEF n, spent
<1>4. ASSUME WouldSucceed(c, "action"),
             mined' = [mined EXCEPT ![c] = @ \cup {"action"}],
             wallet' = [wallet EXCEPT ![c] = "rest"],
             \/ /\ req[c] \in Checking
                /\ SetAllowance(c, PairOf(req[c]),
                                allowance[PairOf(req[c])] - Draws(req[c]))
             \/ UNCHANGED <<allowance, moved>>
      PROVE  Covered(d)' /\ OwnApprovalSuffices'
  <2>1. \A b \in Calls : mined'[b] = IF b = c THEN mined[c] \cup {"action"} ELSE mined[b]
    BY <1>0, <1>4 DEF WalletTypeOK
  <2>2. \A b \in Calls : wallet'[b] = IF b = c THEN "rest" ELSE wallet[b]
    BY <1>0, <1>4 DEF WalletTypeOK
  <2>3. Executed' = Executed \cup {c}
    BY <2>1 DEF Executed
  <2>4. d * Cardinality(Executed)' = spent + d
    BY <1>1, <1>2, <2>3
  <2>5. ASSUME outside = 0, NEW b \in Calls, "approval" \in mined'[b], req[b] \in Checking
        PROVE  allowance'[PairOf(req[b])] + (spent + d) >= MaxUint
    <3> DEFINE p == PairOf(req[b])
    <3>1. p \in Pairs /\ allowance[p] \in Nat
      BY <1>0, <2>5 DEF Pairs, TypeOK
    <3>2. allowance[p] + spent >= MaxUint
      BY <2>1, <2>5 DEF Covered, spent, n
    <3>3. \/ allowance'[p] = allowance[p]
          \/ /\ req[c] \in Checking /\ allowance'[p] = allowance[p] - Draws(req[c])
      <4>1. CASE UNCHANGED <<allowance, moved>>
        BY <4>1
      <4>2. CASE /\ req[c] \in Checking
                 /\ SetAllowance(c, PairOf(req[c]),
                                 allowance[PairOf(req[c])] - Draws(req[c]))
        <5>1. allowance' = [allowance EXCEPT
                              ![PairOf(req[c])] = allowance[PairOf(req[c])] - Draws(req[c])]
          BY <4>2 DEF SetAllowance
        <5>2. CASE p = PairOf(req[c])
          BY <1>0, <3>1, <4>2, <5>1, <5>2 DEF TypeOK
        <5>3. CASE p # PairOf(req[c])
          BY <1>0, <3>1, <5>1, <5>3 DEF TypeOK
        <5> QED BY <5>2, <5>3
      <4> QED BY <1>4, <4>1, <4>2
    <3>4. req[c] \in Checking => Draws(req[c]) \in 0..MaxUint /\ Draws(req[c]) <= d
      BY <1>0, DrawsBounded DEF TypeOK, WorthAll
    <3> HIDE DEF p
    <3>5. allowance'[p] + (spent + d) >= MaxUint
      BY <1>0, <1>2, <3>1, <3>2, <3>3, <3>4
    <3> QED BY <3>5 DEF p
  <2>6. Covered(d)'
    BY <1>0, <2>4, <2>5 DEF Covered, PairOf, PlanOf
  <2>7. OwnApprovalSuffices'
    BY <1>0, <2>1, <2>2 DEF OwnApprovalSuffices
  <2> QED BY <2>6, <2>7
<1>5. ASSUME ~WouldSucceed(c, "action"),
             wallet' = [wallet EXCEPT ![c] = "reverted"],
             UNCHANGED <<allowance, moved, mined>>
      PROVE  Covered(d)' /\ OwnApprovalSuffices'
  <2>1. Covered(d)'
    BY <1>0, <1>5 DEF Covered, Executed, PairOf, PlanOf
  <2>2. \A b \in Calls : wallet'[b] = "reverted" => wallet[b] = "reverted" \/ b = c
    BY <1>0, <1>5 DEF WalletTypeOK
  <2>3. "approval" \in mined[c] => outside > 0
    <3> SUFFICES ASSUME "approval" \in mined[c], outside = 0 PROVE FALSE
      BY <1>0 DEF TypeOK
    <3> DEFINE left == allowance[PairOf(req[c])]
               drawn == Draws(req[c])
    <3>1. req[c] \in Checking /\ ~(left >= drawn)
      BY <1>5 DEF WouldSucceed
    <3>2. left + spent >= MaxUint
      BY <3>1 DEF Covered, spent, n
    <3>3. left \in Nat /\ drawn \in Nat /\ drawn <= d
      BY <1>0, <3>1, DrawsBounded DEF TypeOK, Pairs, WorthAll
    <3> HIDE DEF left, drawn
    <3> QED BY <1>0, <1>2, <1>3, <3>1, <3>2, <3>3
  <2>4. OwnApprovalSuffices'
    BY <1>0, <1>5, <2>2, <2>3 DEF OwnApprovalSuffices
  <2> QED BY <2>1, <2>4
<1> QED BY <1>4, <1>5 DEF MineAction

\* Every step of the wallet: the others touch no allowance of an undisturbed owner.
LEMMA CoveredStep ==
  ASSUME NEW d, WorthAll(d), WInv, Covered(d), OwnApprovalSuffices, [WalletNext]_allVars
  PROVE  Covered(d)' /\ OwnApprovalSuffices'
<1>0. WalletTypeOK /\ outside \in Nat
  BY DEF WInv, TypeOK
<1>1. CASE Outside /\ UNCHANGED walletVars
  <2>1. outside' = outside + 1
    BY <1>1 DEF Outside, AllowanceMoves, TransferableMoves
  <2>2. outside' > 0
    BY <1>0, <2>1
  <2> QED BY <2>2 DEF Covered, OwnApprovalSuffices
<1>2. ASSUME NEW c \in Calls, Build(c) PROVE Covered(d)' /\ OwnApprovalSuffices'
  <2>1. UNCHANGED <<mined, outside, allowance, req, wallet>>
    BY <1>2 DEF Build, walletVars, chainVars, Begin, Answer, Resume, ResumeCached,
                ResumeDecimals, ResumeTransferable, ResumeAllowance, ResumeLookup
  <2> QED BY <2>1, CoveredStays
<1>3. ASSUME NEW c \in Calls, Fault(c) PROVE Covered(d)' /\ OwnApprovalSuffices'
  <2>1. UNCHANGED <<mined, outside, allowance, req>>
    BY <1>3 DEF Fault, Reject, vars, callVars, chainVars
  <2>2. wallet' = wallet \/ wallet' = [wallet EXCEPT ![c] = "faulted"]
    BY <1>3 DEF Fault
  <2>3. \A b \in Calls : wallet'[b] = "reverted" => wallet[b] = "reverted"
    BY <1>0, <2>2 DEF WalletTypeOK
  <2> QED BY <2>1, <2>3, CoveredStays
<1>4. ASSUME NEW c \in Calls, CallTx(c) \/ EstimateTx(c)
      PROVE  Covered(d)' /\ OwnApprovalSuffices'
  <2>1. UNCHANGED <<mined, outside, allowance, req>>
    BY <1>4 DEF CallTx, EstimateTx, vars, callVars, chainVars
  <2>2. \E x \in {"estimating", "signed", "refused"} : wallet' = [wallet EXCEPT ![c] = x]
    BY <1>4 DEF CallTx, EstimateTx
  <2>3. \A b \in Calls : wallet'[b] = "reverted" => wallet[b] = "reverted"
    BY <1>0, <2>2 DEF WalletTypeOK
  <2> QED BY <2>1, <2>3, CoveredStays
<1>5. ASSUME NEW c \in Calls, ShiftList(c) \/ CallGas(c) \/ GasPrice(c) \/ GasEstimate(c)
      PROVE  Covered(d)' /\ OwnApprovalSuffices'
  <2>1. UNCHANGED <<mined, outside, allowance, req, wallet>>
    BY <1>5 DEF ShiftList, CallGas, GasPrice, GasEstimate, vars, callVars, chainVars,
                walletVars
  <2> QED BY <2>1, CoveredStays
<1>6. CASE UNCHANGED allVars
  <2>1. UNCHANGED <<mined, outside, allowance, req, wallet>>
    BY <1>6 DEF allVars, vars, callVars, chainVars, walletVars
  <2> QED BY <2>1, CoveredStays
<1> QED BY <1>1, <1>2, <1>3, <1>4, <1>5, <1>6, RebuildCovers, MineApprovalCovers,
           MineActionCovers DEF WalletNext

(***************************************************************************)
(* While an approval, which approve makes unlimited, is worth all that the *)
(* calls draw together, the action after a mined approval reverts only     *)
(* after a change from outside, whatever the other calls spend of it.      *)
(***************************************************************************)
THEOREM ApprovalsSuffice ==
  ASSUME Affordable
  PROVE  WalletSpec => []OwnApprovalSuffices
<1>1. PICK d \in Nat : WorthAll(d)
  BY DEF Affordable
<1>2. WalletInit => Covered(d) /\ OwnApprovalSuffices
  BY DEF WalletInit, Covered, OwnApprovalSuffices
<1>3. WInv /\ (Covered(d) /\ OwnApprovalSuffices) /\ [WalletNext]_allVars
        => (Covered(d) /\ OwnApprovalSuffices)'
  BY <1>1, CoveredStep
<1> QED BY <1>2, <1>3, WalletInvariance, PTL DEF WalletSpec
=============================================================================
