-------------------------- MODULE TxBuilder_proofs ---------------------------
(***************************************************************************)
(* Proofs about TxBuilder, for every set of tokens, requests, concurrent   *)
(* calls and every scale and amount.                                       *)
(***************************************************************************)
EXTENDS TxBuilder, TLAPS

(***************************************************************************)
(* What the proofs need to know of a plan p, made with some contents of    *)
(* the decimals cache, and of the plan r made when all decimals are known. *)
(***************************************************************************)
IsAllowance(p, k) ==
  k \in 1..Len(p.reads) /\ p.reads[k].kind \in AllowanceKinds
IsTransferable(p, k) ==
  k \in 1..Len(p.reads) /\ p.reads[k].kind = "transferable"

SameOutline(p, r) ==
  /\ p.reads = r.reads /\ p.token = r.token
  /\ p.spender = r.spender /\ p.strict = r.strict

Reading(p) ==
  /\ Len(p.reads) \in 0..4
  /\ \A k \in 1..Len(p.reads) :
       p.reads[k].kind = "decimals" => p.reads[k].token \in Tokens \cup {ETH}
  /\ p.strict \in BOOLEAN /\ p.need \in Int

OneAllowance(p) ==
  /\ p.token # None => p.token \in Tokens
  /\ p.token # None => \E k \in 1..4 : IsAllowance(p, k)
  /\ \A k \in 1..4 : IsAllowance(p, k) =>
       /\ p.token # None
       /\ p.reads[k].token = p.token /\ p.reads[k].spender = p.spender
       /\ \E i \in 1..4 : i < k /\ p.reads[i].kind = "decimals"
                               /\ p.reads[i].token = p.token
       /\ \A j \in 1..4 : IsAllowance(p, j) => j = k

NeedFollows(p, r, s) ==
  p.token # None /\ s[p.token] = Scale[p.token] => p.need = r.need

AmountFollows(q, p, r, s) ==
  \A k \in 1..4 : IsTransferable(p, k) =>
    /\ \E i \in 1..4 : i < k /\ p.reads[i].kind = "decimals"
                            /\ p.reads[i].token = q.asset
    /\ q.asset \in Tokens
    /\ s[q.asset] = Scale[q.asset] => p.amount = r.amount
    /\ \A j \in 1..4 : IsTransferable(p, j) => j = k

Outlined(q, p, r, s) ==
  SameOutline(p, r) /\ Reading(p) /\ OneAllowance(p) /\ NeedFollows(p, r, s)
    /\ AmountFollows(q, p, r, s)

USE DEF AllowanceKinds

LEMMA NeedType ==
  ASSUME NEW q \in Request, NEW scale \in Nat
  PROVE  ParseNumber(q.amount, scale) \in Int /\ Needed(q.amount, scale) \in Int
<1>1. q.amount \in Int
  BY DEF Request, All
<1> DEFINE n == 2 * (q.amount * scale) + Frac
           m == 2 * Frac
<1>2. n \in Int /\ m \in Nat \ {0}
  BY <1>1, RequestAssumption DEF Positive
<1>3. ParseNumber(q.amount, scale) = n \div m
  BY DEF ParseNumber, HalfUp
<1> HIDE DEF n, m
<1>4. ParseNumber(q.amount, scale) \in Int
  BY <1>2, <1>3
<1> QED BY <1>4, RequestAssumption DEF Needed, Positive

LEMMA UncheckedOutlined ==
  ASSUME NEW q, NEW reads, NEW a, NEW b, NEW s,
         Len(reads) \in 0..4,
         \A k \in 1..Len(reads) :
           /\ reads[k].kind \in {"decimals", "tokenLookup"}
           /\ reads[k].kind = "decimals" => reads[k].token \in Tokens \cup {ETH}
  PROVE  Outlined(q, Unchecked(reads, a), Unchecked(reads, b), s)
<1> DEFINE p == Unchecked(reads, a)
<1>1. /\ p.reads = reads /\ p.token = None /\ p.strict = FALSE /\ p.need = 0
      /\ SameOutline(p, Unchecked(reads, b))
  BY DEF Unchecked, SameOutline
<1>2. \A k : ~IsAllowance(p, k) /\ ~IsTransferable(p, k)
  BY <1>1 DEF IsAllowance, IsTransferable
<1> HIDE DEF p
<1>3. Reading(p)
  BY <1>1, 0 \in Int, FALSE \in BOOLEAN DEF Reading
<1>4. OneAllowance(p) /\ NeedFollows(p, Unchecked(reads, b), s)
        /\ AmountFollows(q, p, Unchecked(reads, b), s)
  BY <1>1, <1>2 DEF OneAllowance, NeedFollows, AmountFollows
<1> QED BY <1>1, <1>3, <1>4 DEF Outlined, p

LEMMA ActionOnlyOutlined ==
  ASSUME NEW q, NEW a, NEW b, NEW s
  PROVE  Outlined(q, ActionOnly(a), ActionOnly(b), s)
BY UncheckedOutlined DEF ActionOnly

LEMMA OneReadOutlined ==
  ASSUME NEW q, NEW a, NEW b, NEW s, NEW t \in Tokens \cup {ETH}
  PROVE  Outlined(q, Unchecked(<<DecimalsOf(t)>>, a),
                     Unchecked(<<DecimalsOf(t)>>, b), s)
<1> DEFINE reads == <<DecimalsOf(t)>>
<1>1. Len(reads) = 1 /\ reads[1].kind = "decimals" /\ reads[1].token = t
  BY DEF DecimalsOf, Read
<1> HIDE DEF reads
<1> QED BY <1>1, UncheckedOutlined DEF reads

LEMMA LookupOutlined ==
  ASSUME NEW q, NEW a, NEW b, NEW s, NEW t \in Tokens \cup {ETH}
  PROVE  Outlined(q, Unchecked(<<TokenLookup, DecimalsOf(t)>>, a),
                     Unchecked(<<TokenLookup, DecimalsOf(t)>>, b), s)
<1> DEFINE reads == <<TokenLookup, DecimalsOf(t)>>
<1>1. /\ Len(reads) = 2 /\ reads[1].kind = "tokenLookup"
      /\ reads[2].kind = "decimals" /\ reads[2].token = t
  BY DEF DecimalsOf, TokenLookup, Read
<1> HIDE DEF reads
<1> QED BY <1>1, UncheckedOutlined DEF reads

LEMMA DepositOutlined ==
  ASSUME NEW q \in Accepted, q.op = "deposit", NEW s \in [Tokens -> Nat]
  PROVE  Outlined(q, Deposit(q, s), Deposit(q, Scale), s)
<1>q. q \in Requests /\ q \in Request /\ Entry(q) = "go"
  BY RequestAssumption DEF Accepted
<1>1. CASE q.asset = ETH
  BY <1>1, ActionOnlyOutlined DEF Deposit, DepositETH
<1>2. CASE q.asset # ETH /\ q.asset = SNX
  BY <1>2, <1>q, NeedType, RequestAssumption
     DEF Deposit,
         DecimalsOf, AllowanceOf, TransferableSnx, Read, Checked, Request,
         IsAllowance, IsTransferable, Outlined, SameOutline, Reading,
         OneAllowance, NeedFollows, AmountFollows
<1>3. CASE q.asset # ETH /\ q.asset # SNX
  BY <1>3, <1>q, NeedType, RequestAssumption
     DEF Deposit,
         DecimalsOf, AllowanceOf, TransferableSnx, Read, Checked, Request,
         IsAllowance, IsTransferable, Outlined, SameOutline, Reading,
         OneAllowance, NeedFollows, AmountFollows
<1> QED BY <1>1, <1>2, <1>3

LEMMA RepayOutlined ==
  ASSUME NEW q \in Accepted, q.op = "repay", NEW s \in [Tokens -> Nat]
  PROVE  Outlined(q, Repay(q, s), Repay(q, Scale), s)
<1>q. q \in Requests /\ q \in Request /\ Entry(q) = "go"
  BY RequestAssumption DEF Accepted
<1>1. CASE q.asset = ETH
  BY <1>1, ActionOnlyOutlined DEF Repay, RepayETH
<1>2. CASE q.asset # ETH /\ q.asset = SNX /\ q.amount # All
  BY <1>2, <1>q, NeedType, RequestAssumption
     DEF Repay,
         DecimalsOf, AllowanceOf, TransferableSnx, Read, Checked, Request,
         IsAllowance, IsTransferable, Outlined, SameOutline, Reading,
         OneAllowance, NeedFollows, AmountFollows
<1>3. CASE q.asset # ETH /\ ~(q.asset = SNX /\ q.amount # All)
  BY <1>3, <1>q, NeedType, RequestAssumption
     DEF Repay,
         DecimalsOf, AllowanceOf, TransferableSnx, Read, Checked, Request,
         IsAllowance, IsTransferable, Outlined, SameOutline, Reading,
         OneAllowance, NeedFollows, AmountFollows
<1> QED BY <1>1, <1>2, <1>3

LEMMA WithdrawOutlined ==
  ASSUME NEW q \in Accepted, q.op = "withdraw", NEW s \in [Tokens -> Nat]
  PROVE  Outlined(q, Withdraw(q, s), Withdraw(q, Scale), s)
<1>q. q \in Requests /\ q \in Request /\ Entry(q) = "go"
  BY RequestAssumption DEF Accepted
<1>0. q.asset = ETH => q.via \in Tokens
  BY <1>q DEF Entry, GoesToGateway, Request
<1>1. CASE q.asset = ETH
  BY <1>1, <1>q, <1>0, NeedType, RequestAssumption
     DEF Withdraw, WithdrawETH,
         DecimalsOf, AllowanceOf, TransferableSnx, Read, Checked, Request,
         IsAllowance, IsTransferable, Outlined, SameOutline, Reading,
         OneAllowance, NeedFollows, AmountFollows
<1>2. CASE q.asset # ETH
  BY <1>2, <1>q, OneReadOutlined DEF Withdraw, Request
<1> QED BY <1>1, <1>2

LEMMA BorrowOutlined ==
  ASSUME NEW q \in Accepted, q.op = "borrow", NEW s \in [Tokens -> Nat]
  PROVE  Outlined(q, Borrow(q, s), Borrow(q, Scale), s)
<1>q. q \in Requests /\ q \in Request /\ Entry(q) = "go"
  BY RequestAssumption DEF Accepted
<1>0. q.asset = ETH => q.via \in Tokens
  BY <1>q DEF Entry, GoesToGateway, Request
<1>1. CASE q.asset = ETH
  BY <1>1, <1>q, <1>0, NeedType, RequestAssumption
     DEF Borrow, BorrowETH, BorrowAllowanceOf,
         DecimalsOf, AllowanceOf, TransferableSnx, Read, Checked, Request,
         IsAllowance, IsTransferable, Outlined, SameOutline, Reading,
         OneAllowance, NeedFollows, AmountFollows
<1>2. CASE q.asset # ETH
  BY <1>2, <1>q, OneReadOutlined DEF Borrow, Request
<1> QED BY <1>1, <1>2

LEMMA LiquidationCallOutlined ==
  ASSUME NEW q \in Accepted, q.op = "liquidationCall", NEW s \in [Tokens -> Nat]
  PROVE  Outlined(q, LiquidationCall(q, s), LiquidationCall(q, Scale), s)
<1>q. q \in Requests /\ q \in Request /\ Entry(q) = "go"
  BY RequestAssumption DEF Accepted
<1>1. CASE q.asset = ETH
  BY <1>1, ActionOnlyOutlined DEF LiquidationCall
<1>2. CASE q.asset # ETH
  <2> DEFINE reads == <<DecimalsOf(q.asset), AllowanceOf(q.asset, "LENDING_POOL"),
                        TokenData(q.asset)>>
             calldata(x) == IF q.whole THEN MaxUint
                            ELSE ParseNumber(q.amount, x[q.asset])
             plan(x) == Checked(reads, q.asset, "LENDING_POOL",
                                ParseNumber(q.amount, x[q.asset]), calldata(x))
  <2>1. LiquidationCall(q, s) = plan(s) /\ LiquidationCall(q, Scale) = plan(Scale)
    BY <1>2 DEF LiquidationCall, ScaleIn
  <2>2. Outlined(q, plan(s), plan(Scale), s)
    <3> HIDE DEF calldata
    <3> QED
      BY <1>2, <1>q, NeedType, RequestAssumption
         DEF TokenData,
             DecimalsOf, AllowanceOf, Read, Checked, Request,
             IsAllowance, IsTransferable, Outlined, SameOutline, Reading,
             OneAllowance, NeedFollows, AmountFollows
  <2> QED BY <2>1, <2>2
<1> QED BY <1>1, <1>2

LEMMA SwapCollateralOutlined ==
  ASSUME NEW q \in Accepted, q.op = "swapCollateral", NEW s \in [Tokens -> Nat]
  PROVE  Outlined(q, SwapCollateral(q, s), SwapCollateral(q, Scale), s)
<1>q. q \in Requests /\ q \in Request /\ Entry(q) = "go"
  BY RequestAssumption DEF Accepted
<1>0. q.via \in Tokens
  BY <1>q, AaveTokenAssumption DEF Request
<1>1. QED
  BY <1>q, <1>0, NeedType, RequestAssumption
     DEF SwapCollateral, SwapAndDeposit, augustusFromAmountOffsetFromCalldata,
         ScaleIn,
         DecimalsOf, AllowanceOf, TransferableSnx, Read, Checked, Request,
         IsAllowance, IsTransferable, Outlined, SameOutline, Reading,
         OneAllowance, NeedFollows, AmountFollows

LEMMA RepayWithCollateralOutlined ==
  ASSUME NEW q \in Accepted, q.op = "repayWithCollateral", NEW s \in [Tokens -> Nat]
  PROVE  Outlined(q, RepayWithCollateral(q, s), RepayWithCollateral(q, Scale), s)
<1>q. q \in Requests /\ q \in Request /\ Entry(q) = "go"
  BY RequestAssumption DEF Accepted
<1>0. q.via \in Tokens
  BY <1>q, AaveTokenAssumption DEF Request
<1>1. QED
  BY <1>q, <1>0, NeedType, RequestAssumption
     DEF RepayWithCollateral, SwapAndRepay, ScaleIn,
         DecimalsOf, AllowanceOf, TransferableSnx, Read, Checked, Request,
         IsAllowance, IsTransferable, Outlined, SameOutline, Reading,
         OneAllowance, NeedFollows, AmountFollows

LEMMA FlashLiquidationOutlined ==
  ASSUME NEW q \in Accepted, q.op = "flashLiquidation", NEW s \in [Tokens -> Nat]
  PROVE  Outlined(q, FlashLiquidation(q, s), FlashLiquidation(q, Scale), s)
<1>q. q \in Requests /\ q \in Request /\ Entry(q) = "go"
  BY RequestAssumption DEF Accepted
<1>1. QED
  BY <1>q, OneReadOutlined DEF FlashLiquidation, Request

LEMMA StakeOutlined ==
  ASSUME NEW q \in Accepted, q.op = "stake", NEW s \in [Tokens -> Nat]
  PROVE  Outlined(q, Stake(q, s), Stake(q, Scale), s)
<1>q. q \in Requests /\ q \in Request /\ Entry(q) = "go"
  BY RequestAssumption DEF Accepted
<1>0. q.asset \in Tokens
  BY <1>q, AaveTokenAssumption DEF Request
<1>1. QED
  BY <1>q, <1>0, NeedType, RequestAssumption
     DEF Stake, ScaleIn, TokenLookup,
         DecimalsOf, AllowanceOf, TransferableSnx, Read, Checked, Request,
         IsAllowance, IsTransferable, Outlined, SameOutline, Reading,
         OneAllowance, NeedFollows, AmountFollows

LEMMA StakeWithPermitOutlined ==
  ASSUME NEW q \in Accepted, q.op = "stakeWithPermit", NEW s \in [Tokens -> Nat]
  PROVE  Outlined(q, StakeWithPermit(q, s), StakeWithPermit(q, Scale), s)
<1>q. q \in Requests /\ q \in Request /\ Entry(q) = "go"
  BY RequestAssumption DEF Accepted
<1>0. q.asset \in Tokens
  BY <1>q, AaveTokenAssumption DEF Request
<1>1. QED
  BY <1>0, LookupOutlined DEF StakeWithPermit

LEMMA RedeemOutlined ==
  ASSUME NEW q \in Accepted, q.op \in {"redeem", "claimRewards"}, NEW s \in [Tokens -> Nat]
  PROVE  Outlined(q, Redeem(q, s), Redeem(q, Scale), s)
<1>q. q \in Requests /\ q \in Request /\ Entry(q) = "go"
  BY RequestAssumption DEF Accepted
<1>0. q.asset \in Tokens
  BY <1>q, AaveTokenAssumption DEF Request
<1>1. CASE q.amount = All
  BY <1>1, ActionOnlyOutlined DEF Redeem
<1>2. CASE q.amount # All
  BY <1>2, <1>0, LookupOutlined DEF Redeem
<1> QED BY <1>1, <1>2

LEMMA MigrateLendToAaveOutlined ==
  ASSUME NEW q \in Accepted, q.op = "migrateLendToAave", NEW s \in [Tokens -> Nat]
  PROVE  Outlined(q, MigrateLendToAave(q, s), MigrateLendToAave(q, Scale), s)
<1>q. q \in Requests /\ q \in Request /\ Entry(q) = "go"
  BY RequestAssumption DEF Accepted
<1>0. q.asset \in Tokens
  BY <1>q, AaveTokenAssumption DEF Request
<1>1. QED
  BY <1>q, <1>0, NeedType, RequestAssumption
     DEF MigrateLendToAave, ScaleIn, TokenLookup,
         DecimalsOf, AllowanceOf, TransferableSnx, Read, Checked, Request,
         IsAllowance, IsTransferable, Outlined, SameOutline, Reading,
         OneAllowance, NeedFollows, AmountFollows

LEMMA PlanOutlined ==
  ASSUME NEW q \in Accepted, NEW s \in [Tokens -> Nat]
  PROVE  Outlined(q, Plan(q, s), PlanOf[q], s)
<1>0. PlanOf[q] = Plan(q, Scale)
  BY DEF PlanOf
<1>1. CASE q.op = "deposit"
  BY <1>0, <1>1, DepositOutlined DEF Plan
<1>2. CASE q.op = "withdraw"
  BY <1>0, <1>2, WithdrawOutlined DEF Plan
<1>3. CASE q.op = "borrow"
  BY <1>0, <1>3, BorrowOutlined DEF Plan
<1>4. CASE q.op = "repay"
  BY <1>0, <1>4, RepayOutlined DEF Plan
<1>5. CASE q.op = "liquidationCall"
  BY <1>0, <1>5, LiquidationCallOutlined DEF Plan
<1>6. CASE q.op = "swapCollateral"
  BY <1>0, <1>6, SwapCollateralOutlined DEF Plan
<1>7. CASE q.op = "repayWithCollateral"
  BY <1>0, <1>7, RepayWithCollateralOutlined DEF Plan
<1>8. CASE q.op = "flashLiquidation"
  BY <1>0, <1>8, FlashLiquidationOutlined DEF Plan
<1>9. CASE q.op = "stake"
  BY <1>0, <1>9, StakeOutlined DEF Plan
<1>10. CASE q.op = "stakeWithPermit"
  BY <1>0, <1>10, StakeWithPermitOutlined DEF Plan
<1>11. CASE q.op = "migrateLendToAave"
  BY <1>0, <1>11, MigrateLendToAaveOutlined DEF Plan
<1>12. CASE q.op \in {"redeem", "claimRewards"}
  BY <1>0, <1>12, RedeemOutlined DEF Plan
<1>13. CASE q.op \notin {"redeem", "claimRewards", "deposit", "withdraw", "borrow", "repay", "liquidationCall", "swapCollateral", "repayWithCollateral", "flashLiquidation", "stake", "stakeWithPermit", "migrateLendToAave"}
  BY <1>0, <1>13, ActionOnlyOutlined DEF Plan
<1> QED BY <1>1, <1>2, <1>3, <1>4, <1>5, <1>6, <1>7, <1>8, <1>9, <1>10, <1>11, <1>12, <1>13

-----------------------------------------------------------------------------
(***************************************************************************)
(* The inductive invariant.  What a call has established when it awaits    *)
(* its k-th read: every decimals() read before is in the cache, the        *)
(* verdict is the one the allowance calls for, the SNX were transferable.  *)
(***************************************************************************)
DecimalsKnown(q, k, cache) ==
  \A i \in 1..4 :
    /\ i < k /\ i <= Len(Reads(q))
    /\ Reads(q)[i].kind = "decimals" /\ Reads(q)[i].token # ETH
    => cache[Reads(q)[i].token] = Scale[Reads(q)[i].token]

VerdictHolds(q, k, ok, allowed, changed) ==
  /\ \A i \in 1..4 :
       i < k /\ IsAllowance(PlanOf[q], i) /\ "allowance" \notin changed
         => ok = Suffices(PlanOf[q], allowed[PairOf(q)])
  /\ (\A i \in 1..4 : i < k => ~IsAllowance(PlanOf[q], i)) => ok = TRUE

SnxHolds(q, k, available, changed) ==
  \A i \in 1..4 :
    i < k /\ IsTransferable(PlanOf[q], i) /\ "transferable" \notin changed
      => PlanOf[q].amount <= available

\* The answer to a read, before it is used.
AnswerHolds(q, k, answer, allowed, available, changed) ==
  /\ Reads(q)[k].kind = "decimals" => answer = Scale[Reads(q)[k].token]
  /\ IsAllowance(PlanOf[q], k) /\ "allowance" \notin changed
       => answer = allowed[PairOf(q)]
  /\ IsTransferable(PlanOf[q], k) /\ "transferable" \notin changed
       => answer = available

Started(c) == pc[c] \in Awaiting \cup {"done"} /\ req[c] \in Accepted

CallInv(c) ==
  /\ req[c] \notin Accepted \/ pc[c] = "idle" => at[c] = 1
  /\ pc[c] # "done" => txs[c] = << >>
  /\ pc[c] \in Awaiting =>
       req[c] \in Accepted /\ at[c] <= Len(Reads(req[c]))
  /\ pc[c] = "done" =>
       \/ /\ req[c] \in Accepted /\ at[c] = Len(Reads(req[c])) + 1
          /\ txs[c] = Listed(approved[c])
       \/ req[c] \notin Accepted /\ txs[c] = << >>
  /\ Started(c) =>
       /\ DecimalsKnown(req[c], at[c], tokenDecimals)
       /\ VerdictHolds(req[c], at[c], approved[c], allowance, moved[c])
       /\ SnxHolds(req[c], at[c], transferable, moved[c])
  /\ pc[c] = "cached" => IsCached(CurrentRead(c), tokenDecimals)
  /\ pc[c] \in {"asked", "answered"} /\ CurrentRead(c).kind = "decimals"
       => CurrentRead(c).token \in Tokens
  /\ pc[c] = "answered" =>
       AnswerHolds(req[c], at[c], got[c], allowance, transferable, moved[c])

CacheInv == \A t \in Tokens : tokenDecimals[t] \in {0, Scale[t]}

IInv == TypeOK /\ CacheInv /\ \A c \in Calls : CallInv(c)

-----------------------------------------------------------------------------
LEMMA AcceptedReads ==
  ASSUME NEW q \in Accepted
  PROVE  /\ Len(Reads(q)) \in 0..4
         /\ \A k \in 1..Len(Reads(q)) :
              Reads(q)[k].kind = "decimals" => Reads(q)[k].token \in Tokens \cup {ETH}
         /\ PlanOf[q].strict \in BOOLEAN
         /\ OneAllowance(PlanOf[q])
         /\ \A k \in 1..4 : IsAllowance(PlanOf[q], k) => q \in Checking
         /\ \A j, k \in 1..4 :
              IsTransferable(PlanOf[q], j) /\ IsTransferable(PlanOf[q], k) => j = k
         /\ q \in Checking => PairOf(q) \in Pairs
<1>1. Scale \in [Tokens -> Nat]
  BY RequestAssumption DEF Positive
<1>2. PlanOf[q] = Plan(q, Scale)
  BY DEF PlanOf
<1>3. Outlined(q, PlanOf[q], PlanOf[q], Scale)
  BY <1>1, <1>2, PlanOutlined
<1>4. /\ Reading(PlanOf[q]) /\ OneAllowance(PlanOf[q])
      /\ AmountFollows(q, PlanOf[q], PlanOf[q], Scale)
  BY <1>3 DEF Outlined
<1>5. \A j, k \in 1..4 :
        IsTransferable(PlanOf[q], j) /\ IsTransferable(PlanOf[q], k) => j = k
  BY <1>4 DEF AmountFollows
<1> QED BY <1>4, <1>5 DEF Reading, OneAllowance, Checking, Pairs, Reads

LEMMA PlanNow ==
  ASSUME NEW q \in Accepted, NEW cache \in [Tokens -> Nat]
  PROVE  /\ Plan(q, cache).reads = Reads(q)
         /\ Plan(q, cache).need \in Int /\ Plan(q, cache).strict \in BOOLEAN
         /\ \A k \in 1..4 : \A a :
              DecimalsKnown(q, k, cache) /\ IsAllowance(PlanOf[q], k)
                => Suffices(Plan(q, cache), a) = Suffices(PlanOf[q], a)
         /\ \A k \in 1..4 :
              DecimalsKnown(q, k, cache) /\ IsTransferable(PlanOf[q], k)
                => Plan(q, cache).amount = PlanOf[q].amount
<1> DEFINE p == Plan(q, cache)
           r == PlanOf[q]
<1>1. SameOutline(p, r) /\ OneAllowance(p) /\ NeedFollows(p, r, cache)
        /\ AmountFollows(q, p, r, cache) /\ Reading(p)
  BY PlanOutlined DEF Outlined
<1> HIDE DEF p, r
<1>2. p.reads = r.reads /\ p.token = r.token /\ p.strict = r.strict
  BY <1>1 DEF SameOutline
<1>3. ASSUME NEW k \in 1..4, NEW a,
             DecimalsKnown(q, k, cache), IsAllowance(r, k)
      PROVE  Suffices(p, a) = Suffices(r, a)
  <2>1. IsAllowance(p, k)
    BY <1>2, <1>3 DEF IsAllowance
  <2>2. PICK i \in 1..4 : /\ i < k /\ p.reads[i].kind = "decimals"
                          /\ p.reads[i].token = p.token
    BY <1>1, <2>1 DEF OneAllowance
  <2>3. p.token \in Tokens /\ k <= Len(p.reads) /\ Len(p.reads) \in 0..4
    BY <1>1, <2>1 DEF OneAllowance, IsAllowance, Reading
  <2>4. cache[p.token] = Scale[p.token]
    BY <1>2, <1>3, <2>2, <2>3, RequestAssumption DEF DecimalsKnown, Reads, r
  <2>5. p.need = r.need
    BY <1>1, <2>3, <2>4, RequestAssumption DEF NeedFollows
  <2> QED BY <1>2, <2>5 DEF Suffices
<1>4. ASSUME NEW k \in 1..4, DecimalsKnown(q, k, cache), IsTransferable(r, k)
      PROVE  p.amount = r.amount
  <2>1. IsTransferable(p, k)
    BY <1>2, <1>4 DEF IsTransferable
  <2>2. PICK i \in 1..4 : /\ i < k /\ p.reads[i].kind = "decimals"
                          /\ p.reads[i].token = q.asset
    BY <1>1, <2>1 DEF AmountFollows
  <2>3. q.asset \in Tokens /\ k <= Len(p.reads) /\ Len(p.reads) \in 0..4
    BY <1>1, <2>1 DEF AmountFollows, IsTransferable, Reading
  <2>4. cache[q.asset] = Scale[q.asset]
    BY <1>2, <1>4, <2>2, <2>3, RequestAssumption DEF DecimalsKnown, Reads, r
  <2> QED BY <1>1, <2>1, <2>4 DEF AmountFollows
<1> QED BY <1>1, <1>2, <1>3, <1>4 DEF p, r, Reads, Reading

-----------------------------------------------------------------------------
(* A call that takes no step keeps its part of the invariant.              *)

LEMMA DecimalsStayKnown ==
  ASSUME NEW q \in Accepted, NEW k, NEW old, NEW new,
         \A t \in Tokens : old[t] = Scale[t] => new[t] = Scale[t],
         DecimalsKnown(q, k, old)
  PROVE  DecimalsKnown(q, k, new)
<1> SUFFICES ASSUME NEW i \in 1..4, i < k, i <= Len(Reads(q)),
                    Reads(q)[i].kind = "decimals", Reads(q)[i].token # ETH
             PROVE  new[Reads(q)[i].token] = Scale[Reads(q)[i].token]
  BY DEF DecimalsKnown
<1>1. Reads(q)[i].token \in Tokens
  BY AcceptedReads
<1> QED BY <1>1 DEF DecimalsKnown

LEMMA AwaitingAt ==
  ASSUME TypeOK, NEW d \in Calls, CallInv(d), pc[d] \in Awaiting
  PROVE  /\ req[d] \in Accepted /\ at[d] \in 1..4
         /\ at[d] <= Len(Reads(req[d]))
<1> DEFINE n == Len(Reads(req[d]))
<1>1. req[d] \in Accepted /\ at[d] <= n
  BY DEF CallInv
<1>2. at[d] \in 1..5
  BY DEF TypeOK
<1>3. n \in 0..4
  BY <1>1, AcceptedReads
<1> HIDE DEF n
<1>4. at[d] \in 1..4
  BY <1>1, <1>2, <1>3
<1> QED BY <1>1, <1>4 DEF n

LEMMA BystanderKeeps ==
  ASSUME TypeOK, CacheInv, NEW d \in Calls, CallInv(d),
         \A t \in Tokens : \/ tokenDecimals'[t] = tokenDecimals[t]
                           \/ tokenDecimals[t] = 0,
         CacheInv',
         req'[d] = req[d], pc'[d] = pc[d], at'[d] = at[d], got'[d] = got[d],
         approved'[d] = approved[d], txs'[d] = txs[d],
         moved[d] \subseteq moved'[d],
         "allowance" \notin moved'[d] /\ req[d] \in Checking =>
           allowance'[PairOf(req[d])] = allowance[PairOf(req[d])],
         "transferable" \notin moved'[d] => transferable' = transferable
  PROVE  CallInv(d)'
<1>1. \A t \in Tokens : tokenDecimals[t] = Scale[t] => tokenDecimals'[t] = Scale[t]
  BY RequestAssumption DEF CacheInv, Positive
<1>2. ASSUME Started(d)
      PROVE  /\ DecimalsKnown(req[d], at[d], tokenDecimals')
             /\ VerdictHolds(req[d], at[d], approved[d], allowance', moved'[d])
             /\ SnxHolds(req[d], at[d], transferable', moved'[d])
  <2>1. /\ DecimalsKnown(req[d], at[d], tokenDecimals)
        /\ VerdictHolds(req[d], at[d], approved[d], allowance, moved[d])
        /\ SnxHolds(req[d], at[d], transferable, moved[d])
        /\ req[d] \in Accepted
    BY <1>2 DEF CallInv, Started
  <2>2. \A k \in 1..4 : IsAllowance(PlanOf[req[d]], k) => req[d] \in Checking
    BY <2>1, AcceptedReads
  <2>3. DecimalsKnown(req[d], at[d], tokenDecimals')
    BY <1>1, <2>1, DecimalsStayKnown
  <2>4. VerdictHolds(req[d], at[d], approved[d], allowance', moved'[d])
    BY <2>1, <2>2 DEF VerdictHolds
  <2>5. SnxHolds(req[d], at[d], transferable', moved'[d])
    BY <2>1 DEF SnxHolds
  <2> QED BY <2>3, <2>4, <2>5
<1>3. ASSUME pc[d] \in Awaiting
      PROVE  req[d] \in Accepted /\ at[d] \in 1..4 /\ at[d] <= Len(Reads(req[d]))
  BY <1>3, AwaitingAt
<1>4. pc[d] = "answered" =>
        AnswerHolds(req[d], at[d], got[d], allowance', transferable', moved'[d])
  <2> SUFFICES ASSUME pc[d] = "answered"
               PROVE  AnswerHolds(req[d], at[d], got[d], allowance',
                                  transferable', moved'[d])
    OBVIOUS
  <2>1. AnswerHolds(req[d], at[d], got[d], allowance, transferable, moved[d])
    BY DEF CallInv
  <2>2. IsAllowance(PlanOf[req[d]], at[d]) => req[d] \in Checking
    BY <1>3, AcceptedReads DEF Awaiting
  <2> QED BY <2>1, <2>2 DEF AnswerHolds
<1>5. pc[d] = "cached" => IsCached(CurrentRead(d), tokenDecimals')
  <2> SUFFICES ASSUME pc[d] = "cached"
               PROVE  IsCached(CurrentRead(d), tokenDecimals')
    OBVIOUS
  <2>1. IsCached(CurrentRead(d), tokenDecimals)
    BY DEF CallInv
  <2>2. CurrentRead(d).token \in Tokens \cup {ETH}
    BY <1>3, <2>1, AcceptedReads DEF IsCached, CurrentRead, Awaiting
  <2>3. CurrentRead(d).token \in Tokens =>
          \/ tokenDecimals'[CurrentRead(d).token] = tokenDecimals[CurrentRead(d).token]
          \/ tokenDecimals[CurrentRead(d).token] = 0
    OBVIOUS
  <2> QED BY <2>1, <2>2, <2>3, RequestAssumption DEF IsCached
<1>6. CurrentRead(d)' = CurrentRead(d)
  BY DEF CurrentRead, Reads, PlanOf
<1>7. Started(d)' = Started(d)
  BY DEF Started
<1> QED
  BY <1>2, <1>4, <1>5, <1>6, <1>7 DEF CallInv, Reads

(* The code from one await to the next keeps the invariant of its call,   *)
(* given what the read it resumes from has established.                    *)
LEMMA ProceedKeeps ==
  ASSUME TypeOK, NEW c \in Calls, req[c] \in Accepted, txs[c] = << >>,
         tokenDecimals' \in [Tokens -> Nat],
         UNCHANGED <<req, chainVars, moved>>,
         NEW k \in 1..5, NEW ok \in BOOLEAN,
         k <= Len(Reads(req[c])) + 1,
         Proceed(c, k, tokenDecimals', ok),
         DecimalsKnown(req[c], k, tokenDecimals'),
         VerdictHolds(req[c], k, ok, allowance, moved[c]),
         SnxHolds(req[c], k, transferable, moved[c])
  PROVE  /\ TypeOK' /\ CallInv(c)'
         /\ \A d \in Calls \ {c} :
              /\ pc'[d] = pc[d] /\ at'[d] = at[d] /\ got'[d] = got[d]
              /\ approved'[d] = approved[d] /\ txs'[d] = txs[d]
<1> DEFINE plan == Plan(req[c], tokenDecimals')
<1>1. plan.reads = Reads(req[c])
  BY PlanNow
<1>2. /\ approved' = [approved EXCEPT ![c] = ok]
      /\ got' = [got EXCEPT ![c] = 0]
      /\ at' = [at EXCEPT ![c] = k]
  BY DEF Proceed
<1>3. \/ /\ k <= Len(Reads(req[c])) /\ txs' = txs
         /\ pc' = [pc EXCEPT ![c] = IF IsCached(Reads(req[c])[k], tokenDecimals')
                                    THEN "cached" ELSE "asked"]
      \/ /\ k = Len(Reads(req[c])) + 1
         /\ pc' = [pc EXCEPT ![c] = "done"] /\ txs' = [txs EXCEPT ![c] = Listed(ok)]
      \/ /\ k = Len(Reads(req[c])) + 1
         /\ pc' = [pc EXCEPT ![c] = "failed"] /\ txs' = txs
  BY <1>1, AcceptedReads DEF Proceed
<1>4. TypeOK'
  <2>1. pc' \in [Calls -> {"idle", "done", "failed"} \cup Awaiting]
    BY <1>3 DEF TypeOK, Awaiting
  <2>2. txs' \in [Calls -> Lists]
    BY <1>3 DEF TypeOK, Lists, Listed
  <2> QED BY <1>2, <2>1, <2>2 DEF TypeOK, chainVars
<1>5. at'[c] = k /\ approved'[c] = ok /\ got'[c] = 0 /\ req'[c] = req[c]
      /\ moved'[c] = moved[c] /\ allowance' = allowance
      /\ transferable' = transferable
  BY <1>2 DEF TypeOK, chainVars
<1>6. CallInv(c)'
  <2> DEFINE read == Reads(req[c])[k]
  <2>1. CASE /\ k <= Len(Reads(req[c])) /\ txs' = txs
             /\ pc' = [pc EXCEPT ![c] = IF IsCached(read, tokenDecimals')
                                        THEN "cached" ELSE "asked"]
    <3>1. CurrentRead(c)' = read
      BY <1>5 DEF CurrentRead, Reads, PlanOf
    <3>2. /\ pc'[c] \in {"asked", "cached"}
          /\ pc'[c] = "cached" <=> IsCached(read, tokenDecimals')
      BY <2>1 DEF TypeOK
    <3>3. read.kind = "decimals" => read.token \in Tokens \cup {ETH}
      BY <2>1, AcceptedReads
    <3>4. pc'[c] = "asked" /\ read.kind = "decimals" => read.token \in Tokens
      BY <3>2, <3>3 DEF IsCached
    <3> QED BY <1>5, <2>1, <3>1, <3>2, <3>4 DEF CallInv, Started, Awaiting, Reads
  <2>2. CASE /\ k = Len(Reads(req[c])) + 1
             /\ pc' = [pc EXCEPT ![c] = "done"]
             /\ txs' = [txs EXCEPT ![c] = Listed(ok)]
    <3>1. pc'[c] = "done" /\ txs'[c] = Listed(ok)
      BY <2>2 DEF TypeOK
    <3> QED BY <1>5, <2>2, <3>1 DEF CallInv, Started, Awaiting, Reads
  <2>3. CASE pc' = [pc EXCEPT ![c] = "failed"] /\ txs' = txs
    <3>1. pc'[c] = "failed" /\ txs'[c] = << >>
      BY <2>3 DEF TypeOK
    <3> QED BY <1>5, <3>1 DEF CallInv, Started, Awaiting
  <2> QED BY <1>3, <2>1, <2>2, <2>3
<1>7. \A d \in Calls \ {c} :
        /\ pc'[d] = pc[d] /\ at'[d] = at[d] /\ got'[d] = got[d]
        /\ approved'[d] = approved[d] /\ txs'[d] = txs[d]
  BY <1>2, <1>3 DEF TypeOK
<1> QED BY <1>4, <1>6, <1>7

-----------------------------------------------------------------------------
(* Each step keeps the invariant.                                          *)

LEMMA InitInv == Init => IInv
<1> SUFFICES ASSUME Init PROVE IInv
  OBVIOUS
<1>1. TypeOK
  <2>1. Requests # {} /\ AllowanceLevels \subseteq 0..MaxUint
    BY RequestAssumption, BuilderAssumption
  <2>2. allowance \in [Pairs -> 0..MaxUint]
    BY <2>1 DEF Init
  <2> QED BY <2>2, BuilderAssumption DEF Init, TypeOK, Lists, Awaiting
<1>2. CacheInv
  BY DEF Init, CacheInv
<1>3. \A c \in Calls : CallInv(c)
  BY DEF Init, CallInv, Started, Awaiting
<1> QED BY <1>1, <1>2, <1>3 DEF IInv

\* What holds of a call and of the cache it works with.
Own(c) == TypeOK /\ CacheInv /\ CallInv(c)

\* Only call c moves on, and the cache is at most filled.
Alone(c) ==
  /\ \A t \in Tokens : \/ tokenDecimals'[t] = tokenDecimals[t]
                       \/ tokenDecimals[t] = 0
  /\ \A d \in Calls \ {c} :
       /\ req'[d] = req[d] /\ pc'[d] = pc[d] /\ at'[d] = at[d]
       /\ got'[d] = got[d] /\ approved'[d] = approved[d]
       /\ txs'[d] = txs[d] /\ moved'[d] = moved[d]
  /\ UNCHANGED chainVars

LEMMA OneMoved ==
  ASSUME NEW c \in Calls, TypeOK', CacheInv', CallInv(c)',
         \A t \in Tokens : \/ tokenDecimals'[t] = tokenDecimals[t]
                           \/ tokenDecimals[t] = 0,
         \A d \in Calls \ {c} :
           /\ req'[d] = req[d] /\ pc'[d] = pc[d] /\ at'[d] = at[d]
           /\ got'[d] = got[d] /\ approved'[d] = approved[d]
           /\ txs'[d] = txs[d] /\ moved'[d] = moved[d],
         UNCHANGED chainVars
  PROVE  Own(c)' /\ Alone(c)
BY DEF Own, Alone

\* The other calls keep what holds of them.
LEMMA OthersKeep ==
  ASSUME NEW c \in Calls, Own(c)', Alone(c), NEW d \in Calls \ {c}, Own(d)
  PROVE  CallInv(d)'
<1>1. allowance' = allowance /\ transferable' = transferable
  BY DEF Alone, chainVars
<1> QED BY <1>1, BystanderKeeps DEF Own, Alone

LEMMA BeginKeeps ==
  ASSUME NEW c \in Calls, Own(c), Begin(c)
  PROVE  Own(c)' /\ Alone(c)
<1>0. /\ TypeOK /\ CacheInv /\ CallInv(c) /\ pc[c] = "idle"
      /\ req[c] \in Requests /\ txs[c] = << >> /\ at[c] = 1
      /\ tokenDecimals' = tokenDecimals /\ CacheInv' /\ req' = req
      /\ UNCHANGED <<chainVars, moved>>
  BY DEF Own, Begin, TypeOK, CallInv, CacheInv
<1>1. CASE Entry(req[c]) = "go" /\ Proceed(c, 1, tokenDecimals, TRUE)
  <2>1. req[c] \in Accepted
    BY <1>0, <1>1 DEF Accepted
  <2>2. /\ DecimalsKnown(req[c], 1, tokenDecimals')
        /\ VerdictHolds(req[c], 1, TRUE, allowance, moved[c])
        /\ SnxHolds(req[c], 1, transferable, moved[c])
    BY DEF DecimalsKnown, VerdictHolds, SnxHolds
  <2>3. 1 <= Len(Reads(req[c])) + 1
    BY <2>1, AcceptedReads
  <2>4. tokenDecimals' \in [Tokens -> Nat]
    BY <1>0 DEF TypeOK
  <2>5. /\ TypeOK' /\ CallInv(c)'
        /\ \A d \in Calls \ {c} :
              /\ pc'[d] = pc[d] /\ at'[d] = at[d] /\ got'[d] = got[d]
              /\ approved'[d] = approved[d] /\ txs'[d] = txs[d]
    <3>1. Proceed(c, 1, tokenDecimals', TRUE)
      BY <1>0, <1>1
    <3>2. 1 \in 1..5 /\ TRUE \in BOOLEAN
      OBVIOUS
    <3> QED
      BY <1>0, <2>1, <2>2, <2>3, <2>4, <3>1, <3>2, ProceedKeeps
  <2> QED BY <1>0, <2>5, OneMoved
<1>2. CASE /\ Entry(req[c]) \in {"throw", "empty"}
           /\ pc' = [pc EXCEPT ![c] = IF Entry(req[c]) = "throw"
                                      THEN "failed" ELSE "done"]
           /\ UNCHANGED <<at, got, approved, txs>>
  <2>1. req[c] \notin Accepted
    BY <1>2 DEF Accepted
  <2>2. TypeOK'
    BY <1>0, <1>2 DEF TypeOK, chainVars
  <2>3. pc'[c] \in {"failed", "done"} /\ \A d \in Calls \ {c} : pc'[d] = pc[d]
    BY <1>0, <1>2 DEF TypeOK
  <2>4. CallInv(c)'
    BY <1>0, <1>2, <2>1, <2>3 DEF CallInv, Started, Awaiting
  <2> QED BY <1>0, <1>2, <2>2, <2>3, <2>4, OneMoved
<1> QED BY <1>0, <1>1, <1>2 DEF Begin

LEMMA AnswerKeeps ==
  ASSUME NEW c \in Calls, Own(c), Answer(c)
  PROVE  Own(c)' /\ Alone(c)
<1> DEFINE read == CurrentRead(c)
           k == at[c]
<1>0. /\ TypeOK /\ CacheInv /\ CallInv(c) /\ pc[c] = "asked"
      /\ req[c] \in Accepted /\ k <= Len(Reads(req[c])) /\ Started(c)
      /\ UNCHANGED <<tokenDecimals, req, at, approved, txs, chainVars>>
      /\ read.kind = "decimals" => read.token \in Tokens
  BY DEF Own, Answer, CallInv, Awaiting, Started
<1>1. k \in 1..4
  BY <1>0, AwaitingAt DEF Awaiting
<1>2. /\ got' = [got EXCEPT ![c] = ValueOf(read)]
      /\ pc' = [pc EXCEPT ![c] = "answered"]
      /\ moved' = [moved EXCEPT ![c] = moved'[c]]
      /\ moved'[c] = CASE read.kind \in AllowanceKinds -> moved[c] \ {"allowance"}
                       [] read.kind = "transferable" -> moved[c] \ {"transferable"}
                       [] OTHER -> moved[c]
  BY <1>0 DEF Answer, TypeOK
<1>3. IsAllowance(PlanOf[req[c]], k) <=> read.kind \in AllowanceKinds
  BY <1>0, <1>1, AcceptedReads DEF IsAllowance, CurrentRead, Reads
<1>4. IsTransferable(PlanOf[req[c]], k) <=> read.kind = "transferable"
  BY <1>0, <1>1, AcceptedReads DEF IsTransferable, CurrentRead, Reads
<1>5. read.kind \in AllowanceKinds =>
        <<read.token, read.spender>> = PairOf(req[c]) /\ PairOf(req[c]) \in Pairs
  BY <1>0, <1>1, <1>3, AcceptedReads DEF OneAllowance, PairOf, CurrentRead, Reads
<1>6. /\ ValueOf(read) \in Nat
      /\ read.kind = "decimals" => ValueOf(read) = Scale[read.token]
      /\ read.kind \in AllowanceKinds => ValueOf(read) = allowance[PairOf(req[c])]
      /\ read.kind = "transferable" => ValueOf(read) = transferable
  <2>1. CASE read.kind = "decimals"
    BY <1>0, <2>1, RequestAssumption DEF ValueOf, Positive
  <2>2. CASE read.kind \in AllowanceKinds
    <3>1. ValueOf(read) = allowance[PairOf(req[c])]
      BY <1>5, <2>2 DEF ValueOf
    <3>2. allowance[PairOf(req[c])] \in 0..MaxUint
      BY <1>0, <1>5, <2>2 DEF TypeOK
    <3> QED BY <2>2, <3>1, <3>2, RequestAssumption DEF Positive
  <2>3. CASE read.kind = "transferable"
    BY <1>0, <2>3, BuilderAssumption DEF ValueOf, TypeOK
  <2>4. CASE read.kind \notin {"decimals", "transferable"} \cup AllowanceKinds
    BY <2>4 DEF ValueOf
  <2> QED BY <2>1, <2>2, <2>3, <2>4
<1>7. /\ moved'[c] \subseteq moved[c]
      /\ "allowance" \in moved[c] /\ "allowance" \notin moved'[c]
           => IsAllowance(PlanOf[req[c]], k)
      /\ "transferable" \in moved[c] /\ "transferable" \notin moved'[c]
           => IsTransferable(PlanOf[req[c]], k)
  BY <1>2, <1>3, <1>4
<1>8. TypeOK'
  BY <1>0, <1>2, <1>6, <1>7 DEF TypeOK, chainVars, Awaiting
<1>9. pc'[c] = "answered" /\ got'[c] = ValueOf(read) /\ CurrentRead(c)' = read
  BY <1>0, <1>2 DEF TypeOK, CurrentRead, Reads, PlanOf
<1>10. AnswerHolds(req[c], k, ValueOf(read), allowance, transferable, moved'[c])
  BY <1>3, <1>4, <1>6 DEF AnswerHolds, CurrentRead
<1>11. /\ DecimalsKnown(req[c], k, tokenDecimals)
       /\ VerdictHolds(req[c], k, approved[c], allowance, moved'[c])
       /\ SnxHolds(req[c], k, transferable, moved'[c])
  <2>1. /\ DecimalsKnown(req[c], k, tokenDecimals)
        /\ VerdictHolds(req[c], k, approved[c], allowance, moved[c])
        /\ SnxHolds(req[c], k, transferable, moved[c])
    BY <1>0 DEF CallInv
  <2>2. VerdictHolds(req[c], k, approved[c], allowance, moved'[c])
    <3>1. IsAllowance(PlanOf[req[c]], k) =>
            \A i \in 1..4 : i < k => ~IsAllowance(PlanOf[req[c]], i)
      BY <1>0, <1>1, AcceptedReads DEF OneAllowance
    <3> QED BY <1>7, <2>1, <3>1 DEF VerdictHolds
  <2>3. SnxHolds(req[c], k, transferable, moved'[c])
    <3>1. IsTransferable(PlanOf[req[c]], k) =>
            \A i \in 1..4 : i < k => ~IsTransferable(PlanOf[req[c]], i)
      BY <1>0, <1>1, AcceptedReads
    <3> QED BY <1>7, <2>1, <3>1 DEF SnxHolds
  <2> QED BY <2>1, <2>2, <2>3
<1>12. CallInv(c)'
  BY <1>0, <1>9, <1>10, <1>11 DEF CallInv, Started, Awaiting, chainVars, Reads
<1>13. \A d \in Calls \ {c} :
         pc'[d] = pc[d] /\ got'[d] = got[d] /\ moved'[d] = moved[d]
  BY <1>0, <1>2 DEF TypeOK
<1>14. CacheInv'
  BY <1>0 DEF CacheInv
<1> QED BY <1>0, <1>8, <1>12, <1>13, <1>14, OneMoved

LEMMA RejectKeeps ==
  ASSUME NEW c \in Calls, Own(c), Reject(c)
  PROVE  Own(c)' /\ Alone(c)
<1>0. /\ TypeOK /\ CacheInv /\ CallInv(c) /\ pc[c] = "asked"
      /\ pc' = [pc EXCEPT ![c] = "failed"]
      /\ UNCHANGED <<tokenDecimals, req, at, got, approved, txs, chainVars, moved>>
  BY DEF Own, Reject
<1>1. TypeOK' /\ CacheInv'
  BY <1>0 DEF TypeOK, CacheInv, chainVars, Awaiting
<1>2. pc'[c] = "failed" /\ \A d \in Calls \ {c} : pc'[d] = pc[d]
  BY <1>0 DEF TypeOK
<1>3. CallInv(c)'
  BY <1>0, <1>2 DEF CallInv, Started, Awaiting
<1> QED BY <1>0, <1>1, <1>2, <1>3, OneMoved

(* The continuation after the read at[c], whatever the read was.           *)
LEMMA ResumeKeeps ==
  ASSUME NEW c \in Calls, Own(c), pc[c] \in Awaiting,
         TypeOK, tokenDecimals' \in [Tokens -> Nat], CacheInv',
         \A t \in Tokens : \/ tokenDecimals'[t] = tokenDecimals[t]
                           \/ tokenDecimals[t] = 0,
         UNCHANGED <<req, chainVars, moved>>,
         NEW ok \in BOOLEAN,
         Proceed(c, at[c] + 1, tokenDecimals', ok),
         CurrentRead(c).kind = "decimals" /\ CurrentRead(c).token # ETH =>
           tokenDecimals'[CurrentRead(c).token] = Scale[CurrentRead(c).token],
         IF CurrentRead(c).kind \in AllowanceKinds
         THEN "allowance" \notin moved[c] =>
                ok = Suffices(PlanOf[req[c]], allowance[PairOf(req[c])])
         ELSE ok = approved[c],
         CurrentRead(c).kind = "transferable" /\ "transferable" \notin moved[c] =>
           PlanOf[req[c]].amount <= transferable
  PROVE  Own(c)' /\ Alone(c)
<1> DEFINE q == req[c]
           k == at[c]
<1>0. /\ CallInv(c) /\ CacheInv /\ Started(c) /\ txs[c] = << >>
      /\ q \in Accepted /\ k \in 1..4 /\ k <= Len(Reads(q))
  BY AwaitingAt DEF Own, CallInv, Started, Awaiting
<1>1. /\ DecimalsKnown(q, k, tokenDecimals)
      /\ VerdictHolds(q, k, approved[c], allowance, moved[c])
      /\ SnxHolds(q, k, transferable, moved[c])
  BY <1>0 DEF CallInv
<1>2. \A i \in 1..4 : i < k + 1 <=> i < k \/ i = k
  BY <1>0
<1>3. IsAllowance(PlanOf[q], k) <=> CurrentRead(c).kind \in AllowanceKinds
  BY <1>0, AcceptedReads DEF IsAllowance, CurrentRead, Reads
<1>4. IsTransferable(PlanOf[q], k) <=> CurrentRead(c).kind = "transferable"
  BY <1>0, AcceptedReads DEF IsTransferable, CurrentRead, Reads
<1>5. DecimalsKnown(q, k + 1, tokenDecimals')
  <2>1. \A t \in Tokens : tokenDecimals[t] = Scale[t] => tokenDecimals'[t] = Scale[t]
    BY RequestAssumption DEF Positive
  <2>2. DecimalsKnown(q, k, tokenDecimals')
    BY <1>0, <1>1, <2>1, DecimalsStayKnown
  <2> QED BY <1>2, <2>2 DEF DecimalsKnown, CurrentRead
<1>6. VerdictHolds(q, k + 1, ok, allowance, moved[c])
  <2>1. CASE IsAllowance(PlanOf[q], k)
    <3>1. \A i \in 1..4 : IsAllowance(PlanOf[q], i) => i = k
      BY <1>0, <2>1, AcceptedReads DEF OneAllowance
    <3> QED BY <1>0, <1>2, <1>3, <2>1, <3>1 DEF VerdictHolds
  <2>2. CASE ~IsAllowance(PlanOf[q], k)
    BY <1>1, <1>2, <1>3, <2>2 DEF VerdictHolds
  <2> QED BY <2>1, <2>2
<1>7. SnxHolds(q, k + 1, transferable, moved[c])
  BY <1>1, <1>2, <1>4 DEF SnxHolds
<1>8. k + 1 \in 1..5 /\ k + 1 <= Len(Reads(q)) + 1
  <2> DEFINE n == Len(Reads(q))
  <2>1. n \in 0..4 /\ k <= n
    BY <1>0, AcceptedReads
  <2> HIDE DEF n
  <2>2. k + 1 \in 1..5 /\ k + 1 <= n + 1
    BY <1>0, <2>1
  <2> QED BY <2>2 DEF n
<1>9. /\ TypeOK' /\ CallInv(c)'
      /\ \A d \in Calls \ {c} :
           /\ pc'[d] = pc[d] /\ at'[d] = at[d] /\ got'[d] = got[d]
           /\ approved'[d] = approved[d] /\ txs'[d] = txs[d]
  BY <1>0, <1>5, <1>6, <1>7, <1>8, ProceedKeeps
<1> QED BY <1>9, OneMoved

LEMMA ResumeCachedKeeps ==
  ASSUME NEW c \in Calls, Own(c), ResumeCached(c)
  PROVE  Own(c)' /\ Alone(c)
<1>0. /\ TypeOK /\ CacheInv /\ CallInv(c) /\ pc[c] \in Awaiting
      /\ IsCached(CurrentRead(c), tokenDecimals)
      /\ tokenDecimals' = tokenDecimals
      /\ Proceed(c, at[c] + 1, tokenDecimals', approved[c])
      /\ UNCHANGED <<req, chainVars, moved>>
  BY DEF Own, ResumeCached, CallInv, Awaiting
<1>1. CurrentRead(c).token \in Tokens \cup {ETH}
  BY <1>0, AwaitingAt, AcceptedReads DEF CurrentRead, IsCached
<1>2. CurrentRead(c).token # ETH =>
        tokenDecimals'[CurrentRead(c).token] = Scale[CurrentRead(c).token]
  BY <1>0, <1>1 DEF IsCached, CacheInv
<1>3. CurrentRead(c).kind = "decimals" /\ approved[c] \in BOOLEAN
        /\ tokenDecimals' \in [Tokens -> Nat] /\ CacheInv'
  BY <1>0 DEF IsCached, TypeOK, CacheInv
<1> QED BY <1>0, <1>2, <1>3, ResumeKeeps

LEMMA ResumeDecimalsKeeps ==
  ASSUME NEW c \in Calls, Own(c), ResumeDecimals(c)
  PROVE  Own(c)' /\ Alone(c)
<1> DEFINE t == CurrentRead(c).token
<1>0. /\ TypeOK /\ CacheInv /\ CallInv(c) /\ pc[c] \in Awaiting
      /\ CurrentRead(c).kind = "decimals" /\ t \in Tokens
      /\ got[c] = Scale[t]
      /\ tokenDecimals' = [tokenDecimals EXCEPT ![t] = got[c]]
      /\ Proceed(c, at[c] + 1, tokenDecimals', approved[c])
      /\ UNCHANGED <<req, chainVars, moved>>
  BY DEF Own, ResumeDecimals, CallInv, Awaiting, AnswerHolds, CurrentRead
<1>1. tokenDecimals' \in [Tokens -> Nat] /\ CacheInv' /\ approved[c] \in BOOLEAN
  BY <1>0, RequestAssumption DEF TypeOK, CacheInv, Positive
<1>2. /\ tokenDecimals'[t] = Scale[t]
      /\ \A u \in Tokens : tokenDecimals'[u] = tokenDecimals[u] \/ tokenDecimals[u] = 0
  BY <1>0 DEF TypeOK, CacheInv
<1> QED BY <1>0, <1>1, <1>2, ResumeKeeps

LEMMA ResumeTransferableKeeps ==
  ASSUME NEW c \in Calls, Own(c), ResumeTransferable(c)
  PROVE  Own(c)' /\ Alone(c)
<1>0. /\ TypeOK /\ CacheInv /\ CallInv(c) /\ pc[c] = "answered"
      /\ pc[c] \in Awaiting
      /\ CurrentRead(c).kind = "transferable"
      /\ tokenDecimals' = tokenDecimals /\ CacheInv'
      /\ tokenDecimals' \in [Tokens -> Nat]
      /\ approved[c] \in BOOLEAN
      /\ UNCHANGED <<req, chainVars, moved>>
  BY DEF Own, ResumeTransferable, Awaiting, TypeOK, CacheInv
<1>1. /\ req[c] \in Accepted /\ at[c] \in 1..4 /\ at[c] <= Len(Reads(req[c]))
      /\ DecimalsKnown(req[c], at[c], tokenDecimals)
      /\ AnswerHolds(req[c], at[c], got[c], allowance, transferable, moved[c])
  BY <1>0, AwaitingAt DEF CallInv, Started
<1>2. IsTransferable(PlanOf[req[c]], at[c])
  BY <1>0, <1>1, AcceptedReads DEF IsTransferable, CurrentRead, Reads
<1>3. Plan(req[c], tokenDecimals).amount = PlanOf[req[c]].amount
  BY <1>0, <1>1, <1>2, PlanNow
<1>4. "transferable" \notin moved[c] => got[c] = transferable
  BY <1>1, <1>2 DEF AnswerHolds
<1>5. CASE /\ Plan(req[c], tokenDecimals).amount <= got[c]
           /\ Proceed(c, at[c] + 1, tokenDecimals, approved[c])
  <2>1. "transferable" \notin moved[c] => PlanOf[req[c]].amount <= transferable
    BY <1>3, <1>4, <1>5
  <2>2. Proceed(c, at[c] + 1, tokenDecimals', approved[c])
    BY <1>0, <1>5
  <2> QED BY <1>0, <2>1, <2>2, ResumeKeeps
<1>6. CASE /\ pc' = [pc EXCEPT ![c] = "failed"]
           /\ got' = [got EXCEPT ![c] = 0]
           /\ UNCHANGED <<at, approved, txs>>
  <2>1. TypeOK'
    BY <1>0, <1>6 DEF TypeOK, chainVars, Awaiting
  <2>2. /\ pc'[c] = "failed"
        /\ \A d \in Calls \ {c} : pc'[d] = pc[d] /\ got'[d] = got[d]
    BY <1>0, <1>6 DEF TypeOK
  <2>3. CallInv(c)'
    BY <1>0, <1>1, <1>6, <2>2 DEF CallInv, Started, Awaiting
  <2> QED BY <1>0, <1>6, <2>1, <2>2, <2>3, OneMoved
<1> QED BY <1>5, <1>6 DEF ResumeTransferable

\* The verdict is the one the plan with all decimals known would give.
LEMMA VerdictNow ==
  ASSUME NEW c \in Calls, Own(c), pc[c] = "answered",
         CurrentRead(c).kind \in AllowanceKinds
  PROVE  /\ req[c] \in Accepted /\ IsAllowance(PlanOf[req[c]], at[c])
         /\ at[c] \in 1..4
         /\ Suffices(Plan(req[c], tokenDecimals), got[c]) \in BOOLEAN
         /\ Suffices(Plan(req[c], tokenDecimals), got[c])
              = Suffices(PlanOf[req[c]], got[c])
         /\ "allowance" \notin moved[c] => got[c] = allowance[PairOf(req[c])]
<1>1. /\ TypeOK /\ CallInv(c) /\ pc[c] \in Awaiting
      /\ tokenDecimals \in [Tokens -> Nat]
  BY DEF Own, TypeOK, Awaiting
<1>2. /\ req[c] \in Accepted /\ at[c] \in 1..4 /\ at[c] <= Len(Reads(req[c]))
      /\ DecimalsKnown(req[c], at[c], tokenDecimals)
      /\ AnswerHolds(req[c], at[c], got[c], allowance, transferable, moved[c])
  BY <1>1, AwaitingAt DEF CallInv, Started
<1>3. IsAllowance(PlanOf[req[c]], at[c])
  BY <1>2, AcceptedReads DEF IsAllowance, CurrentRead, Reads
<1>4. Suffices(Plan(req[c], tokenDecimals), got[c]) \in BOOLEAN
  <2>1. /\ Plan(req[c], tokenDecimals).need \in Int
        /\ Plan(req[c], tokenDecimals).strict \in BOOLEAN
    BY <1>1, <1>2, PlanNow
  <2>2. got[c] \in Int
    BY <1>1 DEF TypeOK
  <2> DEFINE need == Plan(req[c], tokenDecimals).need
             strict == Plan(req[c], tokenDecimals).strict
  <2>3. Suffices(Plan(req[c], tokenDecimals), got[c])
          = IF strict THEN got[c] > need ELSE got[c] >= need
    BY DEF Suffices
  <2> HIDE DEF need, strict
  <2>4. (got[c] > need) \in BOOLEAN /\ (got[c] >= need) \in BOOLEAN
    BY <2>1, <2>2 DEF need
  <2> QED BY <2>1, <2>3, <2>4 DEF strict
<1> QED BY <1>1, <1>2, <1>3, <1>4, PlanNow DEF AnswerHolds

LEMMA ResumeAllowanceKeeps ==
  ASSUME NEW c \in Calls, Own(c), ResumeAllowance(c)
  PROVE  Own(c)' /\ Alone(c)
<1> DEFINE ok == Suffices(Plan(req[c], tokenDecimals), got[c])
<1>0. /\ TypeOK /\ CacheInv /\ pc[c] = "answered" /\ pc[c] \in Awaiting
      /\ CurrentRead(c).kind \in AllowanceKinds
      /\ tokenDecimals' = tokenDecimals /\ CacheInv'
      /\ tokenDecimals' \in [Tokens -> Nat]
      /\ Proceed(c, at[c] + 1, tokenDecimals, ok)
      /\ UNCHANGED <<req, chainVars, moved>>
  BY DEF Own, ResumeAllowance, Awaiting, TypeOK, CacheInv
<1>1. "allowance" \notin moved[c] =>
        ok = Suffices(PlanOf[req[c]], allowance[PairOf(req[c])])
  BY <1>0, VerdictNow
<1>2. ok \in BOOLEAN
  BY <1>0, VerdictNow
<1> HIDE DEF ok
<1>3. Proceed(c, at[c] + 1, tokenDecimals', ok)
  BY <1>0
<1> QED BY <1>0, <1>1, <1>2, <1>3, ResumeKeeps

LEMMA ResumeLookupKeeps ==
  ASSUME NEW c \in Calls, Own(c), ResumeLookup(c)
  PROVE  Own(c)' /\ Alone(c)
<1>0. /\ TypeOK /\ CacheInv /\ pc[c] \in Awaiting
      /\ CurrentRead(c).kind \in {"tokenData", "tokenLookup"}
      /\ tokenDecimals' = tokenDecimals /\ CacheInv'
      /\ tokenDecimals' \in [Tokens -> Nat]
      /\ approved[c] \in BOOLEAN
      /\ Proceed(c, at[c] + 1, tokenDecimals, approved[c])
      /\ UNCHANGED <<req, chainVars, moved>>
  BY DEF Own, ResumeLookup, Awaiting, TypeOK, CacheInv
<1>1. Proceed(c, at[c] + 1, tokenDecimals', approved[c])
  BY <1>0
<1> QED BY <1>0, <1>1, ResumeKeeps

LEMMA NextCallKeeps ==
  ASSUME NEW c \in Calls, Own(c), NextCall(c)
  PROVE  Own(c)' /\ Alone(c)
<1>0. /\ TypeOK /\ CacheInv /\ tokenDecimals' = tokenDecimals
      /\ UNCHANGED chainVars
  BY DEF Own, NextCall
<1>1. TypeOK' /\ CacheInv'
  BY <1>0 DEF NextCall, TypeOK, CacheInv, chainVars, Lists
<1>2. /\ pc'[c] = "idle" /\ at'[c] = 1 /\ txs'[c] = << >>
      /\ \A d \in Calls \ {c} :
           /\ req'[d] = req[d] /\ pc'[d] = pc[d] /\ at'[d] = at[d]
           /\ got'[d] = got[d] /\ approved'[d] = approved[d]
           /\ txs'[d] = txs[d] /\ moved'[d] = moved[d]
  BY <1>0 DEF NextCall, TypeOK
<1>3. CallInv(c)'
  BY <1>2 DEF CallInv, Started, Awaiting
<1> QED BY <1>0, <1>1, <1>2, <1>3, OneMoved

LEMMA OutsideKeeps ==
  ASSUME IInv, Outside
  PROVE  IInv'
<1>0. /\ TypeOK /\ CacheInv /\ \A c \in Calls : CallInv(c)
      /\ UNCHANGED <<tokenDecimals, callVars>>
  BY DEF IInv, Outside, AllowanceMoves, TransferableMoves
<1>1. ASSUME NEW p \in Pairs, NEW a \in AllowanceLevels, AllowanceMoves(p, a)
      PROVE  IInv'
  <2>1. TypeOK' /\ CacheInv'
    BY <1>0, <1>1, BuilderAssumption
       DEF AllowanceMoves, TypeOK, CacheInv, callVars
  <2>2. ASSUME NEW d \in Calls PROVE CallInv(d)'
    <3>1. /\ moved[d] \subseteq moved'[d] /\ transferable' = transferable
          /\ "allowance" \notin moved'[d] => ~Touches(p, req[d])
      BY <1>1 DEF AllowanceMoves
    <3>2. ~Touches(p, req[d]) /\ req[d] \in Checking =>
            allowance'[PairOf(req[d])] = allowance[PairOf(req[d])]
      <4> SUFFICES ASSUME ~Touches(p, req[d]), req[d] \in Checking
                   PROVE  allowance'[PairOf(req[d])] = allowance[PairOf(req[d])]
        OBVIOUS
      <4>1. PairOf(req[d]) \in Pairs /\ PairOf(req[d]) # p
        BY DEF Pairs, Touches
      <4> QED BY <1>0, <1>1, <4>1 DEF AllowanceMoves, TypeOK
    <3> QED BY <1>0, <2>1, <3>1, <3>2, BystanderKeeps DEF callVars
  <2> QED BY <2>1, <2>2 DEF IInv
<1>2. ASSUME NEW a \in TransferableLevels, TransferableMoves(a)
      PROVE  IInv'
  <2>1. TypeOK' /\ CacheInv'
    BY <1>0, <1>2, BuilderAssumption
       DEF TransferableMoves, TypeOK, CacheInv, callVars
  <2>2. ASSUME NEW d \in Calls PROVE CallInv(d)'
    <3>1. /\ moved[d] \subseteq moved'[d] /\ allowance' = allowance
          /\ "transferable" \in moved'[d]
      BY <1>2 DEF TransferableMoves
    <3> QED BY <1>0, <2>1, <3>1, BystanderKeeps DEF callVars
  <2> QED BY <2>1, <2>2 DEF IInv
<1> QED BY <1>1, <1>2 DEF Outside

\* A step of a call keeps what holds of the call, and leaves the others alone.
LEMMA CallStepKeeps ==
  ASSUME NEW c \in Calls, Own(c), CallStep(c)
  PROVE  Own(c)' /\ Alone(c)
BY BeginKeeps, AnswerKeeps, RejectKeeps, ResumeCachedKeeps, ResumeDecimalsKeeps,
   ResumeTransferableKeeps, ResumeAllowanceKeeps, ResumeLookupKeeps, NextCallKeeps
   DEF CallStep, Resume

LEMMA NextInv == IInv /\ [Next]_vars => IInv'
<1> SUFFICES ASSUME IInv, [Next]_vars PROVE IInv'
  OBVIOUS
<1>1. ASSUME NEW c \in Calls, CallStep(c) PROVE IInv'
  <2>1. Own(c)
    BY DEF IInv, Own
  <2>2. Own(c)' /\ Alone(c)
    BY <1>1, <2>1, CallStepKeeps
  <2>3. ASSUME NEW d \in Calls \ {c} PROVE CallInv(d)'
    BY <2>2, OthersKeep DEF IInv, Own
  <2> QED BY <2>2, <2>3 DEF IInv, Own
<1>2. CASE UNCHANGED vars
  BY <1>2 DEF vars, callVars, chainVars, IInv, TypeOK, CacheInv, CallInv,
              Started, CurrentRead, Reads, PlanOf
<1> QED BY <1>1, <1>2, OutsideKeeps DEF Next

LEMMA Invariance == Spec => []IInv
<1> QED BY InitInv, NextInv, PTL DEF Spec

-----------------------------------------------------------------------------
(* The properties.                                                         *)

(***************************************************************************)
(* Every variable keeps its type: the cache holds numbers, an awaited read *)
(* is one of the method's, a returned list has one of three shapes.        *)
(***************************************************************************)
THEOREM TypeCorrect == Spec => []TypeOK
<1>1. IInv => TypeOK
  BY DEF IInv
<1> QED BY <1>1, Invariance, PTL

\* A call that returned a list has made all its reads.
LEMMA DoneHolds ==
  ASSUME NEW c \in Calls, Own(c), pc[c] = "done", req[c] \in Accepted
  PROVE  /\ txs[c] = Listed(approved[c])
         /\ \A i \in 1..4 : IsAllowance(PlanOf[req[c]], i) => i < at[c]
         /\ \A i \in 1..4 : IsTransferable(PlanOf[req[c]], i) => i < at[c]
         /\ VerdictHolds(req[c], at[c], approved[c], allowance, moved[c])
         /\ SnxHolds(req[c], at[c], transferable, moved[c])
<1>1. /\ CallInv(c) /\ Started(c)
  BY DEF Own, Started
<1>2. /\ at[c] = Len(Reads(req[c])) + 1 /\ txs[c] = Listed(approved[c])
      /\ VerdictHolds(req[c], at[c], approved[c], allowance, moved[c])
      /\ SnxHolds(req[c], at[c], transferable, moved[c])
  BY <1>1 DEF CallInv
<1>3. Len(Reads(req[c])) \in 0..4
  BY AcceptedReads
<1>4. \A i \in 1..4 : i <= Len(Reads(req[c])) => i < at[c]
  BY <1>2, <1>3
<1> QED BY <1>2, <1>4 DEF IsAllowance, IsTransferable, Reads

LEMMA VerdictIsCurrent ==
  ASSUME NEW c \in Calls, Own(c), CurrentVerdict(c)
  PROVE  /\ txs[c] = Listed(approved[c]) /\ req[c] \in Checking
         /\ approved[c] = Suffices(PlanOf[req[c]], allowance[PairOf(req[c])])
<1>1. /\ req[c] \in Checking /\ req[c] \in Accepted /\ pc[c] = "done"
      /\ "allowance" \notin moved[c] /\ PlanOf[req[c]].token # None
  BY DEF CurrentVerdict, Checking
<1>2. PICK i \in 1..4 : IsAllowance(PlanOf[req[c]], i)
  BY <1>1, AcceptedReads DEF OneAllowance
<1> QED BY <1>1, <1>2, DoneHolds DEF VerdictHolds

(***************************************************************************)
(* An approval transaction is returned exactly when the allowance falls    *)
(* short of what isApproved or isDelegationApproved asks for.              *)
(***************************************************************************)
THEOREM ApprovalsAreDue == Spec => []ApprovalIffShort
<1>1. ASSUME IInv PROVE ApprovalIffShort
  <2> SUFFICES ASSUME NEW c \in Calls, CurrentVerdict(c)
               PROVE  txs[c] = <<"approval", "action">>
                        <=> ~Suffices(PlanOf[req[c]], allowance[PairOf(req[c])])
    BY DEF ApprovalIffShort
  <2>1. txs[c] = <<"approval", "action">> <=> ~approved[c]
    <3>1. <<"action">> # <<"approval", "action">>
      OBVIOUS
    <3> QED BY <1>1, <3>1, VerdictIsCurrent DEF Listed, IInv, Own
  <2> QED BY <1>1, <2>1, VerdictIsCurrent DEF IInv, Own
<1> QED BY <1>1, Invariance, PTL

(* What isApproved compares the allowance with is what the action spends:  *)
(* the two are converted by different reads of different tokens.           *)
LEMMA NeedIsSpent ==
  ASSUME NEW q \in Checking, NamesItsAmount(q)
  PROVE  PlanOf[q].need = Spends(q)
<1> DEFINE p == Plan(q, Scale)
<1>0. /\ q \in Accepted /\ q \in Requests /\ q \in Request /\ Entry(q) = "go"
      /\ PlanOf[q] = p /\ p.token # None
  BY RequestAssumption DEF Checking, Accepted, PlanOf
<1>1. AmountsValid(q)
  BY <1>0 DEF Entry
<1>2. q.via # None => Scale[q.via] = ScaleIn(Scale, q.asset)
  BY <1>0, AaveTokenAssumption
<1>3. PositiveAmount(q) => q.amount # All
  BY <1>0 DEF PositiveAmount, All, Request
<1>4. CASE q.op = "deposit"
  BY <1>0, <1>1, <1>3, <1>4
     DEF AmountsValid, Plan, Deposit, DepositETH, ActionOnly, Unchecked, Checked, Spends
<1>5. CASE q.op = "withdraw"
  <2>1. q.asset = ETH /\ q.via # None
    BY <1>0, <1>5 DEF Plan, Withdraw, Unchecked, Entry, GoesToGateway
  <2> QED BY <1>0, <1>2, <1>5, <2>1
          DEF Plan, Withdraw, WithdrawETH, Checked, Spends, Needed, Converted,
              ScaleIn
<1>6. CASE q.op = "borrow"
  <2>1. q.asset = ETH /\ q.via # None
    BY <1>0, <1>6 DEF Plan, Borrow, Unchecked, Entry, GoesToGateway
  <2> QED BY <1>0, <1>1, <1>2, <1>3, <1>6, <2>1
          DEF AmountsValid, Plan, Borrow, BorrowETH, Checked, Spends, ScaleIn
<1>7. CASE q.op = "repay"
  BY <1>0, <1>7
     DEF Plan, Repay, RepayETH, ActionOnly, Unchecked, Checked, Spends, Needed, Converted
<1>8. CASE q.op = "liquidationCall"
  <2>1. ~q.whole
    BY <1>8 DEF NamesItsAmount
  <2> QED BY <1>0, <1>1, <1>3, <1>8, <2>1
          DEF AmountsValid, Plan, LiquidationCall, ActionOnly, Unchecked,
              Checked, Spends, ScaleIn
<1>9. CASE q.op = "swapCollateral"
  <2>1. ~(q.flash /\ q.whole) /\ q.via # None
    BY <1>0, <1>9, AaveTokenAssumption DEF NamesItsAmount
  <2> QED BY <1>0, <1>1, <1>2, <1>3, <1>9, <2>1
          DEF AmountsValid, Plan, SwapCollateral, Checked, Spends
<1>10. CASE q.op = "repayWithCollateral"
  <2>1. q.via # None
    BY <1>0, <1>10, AaveTokenAssumption
  <2> QED BY <1>0, <1>1, <1>2, <1>3, <1>10, <2>1
          DEF AmountsValid, Plan, RepayWithCollateral, Checked, Spends
<1>11. CASE q.op = "stake"
  BY <1>0, <1>1, <1>3, <1>11
     DEF AmountsValid, Plan, Stake, Checked, Spends
<1>12. CASE q.op = "migrateLendToAave"
  BY <1>0, <1>1, <1>3, <1>12
     DEF AmountsValid, Plan, MigrateLendToAave, Checked, Spends
<1>13. CASE q.op \in {"flashLiquidation", "stakeWithPermit", "redeem",
                      "claimRewards"}
  BY <1>0, <1>13 DEF Plan, FlashLiquidation, StakeWithPermit, Redeem,
                     ActionOnly, Unchecked
<1>14. CASE q.op \in {"swapBorrowRateMode", "setUsageAsCollateral", "cooldown",
                      "mint", "claimIncentives"}
  BY <1>0, <1>14 DEF Plan, ActionOnly, Unchecked
<1> QED BY <1>0, <1>4, <1>5, <1>6, <1>7, <1>8, <1>9, <1>10, <1>11, <1>12,
           <1>13, <1>14 DEF Request, Ops

LEMMA ListIsCovered ==
  ASSUME NEW c \in Calls, Own(c), CurrentVerdict(c), NamesItsAmount(req[c]),
         txs[c] = <<"action">>
  PROVE  allowance[PairOf(req[c])] >= Spends(req[c])
<1>1. /\ req[c] \in Checking
      /\ Suffices(PlanOf[req[c]], allowance[PairOf(req[c])])
  <2>1. <<"action">> # <<"approval", "action">>
    OBVIOUS
  <2> QED BY <2>1, VerdictIsCurrent DEF Listed
<1>2. PlanOf[req[c]].need = Spends(req[c])
  BY <1>1, NeedIsSpent
<1>3. PlanOf[req[c]].need \in Int /\ allowance[PairOf(req[c])] \in Int
  <2>1. req[c] \in Accepted /\ PairOf(req[c]) \in Pairs
    BY <1>1 DEF Checking, Pairs
  <2>2. Scale \in [Tokens -> Nat]
    BY RequestAssumption DEF Positive
  <2>3. PlanOf[req[c]].need \in Int
    BY <2>1, <2>2, PlanNow DEF PlanOf
  <2>4. allowance[PairOf(req[c])] \in 0..MaxUint
    BY <2>1 DEF Own, TypeOK
  <2> QED BY <2>3, <2>4, RequestAssumption DEF Positive
<1> QED BY <1>1, <1>2, <1>3 DEF Suffices

(***************************************************************************)
(* A list without an approval is covered by the allowance.                 *)
(***************************************************************************)
THEOREM ListsAreCovered == Spec => []CoveredOrApproved
<1>1. IInv => CoveredOrApproved
  BY ListIsCovered DEF CoveredOrApproved, IInv, Own
<1> QED BY <1>1, Invariance, PTL

(***************************************************************************)
(* Locked SNX is neither deposited nor repaid.                             *)
(***************************************************************************)
THEOREM LockedSnxStays == Spec => []LockedSnxRefused
<1>1. ASSUME IInv PROVE LockedSnxRefused
  <2> SUFFICES ASSUME NEW c \in Calls, pc[c] = "done", ChecksSnx(req[c]),
                      "transferable" \notin moved[c]
               PROVE  PlanOf[req[c]].amount <= transferable
    BY DEF LockedSnxRefused
  <2>1. req[c] \in Accepted
    BY DEF ChecksSnx
  <2>2. PICK k \in 1..Len(Reads(req[c])) : Reads(req[c])[k] = TransferableSnx
    BY DEF ChecksSnx
  <2>3. k \in 1..4
    <3> DEFINE n == Len(Reads(req[c]))
    <3>1. n \in 0..4
      BY <2>1, AcceptedReads
    <3> HIDE DEF n
    <3>2. \A j \in 1..n : j \in 1..4
      BY <3>1
    <3> QED BY <3>2 DEF n
  <2>4. IsTransferable(PlanOf[req[c]], k)
    BY <2>2 DEF IsTransferable, TransferableSnx, Read, Reads
  <2> QED BY <1>1, <2>1, <2>3, <2>4, DoneHolds DEF SnxHolds, IInv, Own
<1> QED BY <1>1, Invariance, PTL

=============================================================================
