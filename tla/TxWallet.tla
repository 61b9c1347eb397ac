------------------------------ MODULE TxWallet ------------------------------
(***************************************************************************)
(* An application that uses the lists the library returns: it asks gas()   *)
(* for quotes, calls tx() on each transaction in order, signs and sends    *)
(* it, may take mined approvals out of the list, and calls the method      *)
(* again when something failed.  tx() and gas() are the library's          *)
(* (BaseService); the application and the contracts are its environment.   *)
(***************************************************************************)
EXTENDS TxBuilder

CONSTANTS
  Outstanding,   \* what '-1' and liquidateAll turn out to move
  Quoting,       \* the calls for whose lists the application wants quotes
  MaxFaults      \* bound on the requests the provider rejects

\* An amount in call data is a uint256: a larger one cannot be encoded.
ASSUME WalletAssumption ==
  /\ Outstanding \in 0..SuperBig
  /\ \A q \in Checking : PlanOf[q].amount \in 0..MaxUint
  /\ Quoting \subseteq Calls
  /\ MaxFaults \in Nat

VARIABLES
  wallet,   \* per call: rest, estimating, signed, refused, reverted
  mined,    \* the transactions of its list that are mined
  quote,    \* the gas() request on its action
  forced,   \* gas(true)
  faults

walletVars == <<wallet, mined, quote, forced, faults>>
allVars == <<vars, walletVars>>

\* gas() resolves to null in both of the last two cases.
Quoted == {"recommended", "estimated", "nullByRevert", "nullByFault"}

WalletTypeOK ==
  /\ wallet \in [Calls -> {"rest", "estimating", "signed", "refused", "faulted",
                       "reverted"}]
  /\ mined \in [Calls -> SUBSET {"approval", "action"}]
  /\ quote \in [Calls -> {"none", "pricing", "estimating"} \cup Quoted]
  /\ forced \in [Calls -> BOOLEAN]
  /\ faults \in 0..MaxFaults

WalletInit ==
  /\ Init
  /\ wallet = [c \in Calls |-> "rest"]
  /\ mined = [c \in Calls |-> {}]
  /\ quote = [c \in Calls |-> "none"]
  /\ forced = [c \in Calls |-> FALSE]
  /\ faults = 0

-----------------------------------------------------------------------------
(* The contracts. *)

\* What the action draws from the allowance it depends on.
Draws(q) ==
  CASE q \notin Checking -> 0
    [] q \in Checking /\ (q.amount = All \/ ~NamesItsAmount(q)) -> Outstanding
    [] OTHER -> PlanOf[q].amount

\* Whether a transaction of c would go through now.
WouldSucceed(c, tx) ==
  (tx = "action" /\ req[c] \in Checking)
    => allowance[PairOf(req[c])] >= Draws(req[c])

\* A transaction of c sets an allowance: every other call's reading is old.
SetAllowance(c, p, a) ==
  /\ allowance' = [allowance EXCEPT ![p] = a]
  /\ moved' = [d \in Calls |-> IF d # c /\ Touches(p, req[d])
                               THEN moved[d] \cup {"allowance"} ELSE moved[d]]

-----------------------------------------------------------------------------
(* tx(): generateTxCallback. *)

\* The first transaction of the list that is not mined.
NextTx(c) == IF Head(txs[c]) \in mined[c] THEN "action" ELSE Head(txs[c])

CallTx(c) ==
  /\ pc[c] = "done" /\ txs[c] # << >>
  /\ wallet[c] = "rest" /\ "action" \notin mined[c]
  /\ wallet' = [wallet EXCEPT ![c] = "estimating"]
  /\ UNCHANGED <<vars, mined, quote, forced, faults>>

\* estimateGasByNetwork: the provider simulates the transaction, and tx()
\* rejects when it reverts.
EstimateTx(c) ==
  /\ wallet[c] = "estimating"
  /\ wallet' = [wallet EXCEPT ![c] = IF WouldSucceed(c, NextTx(c))
                                     THEN "signed" ELSE "refused"]
  /\ UNCHANGED <<vars, mined, quote, forced, faults>>

\* Mutant: the approval is for the amount needed.
ApprovalExact(c) == PlanOf[req[c]].need

\* approve: what the approval in the list of a call allows.
ApprovalAmount(c) == MaxUint

\* A signed transaction is included in a block.
MineApproval(c) ==
  /\ wallet[c] = "signed" /\ NextTx(c) = "approval"
  /\ SetAllowance(c, PairOf(req[c]), ApprovalAmount(c))
  /\ mined' = [mined EXCEPT ![c] = @ \cup {"approval"}]
  /\ wallet' = [wallet EXCEPT ![c] = "rest"]
  /\ UNCHANGED <<tokenDecimals, callVars, transferable, outside, quote, forced,
                 faults>>

MineAction(c) ==
  /\ wallet[c] = "signed" /\ NextTx(c) = "action"
  /\ \/ /\ WouldSucceed(c, "action")
        /\ IF req[c] \in Checking
           THEN SetAllowance(c, PairOf(req[c]),
                             allowance[PairOf(req[c])] - Draws(req[c]))
           ELSE UNCHANGED <<allowance, moved>>
        /\ mined' = [mined EXCEPT ![c] = @ \cup {"action"}]
        /\ wallet' = [wallet EXCEPT ![c] = "rest"]
     \/ /\ ~WouldSucceed(c, "action")
        /\ wallet' = [wallet EXCEPT ![c] = "reverted"]
        /\ UNCHANGED <<allowance, moved, mined>>
  /\ UNCHANGED <<tokenDecimals, callVars, transferable, outside, quote, forced,
                 faults>>

-----------------------------------------------------------------------------
(* gas(): generateTxPriceEstimation on the action, watching the list.  The *)
(* gas() of the approval watches an empty list and always estimates.       *)

CallGas(c) ==
  /\ c \in Quoting
  /\ pc[c] = "done" /\ txs[c] # << >>
  /\ quote[c] \in {"none"} \cup Quoted
  /\ quote' = [quote EXCEPT ![c] = "pricing"]
  /\ \E force \in BOOLEAN : forced' = [forced EXCEPT ![c] = force]
  /\ UNCHANGED <<vars, wallet, mined, faults>>

\* Mutant: gas() watches an empty list, as the one of the approval does.
NonePending(c) == FALSE

\* Mutant: a transaction of any type counts as a pending approval.
AnyPending(c) == txs[c] # << >>

HasPendingApprovals(c) == \E i \in 1..Len(txs[c]) : txs[c][i] = "approval"

\* The gas price has arrived; the list is looked at now, not when gas() was
\* called.
GasPrice(c) ==
  /\ quote[c] = "pricing"
  /\ quote' = [quote EXCEPT ![c] = IF HasPendingApprovals(c) /\ ~forced[c]
                                   THEN "recommended" ELSE "estimating"]
  /\ UNCHANGED <<vars, wallet, mined, forced, faults>>

\* Mutant: the rejection of tx() is not caught.
GasEstimateUncaught(c) ==
  /\ quote[c] = "estimating"
  /\ quote' = [quote EXCEPT ![c] = IF WouldSucceed(c, "action")
                                   THEN "estimated" ELSE "rejected"]
  /\ UNCHANGED <<vars, wallet, mined, forced, faults>>

GasEstimate(c) ==
  /\ quote[c] = "estimating"
  /\ quote' = [quote EXCEPT ![c] = IF WouldSucceed(c, "action")
                                   THEN "estimated" ELSE "nullByRevert"]
  /\ UNCHANGED <<vars, wallet, mined, forced, faults>>

-----------------------------------------------------------------------------
(* The provider's faults, and the application. *)

Fault(c) ==
  /\ faults < MaxFaults
  /\ faults' = faults + 1
  /\ \/ Reject(c) /\ UNCHANGED <<wallet, mined, quote, forced>>
     \/ /\ wallet[c] = "estimating"
        /\ wallet' = [wallet EXCEPT ![c] = "faulted"]
        /\ UNCHANGED <<vars, mined, quote, forced>>
     \/ /\ quote[c] \in {"pricing", "estimating"}
        /\ quote' = [quote EXCEPT ![c] = "nullByFault"]
        /\ UNCHANGED <<vars, wallet, mined, forced>>

\* A mined approval is taken out of the list, which is the one gas() sees.
ShiftList(c) ==
  /\ Len(txs[c]) = 2 /\ "approval" \in mined[c]
  /\ txs' = [txs EXCEPT ![c] = Tail(@)]
  /\ UNCHANGED <<tokenDecimals, req, pc, at, got, approved, chainVars, moved,
                 walletVars>>

\* The application starts over with the same request.
Rebuild(c) ==
  /\ pc[c] = "failed" \/ wallet[c] \in {"refused", "faulted", "reverted"}
  /\ pc' = [pc EXCEPT ![c] = "idle"]
  /\ at' = [at EXCEPT ![c] = 1]
  /\ got' = [got EXCEPT ![c] = 0]
  /\ approved' = [approved EXCEPT ![c] = TRUE]
  /\ txs' = [txs EXCEPT ![c] = << >>]
  /\ moved' = [moved EXCEPT ![c] = {}]
  /\ wallet' = [wallet EXCEPT ![c] = "rest"]
  /\ mined' = [mined EXCEPT ![c] = {}]
  /\ quote' = [quote EXCEPT ![c] = "none"]
  /\ forced' = [forced EXCEPT ![c] = FALSE]
  /\ UNCHANGED <<tokenDecimals, req, chainVars, faults>>

Build(c) == (Begin(c) \/ Answer(c) \/ Resume(c)) /\ UNCHANGED walletVars

WalletNext ==
  \/ \E c \in Calls :
       \/ Build(c) \/ Fault(c) \/ Rebuild(c) \/ ShiftList(c)
       \/ CallTx(c) \/ EstimateTx(c) \/ MineApproval(c) \/ MineAction(c)
       \/ CallGas(c) \/ GasPrice(c) \/ GasEstimate(c)
  \/ Outside /\ UNCHANGED walletVars

WalletSpec == WalletInit /\ [][WalletNext]_allVars

(***************************************************************************)
(* The provider answers, signed transactions are mined, and a user who     *)
(* wants the action done calls tx() on what is returned and starts over    *)
(* after a failure.  Nobody need ask for quotes or shift the list.         *)
(***************************************************************************)
WalletFairness ==
  \A c \in Calls :
    /\ WF_allVars(Build(c))
    /\ WF_allVars(CallTx(c)) /\ WF_allVars(EstimateTx(c))
    /\ WF_allVars(MineApproval(c) \/ MineAction(c))
    /\ WF_allVars(Rebuild(c))
    /\ WF_allVars(GasPrice(c) \/ GasEstimate(c))

FairWalletSpec == WalletSpec /\ WalletFairness

-----------------------------------------------------------------------------
(* The abstraction: what a call has returned stays so in the hands of the  *)
(* application, which may have taken a mined approval out of the list.     *)

ReturnedOf(p, list, done) ==
  IF p = "done" /\ "approval" \in done THEN "approval, action" ELSE ResultOf(p, list)

returnedBar == [c \in Calls |-> ReturnedOf(pc[c], txs[c], mined[c])]

AsSent == INSTANCE AtomicBuild
  WITH Amounts <- 0..MaxUint, Enough <- IsEnough, Dependent <- Checking, ask <- req,
       verdict <- verdictBar, result <- returnedBar

-----------------------------------------------------------------------------
(* Properties. *)

\* No one else has touched the allowance that c read.
Undisturbed(c) == "allowance" \notin moved[c] /\ NamesItsAmount(req[c])

(***************************************************************************)
(* Sent in order, a returned list works: the simulation in tx() rejects or *)
(* the action reverts on chain only if the allowance moved after the       *)
(* library read it, by another list of the application or from outside.    *)
(***************************************************************************)
UndisturbedListsExecute ==
  \A c \in Calls : wallet[c] \in {"refused", "reverted"} => ~Undisturbed(c)

(***************************************************************************)
(* An approval in the list is worth its gas: once it is mined, the action  *)
(* that follows fails only after a change from outside the application,    *)
(* whatever its other calls spend of the same allowance.                   *)
(***************************************************************************)
OwnApprovalSuffices ==
  \A c \in Calls : wallet[c] = "reverted" /\ "approval" \in mined[c] => outside > 0

(***************************************************************************)
(* gas() without force does not mistake a missing approval for a failing   *)
(* transaction: until the action is mined, it resolves to null only when   *)
(* the provider failed or the allowance was moved by others.               *)
(***************************************************************************)
UnforcedQuotesAnswer ==
  \A c \in Calls :
    quote[c] = "nullByRevert" /\ ~forced[c] /\ "action" \notin mined[c]
      => ~Undisturbed(c)

(***************************************************************************)
(* gas() recommends a limit only where none can be estimated: an answer    *)
(* that it gave without asking the provider stands, while nothing of the   *)
(* list is mined and no one else touches the allowance, for an action that *)
(* would revert.  Of '-1' and of delegations the library asks for more     *)
(* than the action draws: there its own comparison still says no.          *)
(***************************************************************************)
GuessesOnlyWhereDue ==
  \A c \in Calls :
    quote[c] = "recommended" /\ mined[c] = {} /\ Undisturbed(c)
      => \/ ~WouldSucceed(c, "action")
         \/ /\ req[c].amount = All \/ PlanOf[req[c]].strict
            /\ ~IsEnough(req[c], allowance[PairOf(req[c])])

(***************************************************************************)
(* Calls are atomic in the application too: the allowances that its own    *)
(* lists set and draw from while others are built, sent and started over   *)
(* are no more to a call than those that anyone else might have set.       *)
(***************************************************************************)
SendsAtomically == AsSent!Spec

(***************************************************************************)
(* Starting over converges: after the provider's faults and the changes    *)
(* from outside have stopped, every request that is accepted is executed.  *)
(***************************************************************************)
RequestsGetDone ==
  \A c \in Calls : (req[c] \in Accepted) ~> ("action" \in mined[c])
=============================================================================
