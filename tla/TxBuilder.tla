----------------------------- MODULE TxBuilder ------------------------------
(***************************************************************************)
(* Calls to the transaction-building methods, running concurrently over    *)
(* one ERC20Service and one JSON-RPC provider.                             *)
(*                                                                         *)
(* JavaScript runs the code between two awaits without interruption, so a  *)
(* step of a call is the code from the resumption of one await to the next *)
(* await: it uses the value that was read and dispatches the next read.    *)
(* The provider evaluates a read at some moment in between, and other      *)
(* calls, other tabs and other users of the token run meanwhile.           *)
(***************************************************************************)
EXTENDS TxRequests, FiniteSets

CONSTANTS
  Calls,              \* invocations in flight
  AllowanceLevels,    \* values an allowance may be set to from outside
  TransferableLevels, \* values transferableSynthetix may have
  MaxOutside          \* bound on the changes made from outside

ASSUME BuilderAssumption ==
  /\ AllowanceLevels \subseteq 0..MaxUint
  /\ TransferableLevels \subseteq Nat /\ TransferableLevels # {}
  /\ MaxOutside \in Nat

VARIABLES
  tokenDecimals, \* the ERC20Service's cache: 10^decimals, 0 when unset
  req,           \* the request of each call
  pc,            \* idle, asked, answered, cached, done or failed
  at,            \* index of the read the call awaits
  got,           \* the provider's answer to it
  approved,      \* what isApproved returned; TRUE before it is called
  txs,           \* the list the call returned
  allowance,     \* chain: what each spender may pull of the user's tokens
  transferable,  \* chain: the user's transferable SNX
  moved,         \* history: what changed on chain since the call read it
  outside        \* number of changes made from outside

callVars == <<req, pc, at, got, approved, txs>>
chainVars == <<allowance, transferable, outside>>
vars == <<tokenDecimals, callVars, chainVars, moved>>

Awaiting == {"asked", "answered", "cached"}
Lists == {<< >>, <<"action">>, <<"approval", "action">>}

\* The requests that are neither refused nor answered with [] at once, and
\* what each of them is planned to do once the decimals are known.
Accepted == {q \in Requests : Entry(q) = "go"}
PlanOf == [q \in Accepted |-> Plan(q, Scale)]

Reads(q) == PlanOf[q].reads
CurrentRead(c) == Reads(req[c])[at[c]]

\* The allowance a request depends on, and all those that some request does.
Checking == {q \in Accepted : PlanOf[q].token # None}
PairOf(q) == <<PlanOf[q].token, PlanOf[q].spender>>
Pairs == {PairOf(q) : q \in Checking}

TypeOK ==
  /\ tokenDecimals \in [Tokens -> Nat]
  /\ req \in [Calls -> Requests]
  /\ pc \in [Calls -> {"idle", "done", "failed"} \cup Awaiting]
  /\ at \in [Calls -> 1..5]
  /\ got \in [Calls -> Nat]
  /\ approved \in [Calls -> BOOLEAN]
  /\ txs \in [Calls -> Lists]
  /\ allowance \in [Pairs -> 0..MaxUint]
  /\ transferable \in TransferableLevels
  /\ moved \in [Calls -> SUBSET {"allowance", "transferable"}]
  /\ outside \in 0..MaxOutside

Init ==
  /\ tokenDecimals = [t \in Tokens |-> 0]
  /\ req \in [Calls -> Requests]
  /\ pc = [c \in Calls |-> "idle"]
  /\ at = [c \in Calls |-> 1]
  /\ got = [c \in Calls |-> 0]
  /\ approved = [c \in Calls |-> TRUE]
  /\ txs = [c \in Calls |-> << >>]
  /\ \E a \in AllowanceLevels : allowance = [p \in Pairs |-> a]
  /\ transferable \in TransferableLevels
  /\ moved = [c \in Calls |-> {}]
  /\ outside = 0

-----------------------------------------------------------------------------
(* Steps of a call. *)

\* Mutant: the cache is believed before it is filled.
IsCachedUnset(read, scales) == read.kind = "decimals"

\* decimalsOf answers from the cache when the cached value is truthy, which
\* zero decimals are not; the ETH mock address has 18 and is never asked.
IsCached(read, scales) ==
  /\ read.kind = "decimals"
  /\ read.token = ETH \/ scales[read.token] > 1

\* Mutants: the approval is forgotten; the action is.
ListedNoApproval(ok) == <<"action">>
ListedNoAction(ok) == IF ok THEN <<"action">> ELSE <<"approval">>

\* The list the method returns: the approval, when one is due, comes first.
Listed(ok) == IF ok THEN <<"action">> ELSE <<"approval", "action">>

(***************************************************************************)
(* The code of call c up to its k-th read, or to its end when there is no  *)
(* such read.  scales is the cache and ok the approval verdict by then.    *)
(***************************************************************************)
Proceed(c, k, scales, ok) ==
  LET plan == Plan(req[c], scales) IN
  /\ approved' = [approved EXCEPT ![c] = ok]
  /\ got' = [got EXCEPT ![c] = 0]
  /\ at' = [at EXCEPT ![c] = k]
  /\ \/ /\ k <= Len(plan.reads)
        /\ pc' = [pc EXCEPT ![c] = IF IsCached(plan.reads[k], scales)
                                   THEN "cached" ELSE "asked"]
        /\ UNCHANGED txs
     \/ /\ k > Len(plan.reads) /\ plan.completes
        /\ pc' = [pc EXCEPT ![c] = "done"]
        /\ txs' = [txs EXCEPT ![c] = Listed(ok)]
     \/ /\ k > Len(plan.reads) /\ ~plan.completes
        /\ pc' = [pc EXCEPT ![c] = "failed"]
        /\ UNCHANGED txs

\* The application calls the method; validators run before its body.
Begin(c) ==
  /\ pc[c] = "idle"
  /\ \/ /\ Entry(req[c]) = "go"
        /\ Proceed(c, 1, tokenDecimals, TRUE)
        /\ UNCHANGED <<tokenDecimals, req>>
     \/ /\ Entry(req[c]) = "throw"
        /\ pc' = [pc EXCEPT ![c] = "failed"]
        /\ UNCHANGED <<tokenDecimals, req, at, got, approved, txs>>
     \/ /\ Entry(req[c]) = "empty"
        /\ pc' = [pc EXCEPT ![c] = "done"]
        /\ UNCHANGED <<tokenDecimals, req, at, got, approved, txs>>
  /\ UNCHANGED <<chainVars, moved>>

\* What the provider answers to a read at this moment.
ValueOf(read) ==
  CASE read.kind = "decimals" -> Scale[read.token]
    [] read.kind \in {"allowance", "borrowAllowance"} ->
         allowance[<<read.token, read.spender>>]
    [] read.kind = "transferable" -> transferable
    [] OTHER -> 0

\* The provider answers the read that c awaits.
Answer(c) ==
  /\ pc[c] = "asked"
  /\ got' = [got EXCEPT ![c] = ValueOf(CurrentRead(c))]
  /\ pc' = [pc EXCEPT ![c] = "answered"]
  /\ moved' = [moved EXCEPT ![c] =
       CASE CurrentRead(c).kind \in {"allowance", "borrowAllowance"} ->
              @ \ {"allowance"}
         [] CurrentRead(c).kind = "transferable" -> @ \ {"transferable"}
         [] OTHER -> @]
  /\ UNCHANGED <<tokenDecimals, req, at, approved, txs, chainVars>>

\* The provider rejects it, and with it the promise of the method.
Reject(c) ==
  /\ pc[c] = "asked"
  /\ pc' = [pc EXCEPT ![c] = "failed"]
  /\ UNCHANGED <<tokenDecimals, req, at, got, approved, txs, chainVars, moved>>

\* decimalsOf found the value in its cache.
ResumeCached(c) ==
  /\ pc[c] = "cached"
  /\ Proceed(c, at[c] + 1, tokenDecimals, approved[c])
  /\ UNCHANGED <<tokenDecimals, req, chainVars, moved>>

\* Mutants: the answer is not stored; a value that is not truthy is asked again.
ResumeDecimalsUnstored(c) ==
  /\ pc[c] = "answered" /\ CurrentRead(c).kind = "decimals"
  /\ Proceed(c, at[c] + 1, tokenDecimals, approved[c])
  /\ UNCHANGED <<tokenDecimals, req, chainVars, moved>>

ResumeDecimalsRetried(c) ==
  /\ pc[c] = "answered" /\ CurrentRead(c).kind = "decimals"
  /\ tokenDecimals' = [tokenDecimals EXCEPT ![CurrentRead(c).token] = got[c]]
  /\ Proceed(c, IF got[c] > 1 THEN at[c] + 1 ELSE at[c], tokenDecimals', approved[c])
  /\ UNCHANGED <<req, chainVars, moved>>

\* decimalsOf stores what the token contract answered.
ResumeDecimals(c) ==
  /\ pc[c] = "answered" /\ CurrentRead(c).kind = "decimals"
  /\ tokenDecimals' = [tokenDecimals EXCEPT ![CurrentRead(c).token] = got[c]]
  /\ Proceed(c, at[c] + 1, tokenDecimals', approved[c])
  /\ UNCHANGED <<req, chainVars, moved>>

\* Mutant: the answer of isSnxTransferable is ignored.
ResumeTransferableIgnored(c) ==
  /\ pc[c] = "answered" /\ CurrentRead(c).kind = "transferable"
  /\ Proceed(c, at[c] + 1, tokenDecimals, approved[c])
  /\ UNCHANGED <<tokenDecimals, req, chainVars, moved>>

\* synthetixValidation: the method throws when the funds are locked.
ResumeTransferable(c) ==
  /\ pc[c] = "answered" /\ CurrentRead(c).kind = "transferable"
  /\ \/ /\ Plan(req[c], tokenDecimals).amount <= got[c]
        /\ Proceed(c, at[c] + 1, tokenDecimals, approved[c])
     \/ /\ Plan(req[c], tokenDecimals).amount > got[c]
        /\ pc' = [pc EXCEPT ![c] = "failed"]
        /\ got' = [got EXCEPT ![c] = 0]
        /\ UNCHANGED <<at, approved, txs>>
  /\ UNCHANGED <<tokenDecimals, req, chainVars, moved>>

\* Mutant: the comparison is the wrong way round.
SufficesReversed(plan, available) == available <= plan.need

\* isApproved compares with gte, isDelegationApproved with gt.
Suffices(plan, available) ==
  IF plan.strict THEN available > plan.need ELSE available >= plan.need

\* Mutant: the verdict of an earlier allowance is kept.
ResumeAllowanceKept(c) ==
  /\ pc[c] = "answered"
  /\ CurrentRead(c).kind \in {"allowance", "borrowAllowance"}
  /\ Proceed(c, at[c] + 1, tokenDecimals,
             approved[c] \/ Suffices(Plan(req[c], tokenDecimals), got[c]))
  /\ UNCHANGED <<tokenDecimals, req, chainVars, moved>>

ResumeAllowance(c) ==
  /\ pc[c] = "answered"
  /\ CurrentRead(c).kind \in {"allowance", "borrowAllowance"}
  /\ Proceed(c, at[c] + 1, tokenDecimals,
             Suffices(Plan(req[c], tokenDecimals), got[c]))
  /\ UNCHANGED <<tokenDecimals, req, chainVars, moved>>

\* A token's name, symbol and decimals, or the address of a token.
ResumeLookup(c) ==
  /\ pc[c] = "answered"
  /\ CurrentRead(c).kind \in {"tokenData", "tokenLookup"}
  /\ Proceed(c, at[c] + 1, tokenDecimals, approved[c])
  /\ UNCHANGED <<tokenDecimals, req, chainVars, moved>>

Resume(c) == \/ ResumeCached(c) \/ ResumeDecimals(c) \/ ResumeTransferable(c)
             \/ ResumeAllowance(c) \/ ResumeLookup(c)

\* The application is through with the result and will make another call.
NextCall(c) ==
  /\ pc[c] \in {"done", "failed"}
  /\ \E q \in Requests : req' = [req EXCEPT ![c] = q]
  /\ pc' = [pc EXCEPT ![c] = "idle"]
  /\ at' = [at EXCEPT ![c] = 1]
  /\ got' = [got EXCEPT ![c] = 0]
  /\ approved' = [approved EXCEPT ![c] = TRUE]
  /\ txs' = [txs EXCEPT ![c] = << >>]
  /\ moved' = [moved EXCEPT ![c] = {}]
  /\ UNCHANGED <<tokenDecimals, chainVars>>

-----------------------------------------------------------------------------
(* The chain, changed by whoever else uses the account. *)

Touches(p, q) == q \in Checking /\ PairOf(q) = p

\* An approval, a transfer or a revocation from elsewhere.
AllowanceMoves(p, a) ==
  /\ outside < MaxOutside /\ a # allowance[p]
  /\ outside' = outside + 1
  /\ allowance' = [allowance EXCEPT ![p] = a]
  /\ moved' = [c \in Calls |-> IF Touches(p, req[c])
                               THEN moved[c] \cup {"allowance"} ELSE moved[c]]
  /\ UNCHANGED <<tokenDecimals, callVars, transferable>>

\* SNX is locked or vested.
TransferableMoves(a) ==
  /\ outside < MaxOutside /\ a # transferable
  /\ outside' = outside + 1
  /\ transferable' = a
  /\ moved' = [c \in Calls |-> moved[c] \cup {"transferable"}]
  /\ UNCHANGED <<tokenDecimals, callVars, allowance>>

Outside == \/ \E p \in Pairs, a \in AllowanceLevels : AllowanceMoves(p, a)
           \/ \E a \in TransferableLevels : TransferableMoves(a)

CallStep(c) == Begin(c) \/ Answer(c) \/ Reject(c) \/ Resume(c) \/ NextCall(c)

Next == (\E c \in Calls : CallStep(c)) \/ Outside

Spec == Init /\ [][Next]_vars

(***************************************************************************)
(* A provider answers or rejects every request sent to it (ethers gives up *)
(* after its timeout), and the event loop runs every settled continuation. *)
(* Nothing makes the application call again, or the world stay still.      *)
(***************************************************************************)
Fairness == \A c \in Calls : /\ WF_vars(Answer(c) \/ Reject(c))
                             /\ WF_vars(Resume(c))

FairSpec == Spec /\ Fairness

-----------------------------------------------------------------------------
(* Properties. *)

\* c has returned a list that depends on an allowance, which has not moved.
CurrentVerdict(c) ==
  pc[c] = "done" /\ req[c] \in Checking /\ "allowance" \notin moved[c]

(***************************************************************************)
(* A call returns an approval transaction exactly when the allowance it    *)
(* depends on falls short of what the request needs, unless that allowance *)
(* moved after the provider read it ("If the user is not approved, an      *)
(* approval transaction will also be returned").                           *)
(***************************************************************************)
ApprovalIffShort ==
  \A c \in Calls :
    CurrentVerdict(c) =>
      (txs[c] = <<"approval", "action">>
         <=> ~Suffices(PlanOf[req[c]], allowance[PairOf(req[c])]))

\* The call data names the caller's amount, not a larger one.
NamesItsAmount(q) ==
  ~(q.whole /\ (q.op = "liquidationCall" \/ (q.op = "swapCollateral" /\ q.flash)))

Spends(q) == IF q.amount = All THEN SuperBig ELSE PlanOf[q].amount

(***************************************************************************)
(* A list without an approval is covered: the allowance pays for the       *)
(* amount in the call data, although need and call data are converted with *)
(* the decimals of two tokens, read at two moments, by calls that share    *)
(* the cache.                                                              *)
(***************************************************************************)
CoveredOrApproved ==
  \A c \in Calls :
    CurrentVerdict(c) /\ NamesItsAmount(req[c]) /\ txs[c] = <<"action">>
      => allowance[PairOf(req[c])] >= Spends(req[c])

ChecksSnx(q) ==
  q \in Accepted /\ \E k \in 1..Len(Reads(q)) : Reads(q)[k] = TransferableSnx

(***************************************************************************)
(* Locked SNX is never deposited or repaid: a call for SNX returns only if *)
(* its amount was transferable, "Not enough funds to execute operation"    *)
(* otherwise.                                                              *)
(***************************************************************************)
LockedSnxRefused ==
  \A c \in Calls :
    pc[c] = "done" /\ ChecksSnx(req[c]) /\ "transferable" \notin moved[c]
      => PlanOf[req[c]].amount <= transferable

(***************************************************************************)
(* No call hangs: whatever the provider does and whatever the other calls  *)
(* leave in the shared cache, a call that began returns or fails.          *)
(***************************************************************************)
CallsEnd == \A c \in Calls : pc[c] \in Awaiting ~> pc[c] \in {"done", "failed"}

(***************************************************************************)
(* Documented, and not so (README: the amount of repay is "(-1) if the     *)
(* user wants to repay everything"): a request to repay everything is not   *)
(* refused as the call begins.                                             *)
(***************************************************************************)
RepayEverythingAccepted ==
  [][\A c \in Calls :
       pc[c] = "idle" /\ req[c].op = "repay" /\ req[c].amount = All
         => pc'[c] # "failed"]_vars

(***************************************************************************)
(* Declared, and not so (the @IsPositiveOrMinusOneAmount of redeem and     *)
(* claimRewards): no transaction is built to redeem or claim nothing.      *)
(***************************************************************************)
RedeemsSomething ==
  \A c \in Calls :
    txs[c] # << >> /\ req[c].op \in {"redeem", "claimRewards"}
      => PositiveOrAll(req[c])

-----------------------------------------------------------------------------
(* The abstraction: a call judges the allowance when the provider answers. *)

AllowanceKinds == {"allowance", "borrowAllowance"}

\* A call of q that is in phase p of its k-th read has had an answer to its
\* i-th read, and that is the allowance.
Judged(q, k, p, i) ==
  /\ i < k \/ (i = k /\ p = "answered")
  /\ i <= Len(Reads(q)) /\ Reads(q)[i].kind \in AllowanceKinds

IsEnough(q, available) == Suffices(PlanOf[q], available)

VerdictOf(q, k, p, answer, ok) ==
  IF ~\E i \in 1..4 : Judged(q, k, p, i) THEN "open"
  ELSE IF (IF Judged(q, k, p, k) THEN IsEnough(q, answer) ELSE ok)
    THEN "enough" ELSE "short"

ResultOf(p, list) ==
  CASE p = "failed" -> "failed"
    [] p = "done" /\ list = << >> -> "nothing"
    [] p = "done" /\ list = <<"action">> -> "action"
    [] p = "done" /\ list = <<"approval", "action">> -> "approval, action"
    [] OTHER -> "pending"

verdictBar ==
  [c \in Calls |-> VerdictOf(req[c], at[c], pc[c], got[c], approved[c])]
resultBar == [c \in Calls |-> ResultOf(pc[c], txs[c])]

Atomic == INSTANCE AtomicBuild
  WITH Amounts <- 0..MaxUint, Enough <- IsEnough, Dependent <- Checking, ask <- req,
       verdict <- verdictBar, result <- resultBar

(***************************************************************************)
(* Every call is atomic: the awaits, the shared decimals cache and the     *)
(* interleaved calls cannot be told from one judgement of the allowance.   *)
(***************************************************************************)
BuildsAtomically == Atomic!Spec
=============================================================================
