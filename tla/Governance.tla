----------------------------- MODULE Governance -----------------------------
(***************************************************************************)
(* Governing through the library: an application shows pages of proposals, *)
(* and a user acts on what is shown, while the proposals move on and other *)
(* people act.  Every method of the governance service builds one          *)
(* transaction without awaiting anything; tx() estimates it and rejects if *)
(* it would revert.  A vote is preceded by a read of the voting power, and *)
(* may be signed and sent by somebody else.                                *)
(***************************************************************************)
EXTENDS ProposalMetadata

CONSTANTS
  PowerAt,     \* the user's voting power at each proposal's startBlock
  Powers,      \* what it may be at other blocks
  Moving       \* bound: the proposals that leave their first state

VARIABLES
  status,      \* of each proposal: one of the contract's states
  states,      \* the states of the proposals each call has read
  voted,       \* the proposals on which the contract has a vote of the user
  task         \* what the user is doing about a proposal

lifeVars == <<status, states, voted, task>>
allVars == <<vars, lifeVars>>

\* The states of the contract, in its order; a read returns the index.
ContractStates == <<"Pending", "Canceled", "Active", "Failed", "Succeeded",
                    "Queued", "Expired", "Executed">>
States == {ContractStates[i] : i \in 1..8}
Index(s) == CHOOSE i \in 1..8 : ContractStates[i] = s

ASSUME GovernanceAssumption ==
  /\ PowerAt \in [Proposals -> Powers] /\ Powers \subseteq Nat
  /\ Moving \subseteq Proposals

Votes == {"submitVote", "submitVoteBySignature"}
Kinds == {"create", "cancel", "queue", "execute"} \cup Votes

Stages == {"asking", "built", "estimated", "done", "thrown", "refused", "reverted"}

\* shown: the state it was chosen for; early: its power was read before the
\* start of the vote; asked: what the user has asked to sign, and signs: what
\* the message says; counted: the power the contract gave to the vote.
NoTask == [kind |-> "none"]
Message == [support : BOOLEAN, id : Proposals]
Task == [kind : Kinds, proposalId : Proposals, support : BOOLEAN, shown : States,
         stage : Stages, power : Powers \cup {-1}, early : BOOLEAN,
         asked : Message, signs : Message, counted : Powers \cup {-1}]

GovTypeOK ==
  /\ TypeOK
  /\ status \in [Proposals -> States]
  /\ states \in [Calls -> Seq(States)]
  /\ \A c \in Calls : Len(states[c]) = Len(raw[c])
  /\ voted \subseteq Proposals
  /\ task = NoTask \/ task \in Task

GovInit ==
  /\ Init
  /\ status = [p \in Proposals |-> "Pending"]
  /\ states = [c \in Calls |-> << >>]
  /\ voted = {}
  /\ task = NoTask

-----------------------------------------------------------------------------
(* Reading proposals. *)

\* Mutant: the order in which a proposal goes through its states.
ProposalStateByLife ==
  <<"Pending", "Active", "Failed", "Succeeded", "Queued", "Expired", "Executed",
    "Canceled">>

ProposalState == <<"Pending", "Canceled", "Active", "Failed", "Succeeded",
                   "Queued", "Expired", "Executed">>

\* The state of a proposal that the helper answers with now.
parseState(p) == ProposalState[Index(status[p])]

\* The states of a page are those of the read, however long its documents take.
GovAnswer(c) ==
  /\ Answer(c)
  /\ states' = [states EXCEPT ![c] = [i \in 1..Len(raw'[c]) |-> parseState(raw'[c][i])]]
  /\ UNCHANGED <<status, voted, task>>

GovNextCall(c) ==
  /\ NextCall(c)
  /\ states' = [states EXCEPT ![c] = << >>]
  /\ UNCHANGED <<status, voted, task>>

\* The page is not reloaded while the user acts: bound of the model.
GovBegin(c) == task = NoTask /\ Begin(c) /\ UNCHANGED lifeVars

Reading ==
  \E c \in Calls :
    \/ GovBegin(c) \/ GovAnswer(c) \/ GovNextCall(c)
    \/ /\ \/ Reject(c) \/ Return(c)
          \/ \E i \in 1..Len(raw[c]) : Fetched(c, i) \/ FetchFails(c, i)
       /\ UNCHANGED lifeVars

-----------------------------------------------------------------------------
(* Methods of the service. *)

\* Mutant: the id has to be positive, like an amount.
IdAcceptedPositive(proposalId) == proposalId > 0

\* Is0OrPositiveAmount: the first proposal has the id 0.
IdAccepted(proposalId) == proposalId = 0 \/ proposalId >= 0

\* The list has one transaction, whose tx() the user calls.
Built(proposalId) == IF IdAccepted(proposalId) THEN "built" ELSE "thrown"

\* The message that a vote sent to the contract has to be signed with.
Sent(proposalId, support) == [support |-> support, id |-> proposalId]

\* The user leaves the page for what he wants to do about a proposal of it.
Choose(kind, c, i, support) ==
  /\ task = NoTask
  /\ \A d \in Calls : pc[d] \notin {"reading", "fetching"}
  /\ pc[c] = "done" /\ i \in 1..Len(raw[c])
  /\ task' = [kind |-> kind, proposalId |-> raw[c][i], support |-> support,
              shown |-> states[c][i],
              stage |-> IF kind \in Votes THEN "asking" ELSE Built(raw[c][i]),
              power |-> -1, early |-> FALSE, asked |-> Sent(raw[c][i], support),
              signs |-> Sent(raw[c][i], support), counted |-> -1]
  /\ pc' = [d \in Calls |-> "idle"]
  /\ raw' = [d \in Calls |-> << >>] /\ metadata' = raw' /\ states' = raw'
  /\ public' = [d \in Calls |-> {}]
  /\ UNCHANGED <<configured, memorize, proposalsCount, ask, shown, status, voted>>

Final == {"Canceled", "Expired", "Executed"}

cancel(c, i) == states[c][i] \notin Final /\ raw[c][i] \in Moving /\ Choose("cancel", c, i, FALSE)
queue(c, i) == states[c][i] = "Succeeded" /\ Choose("queue", c, i, FALSE)
execute(c, i) == states[c][i] = "Queued" /\ Choose("execute", c, i, FALSE)

\* A vote may be prepared before it is open.
submitVote(c, i, support) ==
  states[c][i] \in {"Pending", "Active"} /\ Choose("submitVote", c, i, support)

submitVoteBySignature(c, i, support) ==
  /\ states[c][i] \in {"Pending", "Active"}
  /\ Choose("submitVoteBySignature", c, i, support)

\* What the contract answers of a block that is not mined yet is the latest.
\* Mutant: the block is not passed on.
getVotingPowerAtLatest(proposalId, power) == power \in Powers

getVotingPowerAt(proposalId, power) ==
  IF status[proposalId] = "Pending" THEN power \in Powers
  ELSE power = PowerAt[proposalId]

\* Mutant: the message is always one in favour.
signVotingFor(proposalId, support) == [support |-> TRUE, id |-> proposalId]

\* The message has no nonce, although its caller gives one.
signVoting(proposalId, support) == [support |-> support, id |-> proposalId]

\* The user is shown his power at the startBlock, and goes on.  signVoting has
\* arguments of its own, which need not be those of submitVoteBySignature.
PowerArrives(power, asked) ==
  /\ task # NoTask /\ task.stage = "asking"
  /\ getVotingPowerAt(task.proposalId, power)
  /\ task.kind = "submitVote" => asked = task.asked
  /\ task' = [task EXCEPT !.power = power,
                          !.early = status[task.proposalId] = "Pending",
                          !.asked = asked,
                          !.signs = signVoting(asked.id, asked.support),
                          !.stage = Built(task.proposalId)]
  /\ UNCHANGED <<vars, status, states, voted>>

\* A proposal of the user's own.
create ==
  /\ task = NoTask /\ configured /\ proposalsCount < Len(HashOf)
  /\ task' = [kind |-> "create", proposalId |-> proposalsCount, support |-> FALSE,
              shown |-> "Pending", stage |-> "built", power |-> -1, early |-> FALSE,
              asked |-> Sent(proposalsCount, FALSE), signs |-> Sent(proposalsCount, FALSE),
              counted |-> -1]
  /\ UNCHANGED <<vars, status, states, voted>>

-----------------------------------------------------------------------------
(* The contracts. *)

\* The signer they recover is the user if just this was signed, and otherwise
\* an account that has no power.
SignedByUser(t) ==
  t.kind = "submitVoteBySignature"
    => t.signs = Sent(t.proposalId, t.support)

WouldSucceed(t) ==
  LET s == status[t.proposalId]
  IN  CASE t.kind = "create" -> TRUE
        [] t.kind = "cancel" -> s \notin Final
        [] t.kind = "queue" -> s = "Succeeded"
        [] t.kind = "execute" -> s = "Queued"
        [] t.kind \in Votes -> /\ s = "Active"
                               /\ SignedByUser(t) => t.proposalId \notin voted

\* tx(): the estimate.
Estimate ==
  /\ task # NoTask /\ task.stage = "built"
  /\ task' = [task EXCEPT !.stage = IF WouldSucceed(task) THEN "estimated" ELSE "refused"]
  /\ UNCHANGED <<vars, status, states, voted>>

After(kind) == CASE kind = "cancel" -> "Canceled"
                 [] kind = "queue" -> "Queued"
                 [] kind = "execute" -> "Executed"

Mine ==
  /\ task # NoTask /\ task.stage = "estimated"
  /\ task' = [task EXCEPT
       !.stage = IF WouldSucceed(task) THEN "done" ELSE "reverted",
       !.counted = IF WouldSucceed(task) /\ task.kind \in Votes /\ SignedByUser(task)
                   THEN PowerAt[task.proposalId] ELSE @]
  /\ status' = IF WouldSucceed(task) /\ task.kind \notin Votes \cup {"create"}
               THEN [status EXCEPT ![task.proposalId] = After(task.kind)] ELSE status
  /\ voted' = IF WouldSucceed(task) /\ task.kind \in Votes /\ SignedByUser(task)
              THEN voted \cup {task.proposalId} ELSE voted
  /\ proposalsCount' = proposalsCount + (IF task.kind = "create" THEN 1 ELSE 0)
  /\ UNCHANGED <<configured, memorize, ask, pc, raw, metadata, shown, public, states>>

Finish ==
  /\ task # NoTask /\ task.stage \in {"done", "thrown", "refused", "reverted"}
  /\ task' = NoTask
  /\ UNCHANGED <<vars, status, states, voted>>

Steps ==
  {<<"Pending", "Active">>, <<"Active", "Failed">>, <<"Active", "Succeeded">>,
   <<"Succeeded", "Queued">>, <<"Queued", "Executed">>, <<"Queued", "Expired">>}
    \cup {<<s, "Canceled">> : s \in States \ Final}

\* Time passes, and others queue, execute and cancel.
MoveOn(p) ==
  /\ p \in Moving /\ p < proposalsCount
  /\ \E s \in States : /\ <<status[p], s>> \in Steps
                       /\ status' = [status EXCEPT ![p] = s]
  /\ UNCHANGED <<vars, states, voted, task>>

\* While the user creates one, nobody else does: bound of the model.
OthersCreate == /\ task = NoTask \/ task.kind # "create"
                /\ Create /\ UNCHANGED lifeVars

Governing ==
  \/ \E c \in Calls : \E i \in 1..Len(raw[c]) :
       \/ cancel(c, i) \/ queue(c, i) \/ execute(c, i)
       \/ \E support \in BOOLEAN :
            submitVote(c, i, support) \/ submitVoteBySignature(c, i, support)
  \/ \E power \in Powers, asked \in Message : PowerArrives(power, asked)
  \/ create \/ Estimate \/ Mine \/ Finish

GovNext ==
  \/ Reading \/ Governing \/ OthersCreate
  \/ \E p \in Proposals : MoveOn(p)

GovSpec == GovInit /\ [][GovNext]_allVars

\* The fairness of ProposalMetadata, for the fetches of a page together, each
\* of which settles once; nobody is bound to act.
GovFairness ==
  \A c \in Calls :
    /\ WF_allVars(GovAnswer(c) \/ (Reject(c) /\ UNCHANGED lifeVars))
    /\ WF_allVars(Return(c) /\ UNCHANGED lifeVars)
    /\ WF_allVars(/\ \E i \in 1..Len(raw[c]) : Fetched(c, i) \/ FetchFails(c, i)
                  /\ UNCHANGED lifeVars)

FairGovSpec == GovSpec /\ GovFairness

-----------------------------------------------------------------------------
\* Whatever is offered for the state a page has shown works: it is refused,
\* thrown or reverted only if the proposal has left that state since the page
\* was read, the user has voted already, or the vote was not open yet.
OfferedActionsWork ==
  (task # NoTask /\ task.stage \in {"thrown", "refused", "reverted"}) =>
    \/ status[task.proposalId] # task.shown
    \/ task.kind \in Votes /\ (task.proposalId \in voted \/ task.shown = "Pending")

\* A vote counts with the power that was shown for it, although tokens and
\* delegations have moved since the proposal's startBlock, unless the power
\* was read before that block.
VotesCountAsShown ==
  (task # NoTask /\ task.counted # -1) => task.early \/ task.counted = task.power

\* A vote that is mined counts as the user's, whoever has sent it, exactly if
\* he asked to sign this vote: another message than the one that is sent is
\* recovered as a stranger's, although the transaction succeeds.
SignedVotesCount ==
  (task # NoTask /\ task.kind \in Votes /\ task.stage = "done") =>
    LET meant == task.asked = Sent(task.proposalId, task.support)
    IN  /\ meant <=> task.counted # -1
        /\ meant => task.proposalId \in voted
=============================================================================
