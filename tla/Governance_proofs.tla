------------------------- MODULE Governance_proofs --------------------------
(***************************************************************************)
(* The pages of proposals and what a user does about one of them, for any  *)
(* number of calls, proposals, documents and powers.  First the pages of   *)
(* ProposalMetadata, then the actions of Governance.                       *)
(***************************************************************************)
EXTENDS Governance, TLAPS

(***************************************************************************)
(* A document that was shown is in MEMORIZE, so a call that began later    *)
(* finds it there: what it still awaits, or had to replace, is new to it.  *)
(***************************************************************************)
ShownKept == shown \subseteq memorize

PublicShown == \A c \in Calls : public[c] \subseteq shown

DocumentsKept ==
  \A c \in Calls : \A i \in 1..Len(raw[c]) :
    metadata[c][i] = "document" => ipfsHash(raw[c][i]) \in memorize

OthersNew ==
  \A c \in Calls : \A i \in 1..Len(raw[c]) :
    metadata[c][i] # "document" => ipfsHash(raw[c][i]) \notin public[c]

\* The call's beginning is before everything it has read.
NothingRead == \A c \in Calls : pc[c] = "idle" => raw[c] = << >>

IInv == /\ TypeOK /\ ShownKept /\ PublicShown /\ DocumentsKept /\ OthersNew
        /\ NothingRead

-----------------------------------------------------------------------------

\* A proposal's hash is one of the hashes.
LEMMA HashIsHash == \A p \in Proposals : ipfsHash(p) \in Hashes
  BY ProposalAssumption DEF Proposals, ipfsHash

\* The helper answers with proposals that exist.
LEMMA HelperAnswerType ==
  ASSUME NEW a \in Asks, proposalsCount \in 0..Len(HashOf), ~Reverts(a)
  PROVE  HelperAnswer(a) \in Seq(Proposals)
<1>1. CASE a \in Pages
  <2>1. "skip" \in DOMAIN a /\ a.skip \in Nat /\ a.limit \in Nat
    BY <1>1, ProposalAssumption
  <2>2. a.skip <= proposalsCount
    BY <2>1 DEF Reverts
  <2> DEFINE n == Smaller(a.limit, proposalsCount - a.skip)
  <2>3. n \in Nat /\ n <= proposalsCount - a.skip
    BY <2>1, <2>2 DEF Smaller
  <2>4. \A i \in 1..n : proposalsCount - a.skip - i \in Proposals
    BY <2>1, <2>2, <2>3 DEF Proposals
  <2> HIDE DEF n
  <2>5. [i \in 1..n |-> proposalsCount - a.skip - i] \in Seq(Proposals)
    BY <2>3, <2>4
  <2>6. QED BY <2>1, <2>5 DEF HelperAnswer, n
<1>2. CASE a \in [proposalId : Proposals]
  <2>1. a.proposalId \in Proposals /\ ~("skip" \in DOMAIN a)
    BY <1>2
  <2>2. QED BY <2>1 DEF HelperAnswer
<1>3. QED BY <1>1, <1>2 DEF Asks

LEMMA InitInv == Init => IInv
  BY ProposalAssumption
     DEF Init, IInv, TypeOK, ShownKept, PublicShown, DocumentsKept, OthersNew,
         NothingRead

\* Every step keeps the invariant.
LEMMA NextInv == IInv /\ [Next]_vars => IInv'
<1> SUFFICES ASSUME IInv, [Next]_vars PROVE IInv'
  OBVIOUS
<1> USE DEF IInv
<1>1. ASSUME NEW c \in Calls, Begin(c) PROVE IInv'
  <2>1. TypeOK' BY <1>1 DEF Begin, TypeOK, ShownKept
  <2>2. ShownKept' /\ PublicShown' /\ DocumentsKept'
    BY <1>1 DEF Begin, TypeOK, ShownKept, PublicShown, DocumentsKept
  <2>3. OthersNew' /\ NothingRead'
    BY <1>1 DEF Begin, TypeOK, OthersNew, NothingRead, ipfsHash
  <2>4. QED BY <2>1, <2>2, <2>3
<1>2. ASSUME NEW c \in Calls, Answer(c) PROVE IInv'
  <2> DEFINE stats == raw'[c]
  <2>1. stats = HelperAnswer(ask[c]) /\ stats \in Seq(Proposals)
    BY <1>2, HelperAnswerType DEF Answer, TypeOK
  <2>2. metadata'[c] = [i \in 1..Len(stats) |-> FirstLook(stats[i])]
    BY <1>2 DEF Answer, TypeOK
  <2>3. \A i \in 1..Len(stats) : FirstLook(stats[i]) \in {"fetching", "document"}
    BY DEF FirstLook
  <2>4. \A d \in Calls \ {c} : raw'[d] = raw[d] /\ metadata'[d] = metadata[d]
    BY <1>2 DEF Answer, TypeOK
  <2>5. metadata'[c] \in Seq({"fetching", "document", "standIn"})
        /\ Len(metadata'[c]) = Len(stats)
    BY <2>1, <2>2, <2>3
  <2>6. TypeOK'
    BY <1>2, <2>1, <2>4, <2>5 DEF Answer, TypeOK
  <2>7. ShownKept' /\ PublicShown'
    BY <1>2 DEF Answer, ShownKept, PublicShown
  <2>8. DocumentsKept'
    BY <1>2, <2>2, <2>4 DEF Answer, DocumentsKept, FirstLook, ipfsHash
  <2>9. OthersNew'
    <3>1. public[c] \subseteq memorize /\ public' = public
      BY <1>2 DEF Answer, ShownKept, PublicShown
    <3>2. \A i \in 1..Len(stats) : metadata'[c][i] # "document" =>
                                   ipfsHash(stats[i]) \notin memorize
      BY <2>2 DEF FirstLook
    <3>3. QED
      BY <2>4, <3>1, <3>2 DEF OthersNew, ipfsHash
  <2>10. NothingRead'
    BY <1>2, <2>4 DEF Answer, TypeOK, NothingRead
  <2>11. QED BY <2>6, <2>7, <2>8, <2>9, <2>10
<1>3. ASSUME NEW c \in Calls, Reject(c) PROVE IInv'
  BY <1>3 DEF Reject, TypeOK, ShownKept, PublicShown, DocumentsKept, OthersNew,
              NothingRead, ipfsHash
<1>4. ASSUME NEW c \in Calls, Return(c) PROVE IInv'
  <2>1. \A i \in Documents(c) : ipfsHash(raw[c][i]) \in memorize
    BY <1>4 DEF Documents, DocumentsKept
  <2>2. ShownKept'
    BY <1>4, <2>1 DEF Return, ShownKept
  <2>3. memorize \subseteq Hashes
    BY DEF TypeOK
  <2>4. TypeOK'
    BY <1>4, <2>2, <2>3 DEF Return, TypeOK, ShownKept
  <2>5. PublicShown'
    BY <1>4 DEF Return, PublicShown
  <2>6. DocumentsKept' /\ OthersNew' /\ NothingRead'
    BY <1>4 DEF Return, TypeOK, DocumentsKept, OthersNew, NothingRead, ipfsHash
  <2>7. QED BY <2>2, <2>4, <2>5, <2>6
<1>5. ASSUME NEW c \in Calls, NextCall(c) PROVE IInv'
  <2>1. raw'[c] = << >> /\ metadata'[c] = << >> /\ public'[c] = {}
    BY <1>5 DEF NextCall, TypeOK
  <2>2. \A d \in Calls \ {c} :
          raw'[d] = raw[d] /\ metadata'[d] = metadata[d] /\ public'[d] = public[d]
    BY <1>5 DEF NextCall, TypeOK
  <2>3. TypeOK'
    BY <1>5, <2>1, <2>2 DEF NextCall, TypeOK
  <2>4. ShownKept' /\ PublicShown'
    BY <1>5, <2>1, <2>2 DEF NextCall, ShownKept, PublicShown
  <2>5. DocumentsKept' /\ OthersNew' /\ NothingRead'
    BY <1>5, <2>1, <2>2
       DEF NextCall, TypeOK, DocumentsKept, OthersNew, NothingRead, ipfsHash
  <2>6. QED BY <2>3, <2>4, <2>5
<1>6. ASSUME NEW c \in Calls, NEW k \in 1..Len(raw[c]), Fetched(c, k) PROVE IInv'
  <2>1. ipfsHash(raw[c][k]) \in Hashes
    BY HashIsHash DEF TypeOK
  <2>2. metadata'[c] \in Seq({"fetching", "document", "standIn"})
        /\ Len(metadata'[c]) = Len(metadata[c])
    BY <1>6 DEF Fetched, TypeOK
  <2>3. \A d \in Calls : \A i \in 1..Len(raw[d]) :
          metadata'[d][i] = IF d = c /\ i = k THEN "document" ELSE metadata[d][i]
    BY <1>6 DEF Fetched, TypeOK
  <2>4. \A d \in Calls \ {c} : metadata'[d] = metadata[d]
    BY <1>6 DEF Fetched, TypeOK
  <2>5. TypeOK'
    BY <1>6, <2>1, <2>2, <2>4 DEF Fetched, TypeOK
  <2>6. ShownKept' /\ PublicShown'
    BY <1>6 DEF Fetched, ShownKept, PublicShown
  <2>7. DocumentsKept' /\ OthersNew' /\ NothingRead'
    BY <1>6, <2>3 DEF Fetched, DocumentsKept, OthersNew, NothingRead, ipfsHash
  <2>8. QED BY <2>5, <2>6, <2>7
<1>7. ASSUME NEW c \in Calls, NEW k \in 1..Len(raw[c]), FetchFails(c, k)
      PROVE  IInv'
  <2>1. metadata'[c] \in Seq({"fetching", "document", "standIn"})
        /\ Len(metadata'[c]) = Len(metadata[c])
    BY <1>7 DEF FetchFails, TypeOK
  <2>2. \A d \in Calls : \A i \in 1..Len(raw[d]) :
          metadata'[d][i] = IF d = c /\ i = k THEN "standIn" ELSE metadata[d][i]
    BY <1>7 DEF FetchFails, TypeOK
  <2>3. \A d \in Calls \ {c} : metadata'[d] = metadata[d]
    BY <1>7 DEF FetchFails, TypeOK
  <2>4. TypeOK'
    BY <1>7, <2>1, <2>3 DEF FetchFails, TypeOK
  <2>5. ShownKept' /\ PublicShown'
    BY <1>7 DEF FetchFails, ShownKept, PublicShown
  <2>6. ipfsHash(raw[c][k]) \notin public[c]
    BY <1>7 DEF FetchFails, Awaits, OthersNew
  <2>7. DocumentsKept' /\ OthersNew' /\ NothingRead'
    BY <1>7, <2>2, <2>6
       DEF FetchFails, DocumentsKept, OthersNew, NothingRead, ipfsHash
  <2>8. QED BY <2>4, <2>5, <2>7
<1>8. CASE Create
  BY <1>8 DEF Create, TypeOK, ShownKept, PublicShown, DocumentsKept, OthersNew,
              NothingRead, ipfsHash
<1>9. CASE UNCHANGED vars
  BY <1>9 DEF vars, TypeOK, ShownKept, PublicShown, DocumentsKept, OthersNew,
              NothingRead, ipfsHash
<1>10. QED
  BY <1>1, <1>2, <1>3, <1>4, <1>5, <1>6, <1>7, <1>8, <1>9 DEF Next

LEMMA Inductive == Spec => []IInv
  BY InitInv, NextInv, PTL DEF Spec

\* Every variable keeps its type: in particular each proposal of a page has
\* one outcome for its metadata, as Promise.all pairs them.
THEOREM MetadataTypeCorrect == Spec => []TypeOK
<1>1. IInv => TypeOK BY DEF IInv
<1>2. QED BY <1>1, Inductive, PTL

\* What one page has shown, every later one shows: getProposalMetadata never
\* answers with its stand-in for a document that was returned to anyone
\* before the call began.
THEOREM ShownDocumentsStay == Spec => []ShownStaysShown
<1>1. IInv => ShownStaysShown BY DEF IInv, OthersNew, ShownStaysShown
<1>2. QED BY <1>1, Inductive, PTL

-----------------------------------------------------------------------------
(* The actions offered for a proposal.                                     *)

(***************************************************************************)
(* A proposal never comes back to a state it has left: every step of the   *)
(* contract leads to a state of a higher rank.  So a state that was read   *)
(* and is no longer the proposal's own will not be so again.               *)
(***************************************************************************)
Rank(s) == CASE s = "Pending" -> 0
             [] s = "Active" -> 1
             [] s \in {"Failed", "Succeeded"} -> 2
             [] s = "Queued" -> 3
             [] s \in {"Executed", "Expired"} -> 4
             [] s = "Canceled" -> 5

Old(s, p) == status[p] = s \/ Rank(s) < Rank(status[p])

StatesOld == \A c \in Calls : \A i \in 1..Len(raw[c]) : Old(states[c][i], raw[c][i])

\* What is offered for a state.
Fits(kind, s) ==
  CASE kind = "cancel" -> s \notin Final
    [] kind = "queue" -> s = "Succeeded"
    [] kind = "execute" -> s = "Queued"
    [] kind \in Votes -> s \in {"Pending", "Active"}

ChosenFits ==
  (task # NoTask /\ task.kind # "create") =>
    Old(task.shown, task.proposalId) /\ Fits(task.kind, task.shown)

\* Creating a proposal works while there is room for it, and is no vote.
CreateFits ==
  (task # NoTask /\ task.kind = "create") =>
    /\ task.stage \in {"built", "estimated", "done"}
    /\ task.stage # "done" => proposalsCount < Len(HashOf)

\* The user has asked to sign just the vote that is sent.
Meant(t) == t.asked = Sent(t.proposalId, t.support)

\* The message says what it was asked for, a vote of his own needs none, and what
\* was shown is what will count.
VotesTrue ==
  (task # NoTask /\ task.kind \in Votes) =>
    /\ task.signs = task.asked
    /\ task.kind = "submitVote" => Meant(task)
    /\ task.stage # "asking" => task.early \/ task.power = PowerAt[task.proposalId]
    /\ task.stage = "done" => IF Meant(task)
                              THEN /\ task.proposalId \in voted
                                   /\ task.counted = PowerAt[task.proposalId]
                              ELSE task.counted = -1

CountedWhenDone ==
  (task # NoTask /\ task.counted # -1) => task.stage = "done" /\ task.kind \in Votes

GovInv ==
  /\ IInv /\ GovTypeOK /\ StatesOld /\ ChosenFits /\ CreateFits /\ VotesTrue
  /\ CountedWhenDone /\ OfferedActionsWork

-----------------------------------------------------------------------------
\* The index a read returns stands for the state the proposal is in: the enum
\* of the library lists the states in the contract's order.
LEMMA ParsedIsStatus ==
  ASSUME NEW p \in Proposals, status \in [Proposals -> States]
  PROVE  parseState(p) = status[p] /\ parseState(p) \in States
<1>1. status[p] \in States
  OBVIOUS
<1>2. \E i \in 1..8 : ContractStates[i] = status[p]
  BY <1>1 DEF States
<1>3. Index(status[p]) \in 1..8 /\ ContractStates[Index(status[p])] = status[p]
  BY <1>2 DEF Index
<1>4. ProposalState = ContractStates
  BY DEF ProposalState, ContractStates
<1> QED BY <1>1, <1>3, <1>4 DEF parseState

LEMMA StatesAre ==
  States = {"Pending", "Canceled", "Active", "Failed", "Succeeded", "Queued",
            "Expired", "Executed"}
<1>1. 1..8 = {1, 2, 3, 4, 5, 6, 7, 8}
  OBVIOUS
<1>2. States = {ContractStates[i] : i \in {1, 2, 3, 4, 5, 6, 7, 8}}
  BY <1>1 DEF States
<1> QED BY <1>2 DEF ContractStates

LEMMA StepRises ==
  ASSUME NEW s \in States, NEW u \in States, <<s, u>> \in Steps
  PROVE  Rank(s) < Rank(u)
BY StatesAre DEF Steps, Rank, Final

LEMMA RankIsNat == \A s \in States : Rank(s) \in Nat
BY StatesAre DEF Rank

\* Every id of a proposal is accepted by the validators.
LEMMA IdsAccepted == \A p \in Proposals : Built(p) = "built"
BY DEF Built, IdAccepted, Proposals

LEMMA GovInitInv == GovInit => GovInv
<1> SUFFICES ASSUME GovInit PROVE GovInv
  OBVIOUS
<1>1. IInv
  BY InitInv DEF GovInit
<1>2. GovTypeOK
  BY <1>1, StatesAre DEF GovInit, GovTypeOK, IInv, Init
<1> QED
  BY <1>1, <1>2 DEF GovInit, GovInv, Init, StatesOld, ChosenFits, CreateFits, VotesTrue,
                    CountedWhenDone, OfferedActionsWork

-----------------------------------------------------------------------------
\* The parts of the invariant that are about the task.
TaskInv == /\ ChosenFits /\ CreateFits /\ VotesTrue /\ CountedWhenDone
           /\ OfferedActionsWork

\* A step of the reads leaves the proposals and the task alone; what it reads
\* is the proposals' present state.
LEMMA ReadingStep ==
  ASSUME GovInv, Reading
  PROVE  GovInv'
<1> USE DEF GovInv
<1>1. status' = status /\ voted' = voted /\ task' = task /\ proposalsCount' = proposalsCount
  BY DEF Reading, GovBegin, GovAnswer, GovNextCall, Begin, Answer, NextCall, Reject,
         Return, Fetched, FetchFails, lifeVars
<1>2. [Next]_vars
  BY DEF Reading, GovBegin, GovAnswer, GovNextCall, Next
<1>3. IInv'
  BY <1>2, NextInv
<1>4. TaskInv'
  BY <1>1 DEF TaskInv, ChosenFits, CreateFits, VotesTrue, CountedWhenDone,
              OfferedActionsWork, Old
<1>5. ASSUME NEW c \in Calls, GovAnswer(c)
      PROVE  GovTypeOK' /\ StatesOld'
  <2> DEFINE answer == raw'[c]
  <2>1. answer \in Seq(Proposals) /\ \A d \in Calls \ {c} : raw'[d] = raw[d]
    BY <1>3, <1>5 DEF GovAnswer, Answer, IInv, TypeOK
  <2> HIDE DEF answer
  <2>2. states'[c] = [i \in 1..Len(answer) |-> parseState(answer[i])]
        /\ \A d \in Calls \ {c} : states'[d] = states[d]
    BY <1>5 DEF GovAnswer, GovTypeOK, answer
  <2>3. \A i \in 1..Len(answer) : answer[i] \in Proposals
    BY <2>1
  <2>4. \A i \in 1..Len(answer) : /\ parseState(answer[i]) \in States
                                 /\ parseState(answer[i]) = status[answer[i]]
    BY <2>3, ParsedIsStatus DEF GovTypeOK
  <2>5. states'[c] \in Seq(States) /\ Len(states'[c]) = Len(answer)
    BY <2>1, <2>2, <2>4
  <2>6. GovTypeOK'
    BY <1>1, <1>3, <1>5, <2>1, <2>2, <2>5 DEF GovTypeOK, GovAnswer, IInv, answer
  <2>7. StatesOld'
    BY <1>1, <2>1, <2>2, <2>4 DEF StatesOld, Old, answer
  <2> QED BY <2>6, <2>7
<1>6. ASSUME NEW c \in Calls, GovNextCall(c)
      PROVE  GovTypeOK' /\ StatesOld'
  <2>1. /\ raw'[c] = << >> /\ states'[c] = << >>
        /\ \A d \in Calls \ {c} : raw'[d] = raw[d] /\ states'[d] = states[d]
    BY <1>6 DEF GovNextCall, NextCall, IInv, TypeOK, GovTypeOK
  <2>2. GovTypeOK'
    BY <1>1, <1>3, <1>6, <2>1 DEF GovTypeOK, GovNextCall, IInv
  <2>3. StatesOld'
    BY <1>1, <2>1 DEF StatesOld, Old
  <2> QED BY <2>2, <2>3
<1>7. ASSUME states' = states, raw' = raw PROVE GovTypeOK' /\ StatesOld'
  <2>1. GovTypeOK'
    BY <1>1, <1>3, <1>7 DEF GovTypeOK, IInv
  <2>2. StatesOld'
    BY <1>1, <1>7 DEF StatesOld, Old
  <2> QED BY <2>1, <2>2
<1>8. GovTypeOK' /\ StatesOld'
  BY <1>5, <1>6, <1>7
     DEF Reading, GovBegin, Begin, Reject, Return, Fetched, FetchFails, lifeVars
<1> QED BY <1>3, <1>4, <1>8 DEF TaskInv

\* The page is left for a task: every read is over, and nothing of it is kept.
LEMMA ChooseStep ==
  ASSUME GovInv, NEW kind \in Kinds \ {"create"}, NEW c \in Calls,
         NEW i \in 1..Len(raw[c]), NEW support \in BOOLEAN,
         Choose(kind, c, i, support), Fits(kind, states[c][i])
  PROVE  GovInv'
<1> USE DEF GovInv
<1>1. raw[c][i] \in Proposals /\ states[c][i] \in States
  BY DEF GovTypeOK, TypeOK
<1>2. task' \in Task /\ task'.kind = kind /\ task'.counted = -1
      /\ task'.stage \in {"asking", "built"} /\ (kind \in Votes => task'.stage = "asking")
      /\ task'.shown = states[c][i] /\ task'.proposalId = raw[c][i]
      /\ task'.asked = Sent(task'.proposalId, task'.support) /\ task'.signs = task'.asked
  BY <1>1, IdsAccepted DEF Choose, Task, Stages, Message, Sent
<1>3. status' = status /\ voted' = voted
  BY DEF Choose
<1>4. IInv'
  BY DEF Choose, IInv, TypeOK, ShownKept, PublicShown, DocumentsKept, OthersNew,
         NothingRead
<1>5. GovTypeOK'
  BY <1>2, <1>3, <1>4 DEF Choose, GovTypeOK, IInv
<1>6. StatesOld'
  BY DEF Choose, StatesOld
<1>7. ChosenFits'
  BY <1>2, <1>3 DEF ChosenFits, StatesOld, Old
<1>8. (CreateFits /\ VotesTrue /\ CountedWhenDone /\ OfferedActionsWork)'
  BY <1>2 DEF CreateFits, VotesTrue, Meant, CountedWhenDone, OfferedActionsWork
<1> QED BY <1>4, <1>5, <1>6, <1>7, <1>8

\* What the user does to his task leaves the pages and the proposals alone.
LEMMA TaskAloneStep ==
  ASSUME GovInv, UNCHANGED <<vars, status, states, voted>>,
         task' = NoTask \/ task' \in Task, TaskInv'
  PROVE  GovInv'
<1>1. IInv'
  BY NextInv DEF GovInv
<1>2. GovTypeOK'
  BY <1>1 DEF GovInv, GovTypeOK, IInv, vars
<1>3. StatesOld'
  BY DEF GovInv, StatesOld, Old, vars
<1> QED BY <1>1, <1>2, <1>3 DEF GovInv, TaskInv

LEMMA PowerStep ==
  ASSUME GovInv, NEW power \in Powers, NEW asked \in Message, PowerArrives(power, asked)
  PROVE  GovInv'
<1>1. task \in Task /\ task # NoTask /\ task.stage = "asking"
  BY DEF PowerArrives, GovInv, GovTypeOK
<1>2. task' = [task EXCEPT !.power = power,
                           !.early = status[task.proposalId] = "Pending",
                           !.asked = asked, !.signs = asked, !.stage = "built"]
  <2>1. signVoting(asked.id, asked.support) = asked
    BY DEF signVoting, Message
  <2> QED BY <1>1, <2>1, IdsAccepted DEF PowerArrives, Task
<1>3. task' \in Task
  BY <1>1, <1>2 DEF Task, Stages
<1>4. task.kind # "create" /\ task.counted = -1
  BY <1>1 DEF GovInv, CreateFits, CountedWhenDone
<1>5. /\ task'.kind = task.kind /\ task'.counted = -1 /\ task'.shown = task.shown
      /\ task'.proposalId = task.proposalId /\ task'.support = task.support
      /\ task'.stage = "built" /\ task'.asked = asked /\ task'.signs = asked
      /\ task'.power = power /\ task'.early = (status[task.proposalId] = "Pending")
  BY <1>1, <1>2, <1>4 DEF Task
<1>6. task'.early \/ task'.power = PowerAt[task'.proposalId]
  BY <1>5 DEF PowerArrives, getVotingPowerAt
<1>7. UNCHANGED <<vars, status, states, voted>>
  BY DEF PowerArrives
<1>8. ChosenFits'
  BY <1>1, <1>4, <1>5, <1>7 DEF GovInv, ChosenFits, Old
<1>9. (CreateFits /\ VotesTrue /\ CountedWhenDone /\ OfferedActionsWork)'
  <2>1. task.kind = "submitVote" => asked = Sent(task.proposalId, task.support)
    BY <1>1 DEF PowerArrives, GovInv, VotesTrue, Meant, Votes
  <2> QED BY <1>4, <1>5, <1>6, <2>1
          DEF CreateFits, VotesTrue, Meant, CountedWhenDone, OfferedActionsWork
<1> QED BY <1>3, <1>7, <1>8, <1>9, TaskAloneStep DEF TaskInv

LEMMA CreateStep ==
  ASSUME GovInv, create
  PROVE  GovInv'
<1>1. task'.kind = "create" /\ task'.stage = "built" /\ task'.counted = -1
  BY DEF create
<1>2. proposalsCount \in Proposals /\ proposalsCount' = proposalsCount
  BY DEF create, GovInv, IInv, TypeOK, Proposals, vars
<1>3. task' \in Task
  BY <1>2, StatesAre DEF create, Task, Kinds, Stages, Message, Sent
<1>4. TaskInv'
  BY <1>1, <1>2 DEF create, TaskInv, ChosenFits, CreateFits, VotesTrue, Votes,
                    CountedWhenDone, OfferedActionsWork
<1> QED BY <1>3, <1>4, TaskAloneStep DEF create

\* A refusal has its reason: the state the action was offered for has gone.
LEMMA RefusedFor ==
  ASSUME task \in Task, task.kind # "create", status \in [Proposals -> States],
         Fits(task.kind, task.shown), ~WouldSucceed(task)
  PROVE  \/ status[task.proposalId] # task.shown
         \/ task.kind \in Votes /\ (task.proposalId \in voted \/ task.shown = "Pending")
<1>1. task.kind \in {"cancel", "queue", "execute", "submitVote", "submitVoteBySignature"}
  BY DEF Task, Kinds, Votes
<1> QED BY <1>1 DEF WouldSucceed, Fits, Votes, Final

LEMMA EstimateStep ==
  ASSUME GovInv, Estimate
  PROVE  GovInv'
<1>1. task \in Task /\ task # NoTask /\ task.stage = "built" /\ task.kind \in Kinds
  BY DEF Estimate, GovInv, GovTypeOK, Task
<1> DEFINE next == IF WouldSucceed(task) THEN "estimated" ELSE "refused"
<1>2. task' = [task EXCEPT !.stage = next]
  BY DEF Estimate
<1>3. next \in {"estimated", "refused"}
  OBVIOUS
<1> HIDE DEF next
<1>4. task' \in Task
  BY <1>1, <1>2, <1>3 DEF Task, Stages
<1>5. /\ task'.kind = task.kind /\ task'.counted = task.counted /\ task'.shown = task.shown
      /\ task'.proposalId = task.proposalId /\ task'.support = task.support
      /\ task'.stage = next /\ task'.asked = task.asked /\ task'.signs = task.signs
      /\ task'.power = task.power /\ task'.early = task.early
  BY <1>1, <1>2 DEF Task
<1>6. UNCHANGED <<vars, status, states, voted>>
  BY DEF Estimate
<1>7. task.kind = "create" => next = "estimated"
  BY DEF next, WouldSucceed, Votes
<1>8. CreateFits' /\ ChosenFits'
  BY <1>1, <1>5, <1>6, <1>7 DEF GovInv, CreateFits, ChosenFits, Old, vars
<1>9. VotesTrue' /\ CountedWhenDone'
  BY <1>1, <1>3, <1>5, <1>6 DEF GovInv, VotesTrue, Meant, CountedWhenDone
<1>10. OfferedActionsWork'
  <2>1. CASE WouldSucceed(task)
    BY <1>5, <2>1 DEF next, OfferedActionsWork
  <2>2. CASE ~WouldSucceed(task)
    <3>1. task.kind # "create"
      BY <1>7, <2>2 DEF next
    <3> QED BY <1>1, <1>5, <1>6, <2>2, <3>1, RefusedFor
            DEF GovInv, GovTypeOK, ChosenFits, OfferedActionsWork
  <2> QED BY <2>1, <2>2
<1> QED BY <1>4, <1>6, <1>8, <1>9, <1>10, TaskAloneStep DEF TaskInv

LEMMA FinishStep ==
  ASSUME GovInv, Finish
  PROVE  GovInv'
<1>1. TaskInv'
  BY DEF Finish, TaskInv, ChosenFits, CreateFits, VotesTrue, CountedWhenDone,
         OfferedActionsWork
<1> QED BY <1>1, TaskAloneStep DEF Finish

-----------------------------------------------------------------------------
\* What was read of a proposal stays read when the proposal moves on.
LEMMA OldStaysOld ==
  ASSUME NEW s \in States, NEW p \in Proposals, Old(s, p),
         status \in [Proposals -> States], status' \in [Proposals -> States],
         status'[p] = status[p] \/ Rank(status[p]) < Rank(status'[p])
  PROVE  Old(s, p)' /\ (status[p] # s => status'[p] # s)
<1>1. Rank(s) \in Nat /\ Rank(status[p]) \in Nat /\ Rank(status'[p]) \in Nat
  BY RankIsNat
<1> QED BY <1>1 DEF Old

\* What holds of the pages and of the task when proposals only rise.
LEMMA RisingStep ==
  ASSUME GovInv, status' \in [Proposals -> States],
         \A p \in Proposals :
           status'[p] = status[p] \/ Rank(status[p]) < Rank(status'[p]),
         UNCHANGED <<raw, states>>
  PROVE  StatesOld'
<1>1. \A c \in Calls : \A i \in 1..Len(raw[c]) :
        raw[c][i] \in Proposals /\ states[c][i] \in States
  BY DEF GovInv, GovTypeOK, TypeOK
<1>2. \A c \in Calls : \A i \in 1..Len(raw[c]) : Old(states[c][i], raw[c][i])'
  BY <1>1, OldStaysOld DEF GovInv, GovTypeOK, StatesOld, Old
<1> QED BY <1>2 DEF StatesOld, Old

LEMMA MoveOnStep ==
  ASSUME GovInv, NEW p \in Proposals, MoveOn(p)
  PROVE  GovInv'
<1>1. UNCHANGED <<vars, states, voted, task>>
  BY DEF MoveOn
<1>2. PICK s \in States : /\ <<status[p], s>> \in Steps
                          /\ status' = [status EXCEPT ![p] = s]
  BY DEF MoveOn
<1>3. status' \in [Proposals -> States] /\ Rank(status[p]) < Rank(status'[p])
  BY <1>2, StepRises DEF GovInv, GovTypeOK
<1>4. \A q \in Proposals : status'[q] = status[q] \/ Rank(status[q]) < Rank(status'[q])
  BY <1>2, <1>3 DEF GovInv, GovTypeOK
<1>5. IInv'
  BY <1>1, NextInv DEF GovInv
<1>6. GovTypeOK'
  BY <1>1, <1>3, <1>5 DEF GovInv, GovTypeOK, IInv, vars
<1>7. StatesOld'
  BY <1>1, <1>3, <1>4, RisingStep DEF vars
<1>8. ASSUME task # NoTask, task.kind # "create"
      PROVE  /\ Old(task.shown, task.proposalId)'
             /\ status[task.proposalId] # task.shown => status'[task.proposalId] # task.shown
  <2>1. task.shown \in States /\ task.proposalId \in Proposals
    BY <1>8 DEF GovInv, GovTypeOK, Task
  <2>2. Old(task.shown, task.proposalId)
    BY <1>8 DEF GovInv, ChosenFits
  <2> QED BY <1>1, <1>3, <1>4, <2>1, <2>2, OldStaysOld DEF GovInv, GovTypeOK, Old
<1>9. ChosenFits'
  BY <1>1, <1>8 DEF GovInv, ChosenFits, Old
<1>10. CreateFits' /\ VotesTrue' /\ CountedWhenDone'
  BY <1>1 DEF GovInv, CreateFits, VotesTrue, CountedWhenDone, vars
<1>11. OfferedActionsWork'
  BY <1>1, <1>8 DEF GovInv, CreateFits, OfferedActionsWork
<1> QED BY <1>5, <1>6, <1>7, <1>9, <1>10, <1>11 DEF GovInv

LEMMA OthersCreateStep ==
  ASSUME GovInv, OthersCreate
  PROVE  GovInv'
<1>1. IInv'
  BY NextInv DEF GovInv, OthersCreate, Next
<1>2. UNCHANGED <<status, states, voted, task, raw>>
  BY DEF OthersCreate, Create, lifeVars
<1>3. GovTypeOK' /\ StatesOld'
  BY <1>1, <1>2 DEF GovInv, GovTypeOK, IInv, StatesOld, Old
<1>4. TaskInv'
  BY <1>2 DEF OthersCreate, GovInv, TaskInv, ChosenFits, Old, CreateFits, VotesTrue,
              CountedWhenDone, OfferedActionsWork
<1> QED BY <1>1, <1>3, <1>4 DEF GovInv, TaskInv

\* The user's own transactions also make a proposal rise.
LEMMA AfterRises ==
  ASSUME task \in Task, task.kind \in {"cancel", "queue", "execute"},
         status \in [Proposals -> States], WouldSucceed(task)
  PROVE  After(task.kind) \in States
         /\ Rank(status[task.proposalId]) < Rank(After(task.kind))
<1>1. status[task.proposalId] \in States
  BY DEF Task
<1>2. CASE task.kind = "cancel"
  <2>1. status[task.proposalId] \notin Final
    BY <1>2 DEF WouldSucceed, Votes
  <2> QED BY <1>1, <1>2, <2>1, StatesAre DEF After, Rank, Final
<1>3. CASE task.kind = "queue"
  <2>1. status[task.proposalId] = "Succeeded"
    BY <1>3 DEF WouldSucceed, Votes
  <2> QED BY <1>3, <2>1, StatesAre DEF After, Rank
<1>4. CASE task.kind = "execute"
  <2>1. status[task.proposalId] = "Queued"
    BY <1>4 DEF WouldSucceed, Votes
  <2> QED BY <1>4, <2>1, StatesAre DEF After, Rank
<1> QED BY <1>2, <1>3, <1>4

LEMMA MineStep ==
  ASSUME GovInv, Mine
  PROVE  GovInv'
<1>1. task \in Task /\ task # NoTask /\ task.stage = "estimated" /\ task.kind \in Kinds
      /\ task.proposalId \in Proposals /\ task.counted = -1
  BY DEF Mine, GovInv, GovTypeOK, Task, CountedWhenDone
<1>2. /\ UNCHANGED <<configured, memorize, ask, pc, raw, metadata, shown, public, states>>
      /\ proposalsCount' = proposalsCount + (IF task.kind = "create" THEN 1 ELSE 0)
  BY DEF Mine
<1> DEFINE done == WouldSucceed(task)
           mine == task.kind \in Votes /\ SignedByUser(task)
           counted == IF done /\ mine THEN PowerAt[task.proposalId] ELSE -1
           stage == IF done THEN "done" ELSE "reverted"
<1>3. task' = [task EXCEPT !.stage = stage, !.counted = counted]
  BY <1>1 DEF Mine
<1>4. voted' = IF done /\ mine THEN voted \cup {task.proposalId} ELSE voted
  BY DEF Mine
<1>5. PowerAt[task.proposalId] \in Powers /\ PowerAt[task.proposalId] # -1
      /\ counted \in Powers \cup {-1} /\ stage \in {"done", "reverted"}
  BY <1>1, GovernanceAssumption
<1>6. task.kind = "create" => done
  BY DEF WouldSucceed, Votes
<1>7. task.kind \in Votes => (mine <=> Meant(task))
  BY <1>1 DEF GovInv, VotesTrue, SignedByUser, Meant, Votes
<1>8. status' \in [Proposals -> States]
      /\ \A p \in Proposals :
           status'[p] = status[p] \/ Rank(status[p]) < Rank(status'[p])
  <2>1. CASE done /\ task.kind \notin Votes \cup {"create"}
    <3>1. task.kind \in {"cancel", "queue", "execute"}
      BY <1>1, <2>1 DEF Kinds
    <3>2. After(task.kind) \in States
          /\ Rank(status[task.proposalId]) < Rank(After(task.kind))
      BY <1>1, <2>1, <3>1, AfterRises DEF GovInv, GovTypeOK
    <3>3. status' = [status EXCEPT ![task.proposalId] = After(task.kind)]
      BY <2>1 DEF Mine
    <3> QED BY <1>1, <3>2, <3>3 DEF GovInv, GovTypeOK
  <2>2. CASE ~(done /\ task.kind \notin Votes \cup {"create"})
    <3>1. status' = status
      BY <2>2 DEF Mine
    <3> QED BY <3>1 DEF GovInv, GovTypeOK
  <2> QED BY <2>1, <2>2
<1> HIDE DEF counted, stage
<1>9. /\ task' \in Task /\ task'.kind = task.kind /\ task'.shown = task.shown
      /\ task'.proposalId = task.proposalId /\ task'.support = task.support
      /\ task'.asked = task.asked /\ task'.signs = task.signs
      /\ task'.power = task.power /\ task'.early = task.early
      /\ task'.stage = stage /\ task'.counted = counted
  BY <1>1, <1>3, <1>5 DEF Task, Stages
<1>10. IInv'
  <2>1. proposalsCount' \in 0..Len(HashOf)
    BY <1>1, <1>2 DEF GovInv, IInv, TypeOK, CreateFits
  <2> QED BY <1>2, <2>1 DEF GovInv, IInv, TypeOK, ShownKept, PublicShown, DocumentsKept,
                            OthersNew, NothingRead, ipfsHash
<1>11. GovTypeOK'
  BY <1>1, <1>2, <1>4, <1>8, <1>9, <1>10 DEF GovInv, GovTypeOK, IInv
<1>12. StatesOld'
  BY <1>2, <1>8, RisingStep
<1>13. task.kind # "create" =>
         /\ Old(task.shown, task.proposalId)' /\ Fits(task.kind, task.shown)
         /\ status[task.proposalId] # task.shown => status'[task.proposalId] # task.shown
  <2>1. task.shown \in States
    BY <1>1 DEF Task
  <2> QED BY <1>1, <1>3, <1>8, <2>1, <1>9, OldStaysOld DEF GovInv, GovTypeOK, ChosenFits, Old
<1>14. ChosenFits'
  BY <1>9, <1>13 DEF ChosenFits, Old
<1>15. CreateFits' /\ VotesTrue' /\ CountedWhenDone'
  BY <1>1, <1>4, <1>5, <1>6, <1>7, <1>9
     DEF GovInv, CreateFits, VotesTrue, Meant, CountedWhenDone, counted, stage, Votes
<1>16. OfferedActionsWork'
  <2>1. CASE done
    BY <1>9, <2>1 DEF OfferedActionsWork, stage
  <2>2. CASE ~done
    <3>1. status' = status /\ voted' = voted
      BY <1>4, <2>2 DEF Mine
    <3> QED BY <1>1, <1>6, <1>9, <1>13, <2>2, <3>1, RefusedFor
            DEF GovInv, GovTypeOK, OfferedActionsWork
  <2> QED BY <2>1, <2>2
<1> QED BY <1>10, <1>11, <1>12, <1>14, <1>15, <1>16 DEF GovInv

\* Every step keeps the invariant.
LEMMA GovNextInv == GovInv /\ [GovNext]_allVars => GovInv'
<1> SUFFICES ASSUME GovInv, [GovNext]_allVars PROVE GovInv'
  OBVIOUS
<1>1. CASE Reading
  BY <1>1, ReadingStep
<1>2. ASSUME NEW c \in Calls, NEW i \in 1..Len(raw[c]),
             \/ cancel(c, i) \/ queue(c, i) \/ execute(c, i)
             \/ \E support \in BOOLEAN :
                  submitVote(c, i, support) \/ submitVoteBySignature(c, i, support)
      PROVE  GovInv'
  <2>1. PICK kind \in Kinds \ {"create"}, support \in BOOLEAN :
          Choose(kind, c, i, support) /\ Fits(kind, states[c][i])
    BY <1>2 DEF cancel, queue, execute, submitVote, submitVoteBySignature, Kinds, Votes, Fits
  <2> QED BY <2>1, ChooseStep
<1>3. ASSUME NEW power \in Powers, NEW asked \in Message, PowerArrives(power, asked)
      PROVE  GovInv'
  BY <1>3, PowerStep
<1>4. CASE create
  BY <1>4, CreateStep
<1>5. CASE Estimate
  BY <1>5, EstimateStep
<1>6. CASE Mine
  BY <1>6, MineStep
<1>7. CASE Finish
  BY <1>7, FinishStep
<1>8. CASE OthersCreate
  BY <1>8, OthersCreateStep
<1>9. ASSUME NEW p \in Proposals, MoveOn(p) PROVE GovInv'
  BY <1>9, MoveOnStep
<1>10. CASE UNCHANGED allVars
  <2>1. UNCHANGED <<vars, status, states, voted, task>>
    BY <1>10 DEF allVars, lifeVars
  <2>2. TaskInv'
    BY <2>1 DEF GovInv, TaskInv, ChosenFits, Old, CreateFits, VotesTrue, CountedWhenDone,
                OfferedActionsWork, vars
  <2>3. task' = NoTask \/ task' \in Task
    BY <2>1 DEF GovInv, GovTypeOK
  <2> QED BY <2>1, <2>2, <2>3, TaskAloneStep
<1> QED BY <1>1, <1>2, <1>3, <1>4, <1>5, <1>6, <1>7, <1>8, <1>9, <1>10
        DEF GovNext, Governing

LEMMA GovInductive == GovSpec => []GovInv
  BY GovInitInv, GovNextInv, PTL DEF GovSpec

\* Every variable keeps its type; in particular each proposal of a page has a
\* state of the enum and one outcome for its metadata.
THEOREM GovernanceTypeCorrect == GovSpec => []GovTypeOK
<1>1. GovInv => GovTypeOK BY DEF GovInv
<1> QED BY <1>1, GovInductive, PTL

\* A document that was shown stays shown, also with a user who creates
\* proposals and leaves the pages to act on them (getProposalMetadata).
THEOREM DocumentsStayShown == GovSpec => []ShownStaysShown
<1>1. GovInv => ShownStaysShown BY DEF GovInv, IInv, OthersNew, ShownStaysShown
<1> QED BY <1>1, GovInductive, PTL

\* What the service builds for the state a page has shown works while the
\* proposal is in that state: no validator refuses the id, and the enum names
\* the state the contract is in.
THEOREM OffersWork == GovSpec => []OfferedActionsWork
<1>1. GovInv => OfferedActionsWork BY DEF GovInv
<1> QED BY <1>1, GovInductive, PTL

\* The power getVotingPowerAt has shown is what the vote counts with, unless
\* it was read before the proposal's startBlock.
THEOREM PowerCountsAsShown == GovSpec => []VotesCountAsShown
<1>1. GovInv => VotesCountAsShown
  BY DEF GovInv, CountedWhenDone, VotesTrue, VotesCountAsShown
<1> QED BY <1>1, GovInductive, PTL

\* What signVoting has the user sign is what he asked it for: a mined vote is in
\* his name exactly if that is what submitVoteBySignature sends.
THEOREM SignaturesCount == GovSpec => []SignedVotesCount
<1>1. GovInv => SignedVotesCount
  <2> SUFFICES ASSUME GovInv, task # NoTask, task.kind \in Votes, task.stage = "done"
               PROVE  /\ Meant(task) <=> task.counted # -1
                      /\ Meant(task) => task.proposalId \in voted
    BY DEF SignedVotesCount, Meant
  <2>1. IF Meant(task) THEN /\ task.proposalId \in voted
                            /\ task.counted = PowerAt[task.proposalId]
        ELSE task.counted = -1
    BY DEF GovInv, VotesTrue
  <2>2. PowerAt[task.proposalId] # -1
    BY GovernanceAssumption DEF GovInv, GovTypeOK, Task
  <2> QED BY <2>1, <2>2
<1> QED BY <1>1, GovInductive, PTL
=============================================================================
