-------------------------- MODULE ProposalMetadata --------------------------
(***************************************************************************)
(* Reading proposals of the governance contract.  getProposals and         *)
(* getProposal await one read of the helper contract and then, for each    *)
(* proposal, its metadata document on IPFS; the documents that arrived     *)
(* well-formed are kept in MEMORIZE, shared by all calls.  A gateway that  *)
(* is down or sends something else is answered with a stand-in text.       *)
(***************************************************************************)
EXTENDS Integers, Sequences

CONSTANTS
  Calls,
  Hashes,        \* the ipfsHash fields of proposals
  WellFormed,    \* those of documents with all three fields
  HashOf,        \* of the proposals, in the order they are created
  Pages          \* the skip and limit arguments of the application

Proposals == 0..(Len(HashOf) - 1)

ASSUME ProposalAssumption ==
  /\ WellFormed \subseteq Hashes
  /\ HashOf \in Seq(Hashes)
  /\ Pages \subseteq [skip : Nat, limit : Nat] /\ Pages # {}

VARIABLES
  configured,        \* the network has the governance addresses
  memorize,          \* the documents in MEMORIZE
  proposalsCount,    \* of the governance contract
  ask,               \* Pages, or the proposalId of getProposal
  pc,                \* idle, reading, fetching, done, failed
  raw,               \* the proposals the helper answered with
  metadata,          \* for each: fetching, document, standIn
  shown,             \* history: the documents in the pages returned so far
  public             \* history: shown when the call began

vars == <<configured, memorize, proposalsCount, ask, pc, raw, metadata,
          shown, public>>

Asks == Pages \cup [proposalId : Proposals]

TypeOK ==
  /\ configured \in BOOLEAN
  /\ memorize \subseteq Hashes
  /\ proposalsCount \in 0..Len(HashOf)
  /\ ask \in [Calls -> Asks]
  /\ pc \in [Calls -> {"idle", "reading", "fetching", "done", "failed"}]
  /\ raw \in [Calls -> Seq(Proposals)]
  /\ metadata \in [Calls -> Seq({"fetching", "document", "standIn"})]
  /\ \A c \in Calls : Len(metadata[c]) = Len(raw[c])
  /\ shown \subseteq Hashes
  /\ public \in [Calls -> SUBSET Hashes]

Init ==
  /\ configured \in BOOLEAN
  /\ memorize = {}
  /\ proposalsCount \in 0..Len(HashOf)
  /\ ask \in [Calls -> Asks]
  /\ pc = [c \in Calls |-> "idle"]
  /\ raw = [c \in Calls |-> << >>]
  /\ metadata = [c \in Calls |-> << >>]
  /\ shown = {}
  /\ public = [c \in Calls |-> {}]

-----------------------------------------------------------------------------
(* The helper contract: a page counts back from the newest proposal. *)

Smaller(m, n) == IF m < n THEN m ELSE n

Reverts(a) ==
  \/ "skip" \in DOMAIN a /\ a.skip > proposalsCount
  \/ "proposalId" \in DOMAIN a /\ a.proposalId >= proposalsCount

HelperAnswer(a) ==
  IF "skip" \in DOMAIN a
  THEN [i \in 1..Smaller(a.limit, proposalsCount - a.skip) |->
          proposalsCount - a.skip - i]
  ELSE <<a.proposalId>>

-----------------------------------------------------------------------------
(* Steps of a call. *)

ipfsHash(p) == HashOf[p + 1]

\* GovValidator returns [] when an address is missing.
Begin(c) ==
  /\ pc[c] = "idle"
  /\ pc' = [pc EXCEPT ![c] = IF configured THEN "reading" ELSE "done"]
  /\ public' = [public EXCEPT ![c] = shown]
  /\ UNCHANGED <<configured, memorize, proposalsCount, ask, raw, metadata, shown>>

\* getProposalMetadata up to its await.
FirstLook(p) == IF ipfsHash(p) \in memorize THEN "document" ELSE "fetching"

\* Mutant: proposals whose document is kept are not mapped.
AnswerUnkept(c) ==
  /\ pc[c] = "reading" /\ ~Reverts(ask[c])
  /\ raw' = [raw EXCEPT ![c] = HelperAnswer(ask[c])]
  /\ metadata' = [metadata EXCEPT ![c] =
       SelectSeq([i \in 1..Len(raw'[c]) |-> FirstLook(raw'[c][i])],
                 LAMBDA look : look = "fetching")]
  /\ pc' = [pc EXCEPT ![c] = "fetching"]
  /\ UNCHANGED <<configured, memorize, proposalsCount, ask, shown, public>>

\* The helper's answer; every proposal is mapped before anything else runs.
Answer(c) ==
  /\ pc[c] = "reading" /\ ~Reverts(ask[c])
  /\ raw' = [raw EXCEPT ![c] = HelperAnswer(ask[c])]
  /\ metadata' = [metadata EXCEPT ![c] =
       [i \in 1..Len(raw'[c]) |-> FirstLook(raw'[c][i])]]
  /\ pc' = [pc EXCEPT ![c] = "fetching"]
  /\ UNCHANGED <<configured, memorize, proposalsCount, ask, shown, public>>

\* The provider rejects the read, or the helper reverts.
Reject(c) ==
  /\ pc[c] = "reading"
  /\ pc' = [pc EXCEPT ![c] = "failed"]
  /\ UNCHANGED <<configured, memorize, proposalsCount, ask, raw, metadata,
                 shown, public>>

Awaits(c, i) ==
  pc[c] = "fetching" /\ i \in 1..Len(raw[c]) /\ metadata[c][i] = "fetching"

\* The gateway answers with the document, which is kept if nothing is missing.
Fetched(c, i) ==
  /\ Awaits(c, i) /\ ipfsHash(raw[c][i]) \in WellFormed
  /\ memorize' = memorize \cup {ipfsHash(raw[c][i])}
  /\ metadata' = [metadata EXCEPT ![c][i] = "document"]
  /\ UNCHANGED <<configured, proposalsCount, ask, pc, raw, shown, public>>

\* Mutants: a failure clears the entry; it rejects the promise of the page.
FetchFailsCleared(c, i) ==
  /\ Awaits(c, i)
  /\ memorize' = memorize \ {ipfsHash(raw[c][i])}
  /\ metadata' = [metadata EXCEPT ![c][i] = "standIn"]
  /\ UNCHANGED <<configured, proposalsCount, ask, pc, raw, shown, public>>

FetchFailsThrown(c, i) ==
  /\ Awaits(c, i)
  /\ pc' = [pc EXCEPT ![c] = "failed"]
  /\ UNCHANGED <<configured, memorize, proposalsCount, ask, raw, metadata,
                 shown, public>>

\* It is down, slower than the timeout, or sends something else; the entry
\* that another fetch may have made meanwhile is neither used nor touched.
FetchFails(c, i) ==
  /\ Awaits(c, i)
  /\ metadata' = [metadata EXCEPT ![c][i] = "standIn"]
  /\ UNCHANGED <<configured, memorize, proposalsCount, ask, pc, raw, shown, public>>

Settled(c) == \A i \in 1..Len(raw[c]) : metadata[c][i] # "fetching"

Documents(c) == {i \in 1..Len(raw[c]) : metadata[c][i] = "document"}

\* Promise.all has every proposal.
Return(c) ==
  /\ pc[c] = "fetching" /\ Settled(c)
  /\ pc' = [pc EXCEPT ![c] = "done"]
  /\ shown' = shown \cup {ipfsHash(raw[c][i]) : i \in Documents(c)}
  /\ UNCHANGED <<configured, memorize, proposalsCount, ask, raw, metadata, public>>

NextCall(c) ==
  /\ pc[c] \in {"done", "failed"}
  /\ pc' = [pc EXCEPT ![c] = "idle"]
  /\ \E a \in Asks : ask' = [ask EXCEPT ![c] = a]
  /\ raw' = [raw EXCEPT ![c] = << >>]
  /\ metadata' = [metadata EXCEPT ![c] = << >>]
  /\ public' = [public EXCEPT ![c] = {}]
  /\ UNCHANGED <<configured, memorize, proposalsCount, shown>>

-----------------------------------------------------------------------------
(* The governance contract, used by everyone. *)

Create ==
  /\ proposalsCount < Len(HashOf)
  /\ proposalsCount' = proposalsCount + 1
  /\ UNCHANGED <<configured, memorize, ask, pc, raw, metadata, shown, public>>

Next ==
  \/ \E c \in Calls :
       \/ Begin(c) \/ Answer(c) \/ Reject(c) \/ Return(c) \/ NextCall(c)
       \/ \E i \in 1..Len(raw[c]) : Fetched(c, i) \/ FetchFails(c, i)
  \/ Create

Spec == Init /\ [][Next]_vars

(***************************************************************************)
(* The provider answers or rejects, the gateway answers or its timeout of  *)
(* two seconds passes, and settled continuations run.                      *)
(***************************************************************************)
Fairness ==
  \A c \in Calls :
    /\ WF_vars(Answer(c) \/ Reject(c)) /\ WF_vars(Return(c))
    /\ \A i \in 1..Len(HashOf) : WF_vars(Fetched(c, i) \/ FetchFails(c, i))

FairSpec == Spec /\ Fairness
-----------------------------------------------------------------------------
(* Properties. *)

(***************************************************************************)
(* What one page has shown, every later one shows: a call that begins      *)
(* after a document has been returned to someone never answers with the    *)
(* stand-in for it, whatever the gateway does to the fetches in between.   *)
(***************************************************************************)
ShownStaysShown ==
  \A c \in Calls : \A i \in 1..Len(raw[c]) :
    metadata[c][i] = "standIn" => ipfsHash(raw[c][i]) \notin public[c]

(***************************************************************************)
(* Every call ends, and the gateway never costs the user the page: once    *)
(* the helper has answered, the page is returned, also when the gateway    *)
(* answers nobody and the timeouts put the stand-in for every document.    *)
(***************************************************************************)
PagesArrive ==
  \A c \in Calls : /\ pc[c] = "reading" ~> pc[c] \in {"fetching", "failed"}
                   /\ pc[c] = "fetching" ~> pc[c] = "done"
=============================================================================
