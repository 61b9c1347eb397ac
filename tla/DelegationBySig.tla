-------------------------- MODULE DelegationBySig --------------------------
(***************************************************************************)
(* Delegating the powers of a governance token, by a transaction of one's  *)
(* own (delegate, delegateByType) or by a signature: the application asks  *)
(* getNonce, prepareDelegateSignature makes the message, the user signs    *)
(* it, and delegateBySig, which reads the nonce and resolves the ENS name  *)
(* again, makes the transaction.  Nobody holds the chain still meanwhile.  *)
(***************************************************************************)
EXTENDS Integers

CONSTANTS
  Calls,        \* delegations under way
  Users, Addresses,
  Names,        \* ENS names
  None,         \* what an unregistered name resolves to
  Malformed,    \* neither a name nor an address
  Asks,         \* the delegations users want
  MaxOutside    \* bound on the changes made by others and the reads rejected

Powers == {"voting", "proposition"}

\* powers is both for delegate and delegateBySig, one for the ByType methods.
Ask == [user : Users, delegatee : Names \cup Addresses \cup {Malformed},
        powers : {Powers} \cup {{p} : p \in Powers}, bySig : BOOLEAN]

ASSUME DelegationAssumption ==
  /\ None \notin Addresses /\ Malformed \notin Names \cup Addresses
  /\ Names \cap Addresses = {}
  /\ Asks \subseteq Ask /\ Asks # {}
  /\ MaxOutside \in Nat

VARIABLES
  nonces, delegates,   \* the token contract: _nonces, and who has the powers
  resolves,            \* ENS
  ask, pc,
  nonce,      \* the one in hand: for the message, then for the transaction
  message,    \* what is signed
  tx,         \* what the transaction says
  expired,    \* the expiry of the message has passed
  moved,      \* history: what changed since it was first read
  outside

chainVars == <<nonces, delegates, resolves>>
callVars == <<ask, pc, nonce, message, tx>>
vars == <<chainVars, callVars, expired, moved, outside>>

Content == [delegatee : Addresses, nonce : Nat, powers : SUBSET Powers]
Nothing == [delegatee |-> None, nonce |-> 0, powers |-> {}]

Phases == {"idle", "asksNonce", "hasNonce", "resolvesFirst", "prepared",
           "signed", "readsNonce", "resolves", "built", "sent"}
Ends == {"done", "ineffective", "refused", "reverted", "thrown"}

TypeOK ==
  /\ nonces \in [Users -> Nat]
  /\ delegates \in [Users -> [Powers -> Addresses \cup {None}]]
  /\ resolves \in [Names -> Addresses \cup {None}]
  /\ ask \in [Calls -> Asks]
  /\ pc \in [Calls -> Phases \cup Ends]
  /\ nonce \in [Calls -> Nat]
  /\ message \in [Calls -> Content \cup {Nothing}]
  /\ tx \in [Calls -> Content \cup {Nothing}]
  /\ expired \in [Calls -> BOOLEAN]
  /\ moved \in [Calls -> SUBSET {"nonce", "name"}]
  /\ outside \in 0..MaxOutside

Init ==
  /\ nonces = [u \in Users |-> 0]
  /\ delegates = [u \in Users |-> [p \in Powers |-> None]]
  /\ resolves \in [Names -> Addresses \cup {None}]
  /\ ask \in [Calls -> Asks]
  /\ pc = [c \in Calls |-> "idle"]
  /\ nonce = [c \in Calls |-> 0]
  /\ message = [c \in Calls |-> Nothing]
  /\ tx = [c \in Calls |-> Nothing]
  /\ expired = [c \in Calls |-> FALSE]
  /\ moved = [c \in Calls |-> {}]
  /\ outside = 0

Goes(c, phase) == pc' = [pc EXCEPT ![c] = phase]

-----------------------------------------------------------------------------
(* getDelegateeAddress: a name is resolved, an address is itself. *)

IsName(c) == ask[c].delegatee \in Names

Resolved(c) ==
  IF IsName(c) THEN resolves[ask[c].delegatee] ELSE ask[c].delegatee

\* GovDelegationValidator.
Accepted(c) == ask[c].delegatee # Malformed

\* Mutant: the type of the delegation is dropped.
SaysBoth(c) ==
  [delegatee |-> Resolved(c), nonce |-> nonce[c], powers |-> Powers]

\* The content of a message or of a transaction.
Says(c) ==
  [delegatee |-> Resolved(c), nonce |-> nonce[c], powers |-> ask[c].powers]

-----------------------------------------------------------------------------
(* The message. *)

\* The application starts; only a signature needs the nonce first.
Begin(c) ==
  /\ pc[c] = "idle"
  /\ Goes(c, IF ~Accepted(c) THEN "thrown"
             ELSE IF ask[c].bySig THEN "asksNonce" ELSE "resolves")
  /\ UNCHANGED <<chainVars, ask, nonce, message, tx, expired, moved, outside>>

\* getNonce: the contract answers.
GetNonce(c) ==
  /\ pc[c] = "asksNonce"
  /\ nonce' = [nonce EXCEPT ![c] = nonces[ask[c].user]]
  /\ moved' = [moved EXCEPT ![c] = {}]
  /\ Goes(c, "resolvesFirst")
  /\ UNCHANGED <<chainVars, ask, message, tx, expired, outside>>

\* prepareDelegateSignature, prepareDelegateByTypeSignature.
PrepareDelegateSignature(c) ==
  /\ pc[c] = "resolvesFirst"
  /\ IF Resolved(c) = None
     THEN Goes(c, "thrown") /\ UNCHANGED message
     ELSE message' = [message EXCEPT ![c] = Says(c)] /\ Goes(c, "prepared")
  /\ moved' = [moved EXCEPT ![c] = @ \ {"name"}]
  /\ UNCHANGED <<chainVars, ask, nonce, tx, expired, outside>>

\* The user signs it, and the application calls delegateBySig.
Sign(c) ==
  /\ pc[c] = "prepared"
  /\ Goes(c, "readsNonce")
  /\ UNCHANGED <<chainVars, ask, nonce, message, tx, expired, moved, outside>>

-----------------------------------------------------------------------------
(* The transaction. *)

\* Mutants: the nonce is not read; the one after it is taken.
ReadNonceNot(c) ==
  /\ pc[c] = "readsNonce"
  /\ nonce' = [nonce EXCEPT ![c] = 0]
  /\ Goes(c, "resolves")
  /\ UNCHANGED <<chainVars, ask, message, tx, expired, moved, outside>>

ReadNonceNext(c) ==
  /\ pc[c] = "readsNonce"
  /\ nonce' = [nonce EXCEPT ![c] = nonces[ask[c].user] + 1]
  /\ Goes(c, "resolves")
  /\ UNCHANGED <<chainVars, ask, message, tx, expired, moved, outside>>

\* delegateBySig, delegateByTypeBySig: the nonce is read again.
ReadNonce(c) ==
  /\ pc[c] = "readsNonce"
  /\ nonce' = [nonce EXCEPT ![c] = nonces[ask[c].user]]
  /\ Goes(c, "resolves")
  /\ UNCHANGED <<chainVars, ask, message, tx, expired, moved, outside>>

\* Mutant: a name that resolves to nothing is not noticed.
ResolveUnchecked(c) ==
  /\ pc[c] = "resolves"
  /\ tx' = [tx EXCEPT ![c] = Says(c)] /\ Goes(c, "built")
  /\ moved' = [moved EXCEPT ![c] = IF ask[c].bySig THEN @ ELSE {}]
  /\ UNCHANGED <<chainVars, ask, nonce, message, expired, outside>>

\* The address is resolved, for a signature once more.  An address that
\* was resolved for a transaction of one's own is held from here on.
Resolve(c) ==
  /\ pc[c] = "resolves"
  /\ IF Resolved(c) = None
     THEN Goes(c, "thrown") /\ UNCHANGED tx
     ELSE tx' = [tx EXCEPT ![c] = Says(c)] /\ Goes(c, "built")
  /\ moved' = [moved EXCEPT ![c] = IF ask[c].bySig THEN @ ELSE {}]
  /\ UNCHANGED <<chainVars, ask, nonce, message, expired, outside>>

\* The provider rejects a read, or the name service does.
Reject(c) ==
  /\ pc[c] \in {"asksNonce", "readsNonce"}
       \/ (pc[c] \in {"resolvesFirst", "resolves"} /\ IsName(c))
  /\ outside < MaxOutside /\ outside' = outside + 1
  /\ Goes(c, "thrown")
  /\ UNCHANGED <<chainVars, ask, nonce, message, tx, expired, moved>>

(***************************************************************************)
(* The token contract recovers the signer from the signature and the       *)
(* parameters of the transaction.  When these are not the ones that were   *)
(* signed it recovers some other address, whose nonce is zero.             *)
(***************************************************************************)
RecoversUser(c) == message[c] = tx[c]

Effect(c) ==
  IF ~ask[c].bySig THEN "done"
  ELSE IF expired[c] THEN "reverted"
  ELSE IF RecoversUser(c) /\ tx[c].nonce = nonces[ask[c].user] THEN "done"
  ELSE IF ~RecoversUser(c) /\ tx[c].nonce = 0 THEN "ineffective"
  ELSE "reverted"

\* tx() estimates the gas, and rejects when the transaction would revert.
CallTx(c) ==
  /\ pc[c] = "built"
  /\ Goes(c, IF Effect(c) = "reverted" THEN "refused" ELSE "sent")
  /\ UNCHANGED <<chainVars, ask, nonce, message, tx, expired, moved, outside>>

\* A nonce is spent: the others who read it hold an old one.
SpendNonce(u) ==
  /\ nonces' = [nonces EXCEPT ![u] = @ + 1]
  /\ moved' = [d \in Calls |-> IF ask[d].user = u THEN moved[d] \cup {"nonce"}
                               ELSE moved[d]]

Mine(c) ==
  /\ pc[c] = "sent"
  /\ Goes(c, Effect(c))
  /\ delegates' = IF Effect(c) = "done"
       THEN [delegates EXCEPT ![ask[c].user] =
               [p \in Powers |-> IF p \in tx[c].powers
                                 THEN tx[c].delegatee ELSE @[p]]]
       ELSE delegates
  /\ IF Effect(c) = "done" /\ ask[c].bySig THEN SpendNonce(ask[c].user)
     ELSE UNCHANGED <<nonces, moved>>
  /\ UNCHANGED <<resolves, ask, nonce, message, tx, expired, outside>>

\* After a failure the application starts over, with a new signature.
StartOver(c) ==
  /\ pc[c] \in {"refused", "reverted", "thrown"} /\ Accepted(c)
  /\ Goes(c, "idle")
  /\ nonce' = [nonce EXCEPT ![c] = 0]
  /\ message' = [message EXCEPT ![c] = Nothing]
  /\ tx' = [tx EXCEPT ![c] = Nothing]
  /\ expired' = [expired EXCEPT ![c] = FALSE]
  /\ moved' = [moved EXCEPT ![c] = {}]
  /\ UNCHANGED <<chainVars, ask, outside>>

-----------------------------------------------------------------------------
(* Others: a permit() of the token spends a nonce, a name is set, time. *)

Outside ==
  /\ outside < MaxOutside /\ outside' = outside + 1
  /\ \/ /\ \E u \in Users : SpendNonce(u)
        /\ UNCHANGED <<delegates, resolves, expired>>
     \/ /\ \E n \in Names, a \in Addresses \cup {None} :
             /\ a # resolves[n]
             /\ resolves' = [resolves EXCEPT ![n] = a]
             /\ moved' = [d \in Calls |->
                  IF ask[d].delegatee = n THEN moved[d] \cup {"name"}
                  ELSE moved[d]]
        /\ UNCHANGED <<nonces, delegates, expired>>
     \/ /\ \E c \in Calls : /\ message[c] # Nothing /\ ~expired[c]
                            /\ expired' = [expired EXCEPT ![c] = TRUE]
        /\ UNCHANGED <<chainVars, moved>>
  /\ UNCHANGED callVars

Library(c) == \/ Begin(c) \/ GetNonce(c) \/ PrepareDelegateSignature(c)
              \/ ReadNonce(c) \/ Resolve(c)

Next ==
  \/ \E c \in Calls : \/ Library(c) \/ Sign(c) \/ Reject(c) \/ CallTx(c)
                      \/ Mine(c) \/ StartOver(c)
  \/ Outside

Spec == Init /\ [][Next]_vars

(***************************************************************************)
(* The provider answers, a signed transaction is mined, and a user who     *)
(* wants the delegation signs, sends and starts over after a failure.      *)
(***************************************************************************)
Fairness == \A c \in Calls : /\ WF_vars(Library(c)) /\ WF_vars(Sign(c))
                             /\ WF_vars(CallTx(c)) /\ WF_vars(Mine(c))
                             /\ WF_vars(StartOver(c))

FairSpec == Spec /\ Fairness

-----------------------------------------------------------------------------
(* Properties. *)

(***************************************************************************)
(* A signature works when nothing moved: the transaction made from it is   *)
(* refused or reverts only if the user's nonce was spent or the name set   *)
(* anew after the message read them, or the message expired.               *)
(***************************************************************************)
UndisturbedSignaturesWork ==
  \A c \in Calls :
    pc[c] \in {"refused", "reverted"} => moved[c] # {} \/ expired[c]

(***************************************************************************)
(* A transaction whose nonce is old never passes for a success: it can be  *)
(* mined and leave the user's powers where they were only when the name    *)
(* came to resolve to another address after the message was made.          *)
(***************************************************************************)
NoSilentMismatch ==
  \A c \in Calls : pc[c] = "ineffective" => "name" \in moved[c]

(***************************************************************************)
(* Powers go where the user said: what a step delegates is the powers      *)
(* some one user asked to delegate, all of them, to the address that the   *)
(* name has unless it was set anew after it was resolved.                  *)
(***************************************************************************)
DelegatesAsAsked ==
  [][\A u \in Users : delegates'[u] # delegates[u] =>
       \E c \in Calls :
         /\ ask[c].user = u /\ pc[c] # "done" /\ pc'[c] = "done"
         /\ \A p \in ask[c].powers :
              "name" \in moved[c] \/ delegates'[u][p] = Resolved(c)
         /\ \A p \in Powers \ ask[c].powers :
              delegates'[u][p] = delegates[u][p]]_vars

(***************************************************************************)
(* Starting over converges, also for two signatures of one user that were  *)
(* made for the same nonce: a delegation by signature gets done, unless    *)
(* the name it is for stops being registered.                              *)
(***************************************************************************)
DelegationsGetDone ==
  \A c \in Calls :
    pc[c] = "asksNonce" ~> \/ pc[c] \in {"done", "ineffective"}
                          \/ Resolved(c) = None
=============================================================================
