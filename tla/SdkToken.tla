------------------------------ MODULE SdkToken ------------------------------
(***************************************************************************)
(* The SDK token of a router (packages/ddc/src/routing/Router.ts,          *)
(* auth/sdkToken.ts) with a wallet for a signer (packages/blockchain/src/  *)
(* Signer/CereWalletSigner.ts): the account can be switched or withdrawn   *)
(* at any time, and every signature is a prompt to the user.               *)
(*                                                                         *)
(* Every getNode adds a link to a chain of promises: the link waits for    *)
(* the one before it and for the signer, and keeps the token of the one    *)
(* before it or creates its own.  The subject of a token is a random key   *)
(* of the SDK, named by the number of the link that made it.               *)
(***************************************************************************)
EXTENDS Naturals, Sequences

CONSTANTS
    Accounts,       \* accounts of the wallet
    NoAccount,      \* the wallet is not connected
    MaxCalls,       \* bound: calls of getNode
    MaxSwitches     \* bound: changes of the account by the user

ASSUME SdkTokenAssumption ==
    /\ NoAccount \notin Accounts
    /\ MaxCalls \in Nat /\ MaxSwitches \in Nat

VARIABLES
    account,        \* injectedAccount of the signer
    links,          \* the promises of getSdkToken, each waiting for the one before
    calls,          \* the getNode of each link and the request that followed it
    signerRegistry, \* keys of the SDK
    created,        \* history: tokens begun, each a prompt
    switches,       \* history: changes of the account by the user
    steady,         \* history, for each call: no change since it began
    troubled        \* history, for each call: a denial or no account since it began

wallet == <<account, switches>>
history == <<steady, troubled>>
vars == <<wallet, links, calls, signerRegistry, created, history>>

Here == account # NoAccount

(* What a link finds before it, when it is not rejected. *)
PrevSettled(k) == k > 1 => links[k - 1].stage = "signed"
isValidSdkToken(k) == k > 1 /\ links[k - 1].issuer = account

(* Promise.all is fulfilled for link k. *)
Woken(k) ==
    /\ links[k].stage = "waiting"
    /\ links[k].ready = "ready"
    /\ PrevSettled(k)

(* createSignature has a signer for the token of link k. *)
SignerAwaited(k) == links[k].stage = "creating" /\ links[k].ready = "ready"

Routing(k) == calls[k].phase = "routing"

-----------------------------------------------------------------------------
Init ==
    /\ account \in Accounts \cup {NoAccount}
    /\ links = <<>>
    /\ calls = <<>>
    /\ signerRegistry = {}
    /\ created = 0
    /\ switches = 0
    /\ steady = <<>>
    /\ troubled = <<>>

(* getNode and getSdkToken: the link is added before anything is awaited. *)
GetNode ==
    /\ Len(links) < MaxCalls
    /\ links' = Append(links, [ready |-> "pending", stage |-> "waiting",
                               issuer |-> NoAccount, subject |-> 0])
    /\ calls' = Append(calls, [phase |-> "routing", key |-> 0])
    /\ steady' = Append(steady, TRUE)
    /\ troubled' = Append(troubled, ~Here)
    /\ UNCHANGED <<wallet, signerRegistry, created>>

(* signer.isReady: at once with an account, and else the user is asked to
   connect the wallet.  Another link may have had it connected meanwhile. *)
SignerReady(k) ==
    /\ links[k].ready = "pending"
    /\ Here
    /\ links' = [links EXCEPT ![k].ready = "ready"]
    /\ UNCHANGED <<wallet, calls, signerRegistry, created, history>>

Connect(k) ==
    /\ links[k].ready = "pending"
    /\ ~Here
    /\ links' = [links EXCEPT ![k].ready = "connecting"]
    /\ UNCHANGED <<wallet, calls, signerRegistry, created, history>>

Connected(k) ==
    /\ links[k].ready = "connecting"
    /\ IF Here THEN UNCHANGED account ELSE account' \in Accounts
    /\ links' = [links EXCEPT ![k].ready = "ready"]
    /\ UNCHANGED <<switches, calls, signerRegistry, created, history>>

(* The user denies something: every call in flight may suffer from it. *)
Trouble == troubled' = [k \in DOMAIN troubled |-> troubled[k] \/ Routing(k)]

ConnectDenied(k) ==
    /\ links[k].ready = "connecting"
    /\ links' = [links EXCEPT ![k].ready = "failed"]
    /\ Trouble
    /\ UNCHANGED <<wallet, calls, signerRegistry, created, steady>>

(* The token before is that of the account: keep it. *)
Keep_AnySigner(k) ==
    /\ Woken(k)
    /\ Here /\ k > 1
    /\ links' = [links EXCEPT ![k].stage = "signed",
                              ![k].issuer = links[k - 1].issuer,
                              ![k].subject = links[k - 1].subject]
    /\ UNCHANGED <<wallet, calls, signerRegistry, created, history>>

Keep(k) ==
    /\ Woken(k)
    /\ Here /\ isValidSdkToken(k)
    /\ links' = [links EXCEPT ![k].stage = "signed",
                              ![k].issuer = links[k - 1].issuer,
                              ![k].subject = links[k - 1].subject]
    /\ UNCHANGED <<wallet, calls, signerRegistry, created, history>>

(* Otherwise make a key and begin a token, whose signature waits for the
   signer once more. *)
Create_Unchained(k) ==
    /\ links[k].stage = "waiting" /\ links[k].ready = "ready"
    /\ Here /\ ~isValidSdkToken(k)
    /\ links' = [links EXCEPT ![k].stage = "creating", ![k].subject = k,
                              ![k].ready = "pending"]
    /\ signerRegistry' = signerRegistry \cup {k}
    /\ created' = created + 1
    /\ UNCHANGED <<wallet, calls, history>>

Create_OneKey(k) ==
    /\ Woken(k)
    /\ Here /\ ~isValidSdkToken(k)
    /\ links' = [links EXCEPT ![k].stage = "creating", ![k].subject = k,
                              ![k].ready = "pending"]
    /\ signerRegistry' = {k}
    /\ created' = created + 1
    /\ UNCHANGED <<wallet, calls, history>>

Create(k) ==
    /\ Woken(k)
    /\ Here /\ ~isValidSdkToken(k)
    /\ links' = [links EXCEPT ![k].stage = "creating", ![k].subject = k,
                              ![k].ready = "pending"]
    /\ signerRegistry' = signerRegistry \cup {k}
    /\ created' = created + 1
    /\ UNCHANGED <<wallet, calls, history>>

(* Without an account the address of the signer throws. *)
AddressThrows(k) ==
    /\ Woken(k) \/ SignerAwaited(k)
    /\ ~Here
    /\ links' = [links EXCEPT ![k].stage = "failed"]
    /\ UNCHANGED <<wallet, calls, signerRegistry, created, history>>

(* Promise.all rejects at once, whatever the other promise does. *)
LinkRejects_NotChained(k) ==
    /\ links[k].stage \in {"waiting", "creating"}
    /\ links[k].ready = "failed"
    /\ links' = [links EXCEPT ![k].stage = "failed"]
    /\ UNCHANGED <<wallet, calls, signerRegistry, created, history>>

LinkRejects(k) ==
    /\ \/ links[k].stage \in {"waiting", "creating"} /\ links[k].ready = "failed"
       \/ links[k].stage = "waiting" /\ k > 1 /\ links[k - 1].stage = "failed"
    /\ links' = [links EXCEPT ![k].stage = "failed"]
    /\ UNCHANGED <<wallet, calls, signerRegistry, created, history>>

(* createSignature: the wallet is asked to sign for the account of the moment. *)
AskWallet(k) ==
    /\ SignerAwaited(k)
    /\ Here
    /\ links' = [links EXCEPT ![k].stage = "signing", ![k].issuer = account]
    /\ UNCHANGED <<wallet, calls, signerRegistry, created, history>>

(* External: the user answers the prompt. *)
WalletSigns(k) ==
    /\ links[k].stage = "signing"
    /\ links' = [links EXCEPT ![k].stage = "signed"]
    /\ UNCHANGED <<wallet, calls, signerRegistry, created, history>>

WalletDenies(k) ==
    /\ links[k].stage = "signing"
    /\ links' = [links EXCEPT ![k].stage = "failed"]
    /\ Trouble
    /\ UNCHANGED <<wallet, calls, signerRegistry, created, steady>>

(* External: the user switches or withdraws the account. *)
SwitchAccount ==
    /\ switches < MaxSwitches
    /\ account' \in (Accounts \cup {NoAccount}) \ {account}
    /\ switches' = switches + 1
    /\ steady' = [k \in DOMAIN steady |-> steady[k] /\ ~Routing(k)]
    /\ IF account' = NoAccount THEN Trouble ELSE UNCHANGED troubled
    /\ UNCHANGED <<links, calls, signerRegistry, created>>

(* The nodes of the bucket can not be found: the token is not awaited. *)
RoutingFails(k) ==
    /\ Routing(k)
    /\ calls' = [calls EXCEPT ![k].phase = "failed"]
    /\ UNCHANGED <<wallet, links, signerRegistry, created, history>>

(* getNode returns a node with the token of its link, and the node signs a
   request with the key of the token, or else with the wallet. *)
SendRequest(k) ==
    /\ Routing(k)
    /\ links[k].stage = "signed"
    /\ calls' = [calls EXCEPT ![k] =
                    [phase |-> "sent",
                     key |-> IF links[k].subject \in signerRegistry
                               THEN links[k].subject ELSE 0]]
    /\ UNCHANGED <<wallet, links, signerRegistry, created, history>>

TokenRejects(k) ==
    /\ Routing(k)
    /\ links[k].stage = "failed"
    /\ calls' = [calls EXCEPT ![k].phase = "failed"]
    /\ UNCHANGED <<wallet, links, signerRegistry, created, history>>

LinkStep(k) ==
    \/ SignerReady(k)
    \/ Connect(k)
    \/ Keep(k)
    \/ Create(k)
    \/ AddressThrows(k)
    \/ LinkRejects(k)
    \/ AskWallet(k)
    \/ SendRequest(k)
    \/ TokenRejects(k)

UserStep(k) ==
    \/ Connected(k)
    \/ ConnectDenied(k)
    \/ WalletSigns(k)
    \/ WalletDenies(k)

(* Nobody calls any more. *)
Over ==
    /\ Len(links) = MaxCalls
    /\ UNCHANGED vars

Next ==
    \/ GetNode
    \/ \E k \in DOMAIN links : LinkStep(k) \/ UserStep(k) \/ RoutingFails(k)
    \/ SwitchAccount
    \/ Over

Spec == Init /\ [][Next]_vars

(* A promise that can settle does, and the user answers what he is asked. *)
FairSpec ==
    /\ Spec
    /\ \A k \in 1..MaxCalls :
           WF_vars(k \in DOMAIN links /\ (LinkStep(k) \/ UserStep(k)))

-----------------------------------------------------------------------------
TypeOK ==
    /\ account \in Accounts \cup {NoAccount}
    /\ links \in Seq([ready : {"pending", "connecting", "ready", "failed"},
                      stage : {"waiting", "creating", "signing", "signed", "failed"},
                      issuer : Accounts \cup {NoAccount},
                      subject : Nat])
    /\ calls \in Seq([phase : {"routing", "sent", "failed"}, key : Nat])
    /\ Len(calls) = Len(links)
    /\ signerRegistry \subseteq DOMAIN links
    /\ created \in 0..Len(links)
    /\ switches \in Nat
    /\ steady \in Seq(BOOLEAN) /\ Len(steady) = Len(links)
    /\ troubled \in Seq(BOOLEAN) /\ Len(troubled) = Len(links)

(* The user is not asked needlessly: however many calls run at once, there is
   one prompt for a token, and one more for each change of the account
   (Router.ts:53). *)
PromptsAreNeeded == created <= switches + 1

(* A call during which the account does not change sends the token of that
   account, also when calls before it were made for another one
   (Router.ts:54, sdkToken.ts:33). *)
TokenIsOfAccount ==
    \A k \in DOMAIN links :
        (links[k].stage = "signed" /\ steady[k] /\ Routing(k)) => links[k].issuer = account

(* A request is signed by the subject of its token, whatever tokens were made
   since (sdkToken.ts:23, StorageNode.ts:123). *)
RequestIsSignedBySubject ==
    \A k \in DOMAIN calls :
        calls[k].phase = "sent" => calls[k].key = links[k].subject /\ calls[k].key # 0

(* A call ends, with a token or an error. *)
CallsEnd == \A k \in 1..MaxCalls : [](k \in DOMAIN calls => <>(k \in DOMAIN calls /\ ~Routing(k)))

(* Not kept by the code (README, section 4). Claimed by Router.ts:50 ("Returns
   an SDK token for the current signer"): a call that lives through no denial
   and always has an account is not refused its token. *)
RefusedForAReason ==
    \A k \in DOMAIN links : (links[k].stage = "failed" /\ Routing(k)) => troubled[k]
=============================================================================
