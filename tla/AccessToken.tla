----------------------------- MODULE AccessToken -----------------------------
(***************************************************************************)
(* Access tokens (packages/ddc/src/auth/AuthToken.ts): a grant of the       *)
(* bucket's owner, delegated on with `prev`, handed over as a string and    *)
(* turned into the token of a request by StorageNode.createAuthToken.  A   *)
(* token is a message of WireMessages; its string is what is written.      *)
(*                                                                         *)
(* The node that checks a chain is external: it follows the rules the      *)
(* comments of protos/auth_token.proto state, one of them in two readings. *)
(***************************************************************************)
EXTENDS WireMessages

CONSTANTS
    Owner,         \* the account with access to the bucket on chain
    Users,         \* the other accounts
    Limits,        \* operations, bucket, piece and expiry (a number of days)
                   \* a token is made for; all but the operations may be None
    DefaultExpiry, \* AUTH_TOKEN_EXPIRATION_TIME from now
    Sent(_),       \* messages of a class that are sent, not signed
    MaxDepth,      \* bound: messages inside those messages
    MaxLinks,      \* bound: links of a chain before it is used
    DepthLimit,    \* the longest chain a node takes: "can be limited to 3 or
                   \* increase to 5"
    PrevHolds(_, _, _), PrevMentions(_, _)
                   \* ChainHolds and Mentions again, of the link before: a
                   \* configuration closes the recursion by giving them that
                   \* meaning

ASSUME AccessTokenAssumption ==
    /\ Owner \notin Users
    /\ None \notin Users \cup {Owner} \cup Nat \cup BOOLEAN
    /\ DefaultExpiry \in Nat
    /\ \A l \in Limits : IsSequence(l.operations) /\ l.expiresAt \in Nat \cup {None}
    /\ MaxLinks \in Nat /\ MaxDepth \in Nat /\ DepthLimit \in Nat

ASSUME SentAssumption ==
    \A T \in Types : \A m \in Sent(T) :
        IsMessage(T, m, MaxDepth) /\ ("signature" \in Names(T) => m.signature = None)

VARIABLES
    stage,    \* "issue" | "held" | "used": what happens to the token next
    access,   \* the token handed over, or None
    user,     \* the account whose request it is used for
    links,    \* history: links of the chain of the token
    narrowed  \* history: every delegation was the subject's and added nothing

tokenVars == <<stage, access, user, links, narrowed>>
allVars == <<wireVars, tokenVars>>

-----------------------------------------------------------------------------
(* What a caller chooses; canDelegate is FALSE if it is left out. *)
CanDelegates == {TRUE, None}

Params ==
    {[subject |-> subject, operations |-> l.operations, bucketId |-> l.bucketId,
      pieceCid |-> l.pieceCid, expiresAt |-> l.expiresAt, canDelegate |-> canDelegate] :
        subject \in Users \cup {None}, l \in Limits, canDelegate \in CanDelegates}

(* new AuthToken(params) *)
NewToken(params, prev) ==
    [Create("AuthToken") EXCEPT !.payload =
        [Create("Payload") EXCEPT
            !.prev = prev,
            !.subject = params.subject,
            !.operations = params.operations,
            !.bucketId = params.bucketId,
            !.pieceCid = params.pieceCid,
            !.canDelegate = IF params.canDelegate = None THEN FALSE ELSE params.canDelegate,
            !.expiresAt = IF params.expiresAt = None THEN DefaultExpiry ELSE params.expiresAt]]

Sign(token, account) == Signed("AuthToken", token, account)

(* AuthToken.maybeToken(token.toString()) *)
HandedOver(token) == FromBinary("AuthToken", Write("AuthToken", token))

Subject(token) == token.payload.subject
Signer(token) == token.signature.signer

IsSigned_WhenSigned(token) == token.signature # None

IsSigned(token) ==
    IF Subject(token) # None
    THEN token.signature # None /\ Signer(token) = Subject(token)
    ELSE token.signature # None

(* AuthToken.from: the parameters of the token without its subject; the token
   itself is the link before, if it has a subject. *)
From_FreshExpiry(token) ==
    NewToken([subject |-> None, operations |-> token.payload.operations,
              bucketId |-> token.payload.bucketId, pieceCid |-> token.payload.pieceCid,
              expiresAt |-> None, canDelegate |-> token.payload.canDelegate],
             IF Subject(token) # None THEN token ELSE None)

From(token) ==
    NewToken([subject |-> None, operations |-> token.payload.operations,
              bucketId |-> token.payload.bucketId, pieceCid |-> token.payload.pieceCid,
              expiresAt |-> token.payload.expiresAt,
              canDelegate |-> token.payload.canDelegate],
             IF Subject(token) # None THEN token ELSE None)

(* StorageNode.createAuthToken with the token of the caller; the account
   holds the key of the subject or signs with its own. *)
RequestToken(token, account) ==
    IF IsSigned(token) THEN token ELSE Sign(From(token), account)

-----------------------------------------------------------------------------
(* The rules of the comments in auth_token.proto. *)
Narrower(next, prev) ==
    /\ ToSet(next.operations) \subseteq ToSet(prev.operations)
    /\ next.expiresAt <= prev.expiresAt

(* What a token is restricted to, "mentioned only once in trust chain". *)
Restrictions == {"bucketId", "pieceCid"}

Mentions(token, name) ==
    \/ token.payload[name] # None
    \/ token.payload.prev # None /\ PrevMentions(token.payload.prev, name)

(* Read strictly, a link mentions nothing that a link before it has mentioned.
   Otherwise it may repeat what the link right before it says. *)
MentionsAnew(token, prev, strict) ==
    \A name \in Restrictions :
        \/ token.payload[name] = None
        \/ ~PrevMentions(prev, name)
        \/ ~strict /\ token.payload[name] = prev.payload[name]

(* A chain of at most n links. *)
ChainHolds(token, n, strict) ==
    LET prev == token.payload.prev
    IN  /\ n > 0
        /\ Verifies("AuthToken", token)
        /\ \/ prev = None /\ Signer(token) = Owner
           \/ /\ prev # None
              /\ PrevHolds(prev, n - 1, strict)
              /\ Signer(token) = Subject(prev)
              /\ Narrower(token.payload, prev.payload)
              /\ MentionsAnew(token, prev, strict)
              /\ prev.payload.canDelegate = TRUE \/ Subject(token) = None

(* The last token is the client's own, or anybody's. *)
Accepts(token, strict) ==
    ChainHolds(token, DepthLimit, strict) /\ Subject(token) \in {None, Signer(token)}

(* What a token grants. *)
Grants(token) == [token.payload EXCEPT !.prev = None, !.subject = None]

-----------------------------------------------------------------------------
(* Either a message of an API is on its way, signed or not, or a token is to
   be issued. *)
Init ==
    /\ access = None /\ user = None /\ links = 0 /\ narrowed = TRUE
    /\ \/ /\ stage = "issue"
          /\ type = "AuthToken" /\ message = Create(type)
       \/ /\ stage = "used"
          /\ type \in Types
          /\ \E m \in Sent(type) :
                \/ message = m
                \/ "signature" \in Names(type) /\ message = Signed(type, m, Owner)
    /\ rest = Write(type, message)
    /\ target = Create(type)

(* grantAccess, or a new AuthToken the owner signs. *)
Grant(params) ==
    /\ stage = "issue"
    /\ access' = Sign(NewToken(params, None), Owner)
    /\ links' = 1
    /\ stage' = "held"
    /\ UNCHANGED <<wireVars, user, narrowed>>

(* The subject of prev delegates it as the rules allow. *)
Narrows(account, prev, next) ==
    /\ account = Subject(prev)
    /\ prev.payload.canDelegate
    /\ Narrower(next.payload, prev.payload)
    /\ \A name \in Restrictions :
           next.payload[name] = None \/ ~Mentions(prev, name)

(* Somebody who holds the token makes the next link of it. *)
Delegate(account, params) ==
    /\ stage = "held"
    /\ links < MaxLinks
    /\ links' = links + 1
    /\ access' = Sign(NewToken(params, HandedOver(access)), account)
    /\ narrowed' = (narrowed /\ Narrows(account, access, access'))
    /\ UNCHANGED <<wireVars, stage, user>>

(* A request of the account with the token it was handed. *)
Use(account) ==
    /\ stage = "held"
    /\ user' = account
    /\ stage' = "used"
    /\ Sends("AuthToken", RequestToken(HandedOver(access), account))
    /\ UNCHANGED <<access, links, narrowed>>

Reading == stage = "used" /\ (ReadNext \/ SplitRun) /\ UNCHANGED tokenVars

Next ==
    \/ \E params \in Params : Grant(params)
    \/ \E account \in Users, params \in Params : Delegate(account, params)
    \/ \E account \in Users : Use(account)
    \/ Reading

Spec == Init /\ [][Next]_allVars

-----------------------------------------------------------------------------
TokenUsed == stage = "used" /\ user # None /\ Arrived

(* A token without a subject, or signed by it, is the token of the request
   itself; any other is the link before one more. *)
SentAsItIs == Subject(access) \in {None, Signer(access)}
LinksSent == IF SentAsItIs THEN links ELSE links + 1

Unrestricted == \A name \in Restrictions : access.payload[name] = None

Entitled ==
    /\ TokenUsed /\ narrowed
    /\ Subject(access) \in {user, None}
    /\ LinksSent <= DepthLimit

(* A grant works: when each delegation was made by the account the token was
   for and added nothing, and the chain is not too long, the node accepts the
   token that account (anybody, for a token without subject) sends with its
   request (AuthToken.from, isSigned and StorageNode.createAuthToken together).
   If the node is strict about what may be mentioned, that is so of a token
   that is sent as it is, or is restricted by links before it only. *)
GrantWorks ==
    Entitled =>
        /\ Accepts(target, FALSE)
        /\ SentAsItIs \/ Unrestricted => Accepts(target, TRUE)

(* The token of a request grants what the token handed over grants, neither
   more nor longer, whoever sends it and however often it was delegated
   (AuthToken.ts:178-191). *)
UseAddsNothing == TokenUsed => Grants(target) = Grants(access)

(* Not kept by the code (README, section 4). Claimed by auth_token.proto:18 and
   :21 ("mentioned only once in trust chain"), of a token restricted to a bucket
   or a piece: AuthToken.from repeats its restrictions in the link after it
   (AuthToken.ts:185-190), so a strict node refuses the account it is for. *)
RestrictedGrantWorks == Entitled => Accepts(target, TRUE)
=============================================================================
