---------------------------- MODULE RouterProofs ----------------------------
(***************************************************************************)
(* Theorems of the router: of SdkToken, for any number of calls, accounts  *)
(* and switches, and of NodeDiscovery, for any calls, buckets, clusters,   *)
(* nodes and changes of the chain.                                         *)
(*                                                                         *)
(* Chain says that tokens are made one at a time and in order; Counted     *)
(* that a token still to be made is paid for by a change of the account;   *)
(* Fresh and Registered relate a token to the account and to the keys.     *)
(*                                                                         *)
(* The caches hold what the chain had (Cached), and so does what a call    *)
(* has been answered or has taken from a cache (Query): a cluster of its   *)
(* bucket, which never changes, and a list of one moment.  Both are stable *)
(* when the chain changes because a bucket stays where it is and the lists *)
(* of the past are kept.                                                   *)
(*                                                                         *)
(* TokenLeft and DiscoveryLeft are what a call has left to do; that every  *)
(* step uses it up is the safety half of termination.                      *)
(***************************************************************************)
EXTENDS SdkToken, NodeDiscovery, SequenceTheorems, TLAPS

-----------------------------------------------------------------------------
(* The SDK token. *)

Link == [ready : {"pending", "connecting", "ready", "failed"},
         stage : {"waiting", "creating", "signing", "signed", "failed"},
         issuer : Accounts \cup {NoAccount},
         subject : Nat]

Call == [phase : {"routing", "sent", "failed"}, key : Nat]

Begun(k) == links[k].stage \in {"creating", "signing", "signed"}
Issued(k) == links[k].stage \in {"signing", "signed"}

(* Nothing was done yet about the link after k. *)
Open(k) == k + 1 \in DOMAIN links => links[k + 1].stage = "waiting"

(* A token is begun when all before it are signed. *)
Chain == \A k \in DOMAIN links : Begun(k) => \A j \in 1..(k - 1) : links[j].stage = "signed"

(* A token that may still be replaced, because its account is no longer that
   of the signer, leaves a change of the account to pay for it. *)
Counted ==
    /\ created <= switches + 1
    /\ \A k \in DOMAIN links :
           Issued(k) /\ Open(k) /\ links[k].issuer # account => created <= switches
    /\ \A k \in DOMAIN links : links[k].stage = "waiting" => created < k

(* While nothing changes for a call, its token is that of the account. *)
Fresh ==
    \A k \in DOMAIN links : Issued(k) =>
        /\ links[k].issuer \in Accounts
        /\ steady[k] /\ Routing(k) => links[k].issuer = account

(* The keys of all tokens are kept, and requests were signed by them. *)
Registered ==
    /\ \A k \in DOMAIN links : Begun(k) =>
           links[k].subject \in signerRegistry /\ links[k].subject # 0
    /\ \A k \in DOMAIN links : calls[k].phase = "sent" =>
           links[k].stage = "signed" /\ calls[k].key = links[k].subject

TInv == TypeOK /\ Chain /\ Counted /\ Fresh /\ Registered

-----------------------------------------------------------------------------
LEMMA TokenTyped ==
    TypeOK <=> /\ account \in Accounts \cup {NoAccount}
               /\ links \in Seq(Link)
               /\ calls \in Seq(Call)
               /\ Len(calls) = Len(links)
               /\ signerRegistry \subseteq DOMAIN links
               /\ created \in 0..Len(links)
               /\ switches \in Nat
               /\ steady \in Seq(BOOLEAN) /\ Len(steady) = Len(links)
               /\ troubled \in Seq(BOOLEAN) /\ Len(troubled) = Len(links)
  BY DEF TypeOK, Link, Call

(* Changing one link keeps the others and the length. *)
LEMMA LinkUpdate ==
    ASSUME NEW k \in DOMAIN links, NEW r \in Link, links \in Seq(Link),
           links' = [links EXCEPT ![k] = r]
    PROVE  /\ links' \in Seq(Link) /\ Len(links') = Len(links)
           /\ DOMAIN links' = DOMAIN links
           /\ links'[k] = r
           /\ \A j \in DOMAIN links : j # k => links'[j] = links[j]
  OBVIOUS

(* Steps that touch no token: a signer gets ready, perhaps by connecting. *)
LEMMA KeepsTokens ==
    ASSUME TInv,
           links' \in Seq(Link), Len(links') = Len(links),
           \A j \in DOMAIN links : /\ links'[j].stage = links[j].stage
                                   /\ links'[j].issuer = links[j].issuer
                                   /\ links'[j].subject = links[j].subject,
           \/ account' = account
           \/ account = NoAccount /\ account' \in Accounts,
           UNCHANGED <<switches, calls, signerRegistry, created, steady>>,
           troubled' \in Seq(BOOLEAN), Len(troubled') = Len(troubled)
    PROVE  TInv'
<1>1. DOMAIN links' = DOMAIN links /\ links \in Seq(Link) /\ Len(links) \in Nat
      /\ DOMAIN links = 1..Len(links)
  BY TokenTyped DEF TInv
<1>2. TypeOK'
  BY <1>1, TokenTyped, SdkTokenAssumption DEF TInv, TypeOK, Link, Call
<1>3. Chain'
  <2> SUFFICES ASSUME NEW k \in DOMAIN links, Begun(k)', NEW j \in 1..(k - 1)
               PROVE  links'[j].stage = "signed"
    BY <1>1 DEF Chain
  <2>1. Begun(k) /\ j \in DOMAIN links
    BY <1>1 DEF Begun
  <2>2. links[j].stage = "signed"
    BY <2>1 DEF TInv, Chain
  <2>3. QED
    BY <2>1, <2>2
<1>4. ASSUME NEW k \in DOMAIN links, Issued(k), links[k].issuer # account'
      PROVE  links[k].issuer # account
  BY <1>4, SdkTokenAssumption DEF TInv, Fresh
<1>5. Counted'
  <2>1. ASSUME NEW k \in DOMAIN links, Issued(k)', Open(k)', links'[k].issuer # account'
        PROVE  created <= switches
    <3>1. Issued(k) /\ Open(k)
      BY <1>1, <2>1 DEF Issued, Open
    <3>2. links[k].issuer # account
      BY <1>4, <2>1, <3>1
    <3>3. QED
      BY <3>1, <3>2 DEF TInv, Counted
  <2>2. created <= switches + 1
    BY DEF TInv, Counted
  <2>3. ASSUME NEW k \in DOMAIN links, links'[k].stage = "waiting" PROVE created < k
    BY <2>3 DEF TInv, Counted
  <2>4. QED
    BY <1>1, <2>1, <2>2, <2>3 DEF Counted
<1>6. Fresh'
  <2> SUFFICES ASSUME NEW k \in DOMAIN links, Issued(k)'
               PROVE  /\ links'[k].issuer \in Accounts
                      /\ steady'[k] /\ Routing(k)' => links'[k].issuer = account'
    BY <1>1 DEF Fresh
  <2>1. Issued(k)
    BY DEF Issued
  <2>2. QED
    BY <1>4, <2>1 DEF TInv, Fresh, Routing
<1>7. Registered'
  BY <1>1 DEF TInv, Registered, Begun
<1>8. QED
  BY <1>2, <1>3, <1>5, <1>6, <1>7 DEF TInv

(* A step of link k that begins, makes or ends its token: the new link r keeps
   the invariant when these hold of it. *)
LEMMA StepOfLink ==
    ASSUME TInv, NEW k \in DOMAIN links, NEW r \in Link,
           links' = [links EXCEPT ![k] = r],
           UNCHANGED <<account, switches, calls, steady>>,
           created' <= switches + 1,
           signerRegistry \subseteq signerRegistry', signerRegistry' \subseteq DOMAIN links,
           troubled' \in Seq(BOOLEAN), Len(troubled') = Len(troubled),
           links[k].stage # "signed",
           r.stage # "waiting",
           r.stage \in {"creating", "signing", "signed"} =>
               /\ PrevSettled(k)
               /\ r.subject \in signerRegistry' /\ r.subject # 0,
           r.stage \in {"signing", "signed"} =>
               /\ r.issuer \in Accounts
               /\ steady[k] /\ Routing(k) => r.issuer = account
               /\ Open(k) /\ r.issuer # account => created' <= switches,
           \/ created' = created
           \/ /\ created' = created + 1
              /\ links[k].stage = "waiting" /\ r.stage = "creating"
    PROVE  TInv'
<1>1. /\ links \in Seq(Link) /\ Len(links) \in Nat /\ DOMAIN links = 1..Len(links)
      /\ created \in Nat /\ switches \in Nat /\ k \in Nat
  BY TokenTyped DEF TInv
<1>2. /\ links' \in Seq(Link) /\ Len(links') = Len(links)
      /\ DOMAIN links' = DOMAIN links
      /\ links'[k] = r
      /\ \A j \in DOMAIN links : j # k => links'[j] = links[j]
  BY <1>1, LinkUpdate
<1>3. ASSUME Begun(k)' PROVE \A j \in 1..(k - 1) : links[j].stage = "signed"
  <2>1. PrevSettled(k)
    BY <1>2, <1>3 DEF Begun
  <2>2. CASE k = 1
    BY <2>2
  <2>3. CASE k > 1
    <3>1. k - 1 \in DOMAIN links /\ links[k - 1].stage = "signed"
      BY <1>1, <2>1, <2>3 DEF PrevSettled
    <3>2. \A j \in 1..(k - 1 - 1) : links[j].stage = "signed"
      BY <3>1 DEF TInv, Chain, Begun
    <3>3. QED
      BY <1>1, <3>1, <3>2
  <2>4. QED
    BY <1>1, <2>2, <2>3
<1>4. \A j \in DOMAIN links : j > k => ~Begun(j)
  <2> SUFFICES ASSUME NEW j \in DOMAIN links, j > k, Begun(j) PROVE FALSE
    OBVIOUS
  <2>1. k \in 1..(j - 1)
    BY <1>1
  <2>2. QED
    BY <2>1 DEF TInv, Chain
<1>5. TypeOK'
  <2>1. created' \in 0..Len(links)
    <3>1. CASE created' = created
      BY <3>1, TokenTyped DEF TInv
    <3>2. CASE created' = created + 1 /\ links[k].stage = "waiting"
      <4>1. created < k
        BY <3>2 DEF TInv, Counted
      <4>2. QED
        BY <1>1, <3>2, <4>1
    <3>3. QED
      BY <3>1, <3>2
  <2>2. QED
    BY <1>2, <2>1, TokenTyped DEF TInv, TypeOK, Link, Call
<1>6. Chain'
  <2> SUFFICES ASSUME NEW i \in DOMAIN links, Begun(i)', NEW j \in 1..(i - 1)
               PROVE  links'[j].stage = "signed"
    BY <1>2 DEF Chain
  <2>1. CASE i = k
    <3>1. links[j].stage = "signed" /\ j \in DOMAIN links /\ j # k
      BY <1>1, <1>3, <2>1
    <3>2. QED
      BY <1>2, <3>1
  <2>2. CASE i # k
    <3>1. Begun(i)
      BY <1>2, <2>2 DEF Begun
    <3>2. links[j].stage = "signed" /\ j \in DOMAIN links
      BY <1>1, <3>1 DEF TInv, Chain
    <3>3. QED
      BY <1>2, <3>2
  <2>3. QED
    BY <2>1, <2>2
<1>7. Counted'
  <2>1. ASSUME NEW i \in DOMAIN links, Issued(i)', Open(i)', links'[i].issuer # account'
        PROVE  created' <= switches'
    <3>1. CASE i = k
      <4>1. Open(k)
        BY <1>1, <1>2, <2>1, <3>1 DEF Open
      <4>2. QED
        BY <1>2, <2>1, <3>1, <4>1 DEF Issued
    <3>2. CASE i # k
      <4>1. Issued(i) /\ links[i].issuer # account /\ Begun(i)
        BY <1>2, <2>1, <3>2 DEF Issued, Begun
      <4>2. i < k
        BY <1>1, <1>4, <3>2, <4>1
      <4>3. i + 1 \in DOMAIN links /\ links'[i + 1].stage = "waiting"
        BY <1>1, <1>2, <2>1, <4>2 DEF Open
      <4>4. i + 1 # k
        BY <1>2, <4>3
      <4>5. ~Begun(k)'
        BY <1>1, <1>2, <1>3, <4>2, <4>3, <4>4
      <4>6. created' = created
        BY <1>2, <4>5 DEF Begun
      <4>7. Open(i)
        BY <1>2, <4>3, <4>4 DEF Open
      <4>8. QED
        BY <4>1, <4>6, <4>7 DEF TInv, Counted
    <3>3. QED
      BY <3>1, <3>2
  <2>2. ASSUME NEW i \in DOMAIN links, links'[i].stage = "waiting" PROVE created' < i
    <3>1. i # k /\ links[i].stage = "waiting"
      BY <1>2, <2>2
    <3>2. created < i
      BY <3>1 DEF TInv, Counted
    <3>3. CASE created' = created
      BY <3>2, <3>3
    <3>4. CASE /\ created' = created + 1
               /\ links[k].stage = "waiting" /\ r.stage = "creating"
      <4>1. Begun(k)' /\ created < k
        BY <1>2, <3>4 DEF Begun, TInv, Counted
      <4>2. i > k
        BY <1>1, <1>3, <3>1, <4>1
      <4>3. QED
        BY <1>1, <3>4, <4>1, <4>2
    <3>5. QED
      BY <3>3, <3>4
  <2>3. QED
    BY <1>2, <2>1, <2>2 DEF Counted
<1>8. Fresh'
  <2> SUFFICES ASSUME NEW i \in DOMAIN links, Issued(i)'
               PROVE  /\ links'[i].issuer \in Accounts
                      /\ steady'[i] /\ Routing(i)' => links'[i].issuer = account'
    BY <1>2 DEF Fresh
  <2>1. CASE i = k
    BY <1>2, <2>1 DEF Issued, Routing
  <2>2. CASE i # k
    BY <1>2, <2>2 DEF TInv, Fresh, Issued, Routing
  <2>3. QED
    BY <2>1, <2>2
<1>9. Registered'
  <2>1. ASSUME NEW i \in DOMAIN links, Begun(i)'
        PROVE  links'[i].subject \in signerRegistry' /\ links'[i].subject # 0
    <3>1. CASE i = k
      BY <1>2, <2>1, <3>1 DEF Begun
    <3>2. CASE i # k
      BY <1>2, <2>1, <3>2 DEF Begun, TInv, Registered
    <3>3. QED
      BY <3>1, <3>2
  <2>2. ASSUME NEW i \in DOMAIN links, calls'[i].phase = "sent"
        PROVE  links'[i].stage = "signed" /\ calls'[i].key = links'[i].subject
    BY <1>2, <2>2 DEF TInv, Registered
  <2>3. QED
    BY <1>2, <2>1, <2>2 DEF Registered
<1>10. QED
  BY <1>5, <1>6, <1>7, <1>8, <1>9 DEF TInv

LEMMA BooleansAppended ==
    ASSUME NEW b \in BOOLEAN, NEW s \in Seq(BOOLEAN)
    PROVE  /\ Append(s, b) \in Seq(BOOLEAN) /\ Len(Append(s, b)) = Len(s) + 1
           /\ \A j \in 1..Len(s) : Append(s, b)[j] = s[j]
  BY AppendProperties

LEMMA InitTInv == Init => TInv
<1> SUFFICES ASSUME Init PROVE TInv
  OBVIOUS
<1>1. /\ links = <<>> /\ DOMAIN links = {} /\ Len(links) = 0 /\ links \in Seq(Link)
      /\ calls \in Seq(Call) /\ steady \in Seq(BOOLEAN) /\ troubled \in Seq(BOOLEAN)
      /\ Len(calls) = 0 /\ Len(steady) = 0 /\ Len(troubled) = 0
  BY DEF Init
<1>2. TypeOK
  BY <1>1, TokenTyped DEF Init
<1>3. QED
  BY <1>1, <1>2 DEF Init, TInv, Chain, Counted, Fresh, Registered
LEMMA NextTInv == TInv /\ [Next]_vars => TInv'
<1> SUFFICES ASSUME TInv, [Next]_vars PROVE TInv'
  OBVIOUS
<1>1. /\ account \in Accounts \cup {NoAccount} /\ links \in Seq(Link) /\ calls \in Seq(Call)
      /\ Len(calls) = Len(links) /\ Len(links) \in Nat /\ DOMAIN links = 1..Len(links)
      /\ DOMAIN calls = DOMAIN links
      /\ signerRegistry \subseteq DOMAIN links
      /\ created \in 0..Len(links) /\ switches \in Nat /\ created <= switches + 1
      /\ steady \in Seq(BOOLEAN) /\ Len(steady) = Len(links)
      /\ troubled \in Seq(BOOLEAN) /\ Len(troubled) = Len(links)
  BY TokenTyped DEF TInv, Counted
<1>2. ASSUME Trouble PROVE troubled' \in Seq(BOOLEAN) /\ Len(troubled') = Len(troubled)
  <2>1. troubled' = [k \in 1..Len(troubled) |-> troubled[k] \/ Routing(k)]
    BY <1>1, <1>2 DEF Trouble
  <2>2. \A k \in 1..Len(troubled) : (troubled[k] \/ Routing(k)) \in BOOLEAN
    OBVIOUS
  <2>3. QED
    BY <1>1, <2>1, <2>2
<1>3. CASE GetNode
  <2> DEFINE n == Len(links) + 1
             new == [ready |-> "pending", stage |-> "waiting",
                     issuer |-> NoAccount, subject |-> 0]
  <2>1. /\ links' = Append(links, new) /\ calls' = Append(calls, [phase |-> "routing", key |-> 0])
        /\ steady' = Append(steady, TRUE) /\ troubled' = Append(troubled, ~Here)
        /\ UNCHANGED <<account, switches, signerRegistry, created>>
    BY <1>3 DEF GetNode, wallet
  <2>2. new \in Link /\ new.stage = "waiting"
    BY DEF Link
  <2> HIDE DEF new
  <2>3. /\ links' \in Seq(Link) /\ Len(links') = n /\ DOMAIN links' = 1..n
        /\ links'[n] = new /\ \A j \in DOMAIN links : links'[j] = links[j]
    BY <1>1, <2>1, <2>2
  <2>4. /\ calls' \in Seq(Call) /\ Len(calls') = n
        /\ calls'[n].phase = "routing" /\ \A j \in DOMAIN links : calls'[j] = calls[j]
    BY <1>1, <2>1 DEF Call
  <2>5. /\ steady' \in Seq(BOOLEAN) /\ Len(steady') = n
        /\ \A j \in DOMAIN links : steady'[j] = steady[j]
    <3>1. TRUE \in BOOLEAN /\ steady \in Seq(BOOLEAN)
      BY <1>1
    <3>2. /\ Append(steady, TRUE) \in Seq(BOOLEAN) /\ Len(Append(steady, TRUE)) = Len(steady) + 1
          /\ \A j \in 1..Len(steady) : Append(steady, TRUE)[j] = steady[j]
      BY ONLY <3>1, BooleansAppended, Zenon
    <3>3. QED
      BY <1>1, <2>1, <3>2, Zenon
  <2>6. troubled' \in Seq(BOOLEAN) /\ Len(troubled') = n
    BY <1>1, <2>1 DEF Here
  <2>7. \A j \in DOMAIN links' : j \in DOMAIN links \/ j = n
    BY <1>1, <2>3
  <2>8. TypeOK'
    BY <1>1, <2>1, <2>3, <2>4, <2>5, <2>6 DEF TypeOK, Link, Call
  <2>9. Chain'
    <3> SUFFICES ASSUME NEW k \in DOMAIN links', Begun(k)', NEW j \in 1..(k - 1)
                 PROVE  links'[j].stage = "signed"
      BY DEF Chain
    <3>1. k \in DOMAIN links /\ Begun(k)
      BY <2>2, <2>3, <2>7 DEF Begun
    <3>2. links[j].stage = "signed" /\ j \in DOMAIN links
      BY <1>1, <3>1 DEF TInv, Chain
    <3>3. QED
      BY <2>3, <3>2
  <2>10. Counted'
    <3>1. ASSUME NEW k \in DOMAIN links', Issued(k)', Open(k)', links'[k].issuer # account'
          PROVE  created <= switches
      <4>1. k \in DOMAIN links /\ Issued(k) /\ links[k].issuer # account
        BY <2>1, <2>2, <2>3, <2>7, <3>1 DEF Issued
      <4>2. Open(k)
        BY <1>1, <2>3, <3>1 DEF Open
      <4>3. QED
        BY <4>1, <4>2 DEF TInv, Counted
    <3>2. ASSUME NEW k \in DOMAIN links', links'[k].stage = "waiting" PROVE created < k
      BY <1>1, <2>3, <2>7, <3>2 DEF TInv, Counted
    <3>3. QED
      BY <1>1, <2>1, <3>1, <3>2 DEF Counted
  <2>11. Fresh'
    <3> SUFFICES ASSUME NEW k \in DOMAIN links', Issued(k)'
                 PROVE  /\ links'[k].issuer \in Accounts
                        /\ steady'[k] /\ Routing(k)' => links'[k].issuer = account'
      BY DEF Fresh
    <3>1. k \in DOMAIN links
      BY <2>2, <2>3, <2>7 DEF Issued
    <3>2. QED
      BY <2>1, <2>3, <2>4, <2>5, <3>1 DEF TInv, Fresh, Issued, Routing
  <2>12. Registered'
    <3>1. ASSUME NEW k \in DOMAIN links', Begun(k)' \/ calls'[k].phase = "sent"
          PROVE  k \in DOMAIN links
      BY <2>2, <2>3, <2>4, <2>7, <3>1 DEF Begun
    <3>2. QED
      BY <2>1, <2>3, <2>4, <3>1 DEF TInv, Registered, Begun
  <2>13. QED
    BY <2>8, <2>9, <2>10, <2>11, <2>12 DEF TInv
<1>4. ASSUME NEW k \in DOMAIN links, NEW s \in {"pending", "connecting", "ready", "failed"},
             links' = [links EXCEPT ![k].ready = s],
             \/ account' = account
             \/ account = NoAccount /\ account' \in Accounts,
             UNCHANGED <<switches, calls, signerRegistry, created, steady>>,
             troubled' \in Seq(BOOLEAN), Len(troubled') = Len(troubled)
      PROVE  TInv'
  <2> DEFINE r == [links[k] EXCEPT !.ready = s]
  <2>1. links[k] \in Link
    BY <1>1
  <2>2. r \in Link /\ r.stage = links[k].stage /\ r.issuer = links[k].issuer
                  /\ r.subject = links[k].subject
    BY <2>1 DEF Link
  <2>3. links' = [links EXCEPT ![k] = r]
    BY <1>4
  <2> HIDE DEF r
  <2>4. /\ links' \in Seq(Link) /\ Len(links') = Len(links) /\ links'[k] = r
        /\ \A j \in DOMAIN links : j # k => links'[j] = links[j]
    BY <1>1, <2>2, <2>3, LinkUpdate
  <2>5. \A j \in DOMAIN links : /\ links'[j].stage = links[j].stage
                                /\ links'[j].issuer = links[j].issuer
                                /\ links'[j].subject = links[j].subject
    BY <2>2, <2>4
  <2>6. QED
    BY <1>4, <2>4, <2>5, KeepsTokens
<1>5. ASSUME NEW k \in DOMAIN links, SignerReady(k) \/ Connect(k) PROVE TInv'
  <2>1. /\ links' = [links EXCEPT ![k].ready = "ready"]
           \/ links' = [links EXCEPT ![k].ready = "connecting"]
        /\ UNCHANGED <<account, switches, calls, signerRegistry, created, steady, troubled>>
    BY <1>5 DEF SignerReady, Connect, wallet, history
  <2>2. QED
    BY <1>1, <1>4, <2>1
<1>6. ASSUME NEW k \in DOMAIN links, Connected(k) PROVE TInv'
  <2>1. /\ links' = [links EXCEPT ![k].ready = "ready"]
        /\ \/ account' = account
           \/ account = NoAccount /\ account' \in Accounts
        /\ UNCHANGED <<switches, calls, signerRegistry, created, steady, troubled>>
    BY <1>6 DEF Connected, Here, history
  <2>2. QED
    BY <1>1, <1>4, <2>1
<1>7. ASSUME NEW k \in DOMAIN links, ConnectDenied(k) PROVE TInv'
  <2>1. /\ links' = [links EXCEPT ![k].ready = "failed"] /\ Trouble
        /\ UNCHANGED <<account, switches, calls, signerRegistry, created, steady>>
    BY <1>7 DEF ConnectDenied, wallet
  <2>2. QED
    BY <1>2, <1>4, <2>1
<1>8. ASSUME NEW k \in DOMAIN links, Keep(k) PROVE TInv'
  <2>1. /\ links[k].stage = "waiting" /\ PrevSettled(k) /\ k - 1 \in DOMAIN links
        /\ links[k - 1].issuer = account /\ links[k - 1].stage = "signed"
        /\ account \in Accounts
        /\ UNCHANGED <<account, switches, calls, signerRegistry, created, steady, troubled>>
    BY <1>1, <1>8 DEF Keep, Woken, isValidSdkToken, PrevSettled, Here, wallet, history
  <2>2. links[k - 1].subject \in signerRegistry /\ links[k - 1].subject # 0
    BY <2>1 DEF TInv, Registered, Begun
  <2> DEFINE r == [links[k] EXCEPT !.stage = "signed", !.issuer = links[k - 1].issuer,
                                   !.subject = links[k - 1].subject]
  <2>3. links[k] \in Link /\ links[k - 1] \in Link
    BY <1>1, <2>1
  <2>4. r \in Link /\ r.stage = "signed" /\ r.issuer = account
                  /\ r.subject = links[k - 1].subject
    BY <2>1, <2>3 DEF Link
  <2>5. links' = [links EXCEPT ![k] = r]
    BY <1>8 DEF Keep
  <2> HIDE DEF r
  <2>6. QED
    BY <1>1, <2>1, <2>2, <2>4, <2>5, StepOfLink
<1>9. ASSUME NEW k \in DOMAIN links, Create(k) PROVE TInv'
  <2>1. /\ links[k].stage = "waiting" /\ PrevSettled(k) /\ ~isValidSdkToken(k)
        /\ signerRegistry' = signerRegistry \cup {k} /\ created' = created + 1
        /\ UNCHANGED <<account, switches, calls, steady, troubled>>
    BY <1>9 DEF Create, Woken, wallet, history
  <2>2. created <= switches
    <3>1. CASE k = 1
      BY <1>1, <2>1, <3>1 DEF TInv, Counted
    <3>2. CASE k > 1
      <4>1. /\ k - 1 \in DOMAIN links /\ links[k - 1].stage = "signed"
            /\ links[k - 1].issuer # account /\ (k - 1) + 1 = k
        BY <1>1, <2>1, <3>2 DEF PrevSettled, isValidSdkToken
      <4>2. Issued(k - 1) /\ Open(k - 1)
        BY <2>1, <4>1 DEF Issued, Open
      <4>3. QED
        BY <4>1, <4>2 DEF TInv, Counted
    <3>3. QED
      BY <1>1, <3>1, <3>2
  <2> DEFINE r == [links[k] EXCEPT !.stage = "creating", !.subject = k, !.ready = "pending"]
  <2>3. links[k] \in Link /\ k \in Nat /\ k # 0
    BY <1>1
  <2>4. r \in Link /\ r.stage = "creating" /\ r.subject = k
    BY <2>3 DEF Link
  <2>5. links' = [links EXCEPT ![k] = r]
    BY <1>9 DEF Create
  <2> HIDE DEF r
  <2>6. /\ created' <= switches + 1
        /\ signerRegistry \subseteq signerRegistry' /\ signerRegistry' \subseteq DOMAIN links
    BY <1>1, <2>1, <2>2
  <2>7. QED
    BY <1>1, <2>1, <2>3, <2>4, <2>5, <2>6, StepOfLink
<1>10. ASSUME NEW k \in DOMAIN links,
              links' = [links EXCEPT ![k].stage = "failed"], links[k].stage # "signed",
              UNCHANGED <<account, switches, calls, signerRegistry, created, steady>>,
              troubled' \in Seq(BOOLEAN), Len(troubled') = Len(troubled)
       PROVE  TInv'
  <2> DEFINE r == [links[k] EXCEPT !.stage = "failed"]
  <2>1. links[k] \in Link
    BY <1>1
  <2>2. r \in Link /\ r.stage = "failed"
    BY <2>1 DEF Link
  <2>3. links' = [links EXCEPT ![k] = r]
    BY <1>10
  <2> HIDE DEF r
  <2>4. QED
    BY <1>1, <1>10, <2>2, <2>3, StepOfLink
<1>11. ASSUME NEW k \in DOMAIN links, AddressThrows(k) \/ LinkRejects(k) PROVE TInv'
  <2>1. /\ links' = [links EXCEPT ![k].stage = "failed"] /\ links[k].stage # "signed"
        /\ UNCHANGED <<account, switches, calls, signerRegistry, created, steady, troubled>>
    BY <1>11 DEF AddressThrows, LinkRejects, Woken, SignerAwaited, wallet, history
  <2>2. QED
    BY <1>1, <1>10, <2>1
<1>12. ASSUME NEW k \in DOMAIN links, WalletDenies(k) PROVE TInv'
  <2>1. /\ links' = [links EXCEPT ![k].stage = "failed"] /\ links[k].stage # "signed" /\ Trouble
        /\ UNCHANGED <<account, switches, calls, signerRegistry, created, steady>>
    BY <1>12 DEF WalletDenies, wallet
  <2>2. QED
    BY <1>2, <1>10, <2>1
<1>13. ASSUME NEW k \in DOMAIN links, Begun(k) PROVE PrevSettled(k)
  BY <1>1, <1>13 DEF TInv, Chain, PrevSettled
<1>14. ASSUME NEW k \in DOMAIN links, AskWallet(k) PROVE TInv'
  <2>1. /\ links[k].stage = "creating" /\ account \in Accounts
        /\ UNCHANGED <<account, switches, calls, signerRegistry, created, steady, troubled>>
    BY <1>1, <1>14 DEF AskWallet, SignerAwaited, Here, wallet, history
  <2> DEFINE r == [links[k] EXCEPT !.stage = "signing", !.issuer = account]
  <2>2. links[k] \in Link
    BY <1>1
  <2>3. r \in Link /\ r.stage = "signing" /\ r.issuer = account /\ r.subject = links[k].subject
    BY <2>1, <2>2 DEF Link
  <2>4. links' = [links EXCEPT ![k] = r]
    BY <1>14 DEF AskWallet
  <2> HIDE DEF r
  <2>5. Begun(k)
    BY <2>1 DEF Begun
  <2>6. PrevSettled(k) /\ links[k].subject \in signerRegistry /\ links[k].subject # 0
    BY <1>13, <2>5 DEF TInv, Registered
  <2>7. QED
    BY <1>1, <2>1, <2>3, <2>4, <2>6, StepOfLink
<1>15. ASSUME NEW k \in DOMAIN links, WalletSigns(k) PROVE TInv'
  <2>1. /\ links[k].stage = "signing"
        /\ UNCHANGED <<account, switches, calls, signerRegistry, created, steady, troubled>>
    BY <1>15 DEF WalletSigns, wallet, history
  <2> DEFINE r == [links[k] EXCEPT !.stage = "signed"]
  <2>2. links[k] \in Link
    BY <1>1
  <2>3. r \in Link /\ r.stage = "signed" /\ r.issuer = links[k].issuer
                  /\ r.subject = links[k].subject
    BY <2>2 DEF Link
  <2>4. links' = [links EXCEPT ![k] = r]
    BY <1>15 DEF WalletSigns
  <2> HIDE DEF r
  <2>5. Begun(k) /\ Issued(k)
    BY <2>1 DEF Begun, Issued
  <2>6. PrevSettled(k) /\ links[k].subject \in signerRegistry /\ links[k].subject # 0
    BY <1>13, <2>5 DEF TInv, Registered
  <2>7. /\ links[k].issuer \in Accounts
        /\ steady[k] /\ Routing(k) => links[k].issuer = account
        /\ Open(k) /\ links[k].issuer # account => created <= switches
    BY <2>5 DEF TInv, Fresh, Counted
  <2>8. QED
    BY <1>1, <2>1, <2>3, <2>4, <2>6, <2>7, StepOfLink
<1>16. CASE SwitchAccount
  <2>1. /\ account' \in Accounts \cup {NoAccount} /\ switches' = switches + 1
        /\ steady' = [k \in DOMAIN steady |-> steady[k] /\ ~Routing(k)]
        /\ UNCHANGED <<links, calls, signerRegistry, created>>
    BY <1>16 DEF SwitchAccount
  <2>2. troubled' \in Seq(BOOLEAN) /\ Len(troubled') = Len(troubled)
    BY <1>1, <1>2, <1>16 DEF SwitchAccount
  <2>3. steady' \in Seq(BOOLEAN) /\ Len(steady') = Len(steady)
    <3>1. \A k \in 1..Len(steady) : (steady[k] /\ ~Routing(k)) \in BOOLEAN
      OBVIOUS
    <3>2. steady' = [k \in 1..Len(steady) |-> steady[k] /\ ~Routing(k)]
      BY <1>1, <2>1
    <3>3. QED
      BY <1>1, <3>1, <3>2
  <2>4. TypeOK'
    BY <1>1, <2>1, <2>2, <2>3 DEF TypeOK, Link, Call
  <2>5. Chain' /\ Registered'
    BY <2>1 DEF TInv, Chain, Registered, Begun
  <2>6. Counted'
    BY <1>1, <2>1 DEF TInv, Counted, Issued, Open
  <2>7. Fresh'
    <3> SUFFICES ASSUME NEW k \in DOMAIN links, Issued(k)
                 PROVE  /\ links[k].issuer \in Accounts
                        /\ steady'[k] /\ Routing(k) => links[k].issuer = account'
      BY <2>1 DEF Fresh, Issued, Routing
    <3>1. steady'[k] = (steady[k] /\ ~Routing(k))
      BY <1>1, <2>1
    <3>2. QED
      BY <3>1 DEF TInv, Fresh
  <2>8. QED
    BY <2>4, <2>5, <2>6, <2>7 DEF TInv
<1>17. ASSUME NEW k \in DOMAIN links, NEW c \in Call, calls' = [calls EXCEPT ![k] = c],
              c.phase # "routing",
              c.phase = "sent" => links[k].stage = "signed" /\ c.key = links[k].subject,
              UNCHANGED <<account, switches, links, signerRegistry, created, history>>
       PROVE  TInv'
  <2>1. /\ calls' \in Seq(Call) /\ Len(calls') = Len(calls) /\ calls'[k] = c
        /\ \A j \in DOMAIN links : j # k => calls'[j] = calls[j]
    BY <1>1, <1>17
  <2>2. TypeOK'
    BY <1>1, <1>17, <2>1 DEF TypeOK, Link, Call, history
  <2>3. Chain' /\ Counted'
    BY <1>17 DEF TInv, Chain, Counted, Begun, Issued, Open
  <2>4. Fresh'
    BY <1>17, <2>1 DEF TInv, Fresh, Issued, Routing, history
  <2>5. Registered'
    BY <1>17, <2>1 DEF TInv, Registered, Begun
  <2>6. QED
    BY <2>2, <2>3, <2>4, <2>5 DEF TInv
<1>18. ASSUME NEW k \in DOMAIN links, RoutingFails(k) \/ TokenRejects(k) PROVE TInv'
  <2> DEFINE c == [calls[k] EXCEPT !.phase = "failed"]
  <2>1. calls[k] \in Call
    BY <1>1
  <2>2. c \in Call /\ c.phase = "failed"
    BY <2>1 DEF Call
  <2>3. /\ calls' = [calls EXCEPT ![k] = c]
        /\ UNCHANGED <<account, switches, links, signerRegistry, created, history>>
    BY <1>18 DEF RoutingFails, TokenRejects, wallet
  <2> HIDE DEF c
  <2>4. QED
    BY <1>17, <2>2, <2>3
<1>19. ASSUME NEW k \in DOMAIN links, SendRequest(k) PROVE TInv'
  <2>1. /\ links[k].stage = "signed"
        /\ UNCHANGED <<account, switches, links, signerRegistry, created, history>>
    BY <1>19 DEF SendRequest, wallet
  <2>2. links[k].subject \in signerRegistry /\ links[k].subject \in Nat
    BY <1>1, <2>1 DEF TInv, Registered, Begun, Link
  <2> DEFINE c == [phase |-> "sent", key |-> links[k].subject]
  <2>3. c \in Call /\ c.phase = "sent" /\ c.key = links[k].subject
    BY <2>2 DEF Call
  <2>4. calls' = [calls EXCEPT ![k] = c]
    BY <1>19, <2>2 DEF SendRequest
  <2> HIDE DEF c
  <2>5. QED
    BY <1>17, <2>1, <2>3, <2>4
<1>20. CASE UNCHANGED vars
  <2>1. UNCHANGED <<account, switches, links, calls, signerRegistry, created, steady, troubled>>
    BY <1>20 DEF vars, wallet, history
  <2>2. QED
    BY <1>1, <2>1, KeepsTokens
<1>21. QED
  BY <1>3, <1>5, <1>6, <1>7, <1>8, <1>9, <1>11, <1>12, <1>14, <1>15, <1>16, <1>18, <1>19, <1>20
     DEF Next, LinkStep, UserStep, Over

(* The types, and that a call begins one token at most. *)
THEOREM TypeCorrect == Spec => []TypeOK
<1>1. TInv => TypeOK
  BY DEF TInv
<1>2. QED
  BY InitTInv, NextTInv, <1>1, PTL DEF Spec

(* There is one prompt for a token, and one more for each change of the account. *)
THEOREM PromptsOnlyAsNeeded == Spec => []PromptsAreNeeded
<1>1. TInv => PromptsAreNeeded
  BY DEF TInv, Counted, PromptsAreNeeded
<1>2. QED
  BY InitTInv, NextTInv, <1>1, PTL DEF Spec

(* A call that sees no change of the account has the token of the account. *)
THEOREM TokensAreOfTheAccount == Spec => []TokenIsOfAccount
<1>1. TInv => TokenIsOfAccount
  BY DEF TInv, Fresh, Issued, TokenIsOfAccount
<1>2. QED
  BY InitTInv, NextTInv, <1>1, PTL DEF Spec

(* A request is signed by the subject of its token. *)
THEOREM RequestsAreSignedBySubject == Spec => []RequestIsSignedBySubject
<1>1. TInv => RequestIsSignedBySubject
  <2> SUFFICES ASSUME TInv, NEW k \in DOMAIN calls, calls[k].phase = "sent"
               PROVE  calls[k].key = links[k].subject /\ calls[k].key # 0
    BY DEF RequestIsSignedBySubject
  <2>1. k \in DOMAIN links
    BY TokenTyped DEF TInv
  <2>2. links[k].stage = "signed" /\ calls[k].key = links[k].subject
    BY <2>1 DEF TInv, Registered
  <2>3. links[k].subject # 0
    BY <2>1, <2>2 DEF TInv, Registered, Begun
  <2>4. QED
    BY <2>2, <2>3
<1>2. QED
  BY InitTInv, NextTInv, <1>1, PTL DEF Spec

-----------------------------------------------------------------------------
(* Why a call gets its token or an error: its signer, its token and its
   request each go one way; making a token asks for the signer once more. *)
SignerLeft(ready) == IF ready = "pending" THEN 2 ELSE IF ready = "connecting" THEN 1 ELSE 0

StageLeft(stage) ==
    IF stage = "waiting" THEN 6 ELSE IF stage = "creating" THEN 3
    ELSE IF stage = "signing" THEN 2 ELSE 0

RequestLeft(phase) == IF phase = "routing" THEN 1 ELSE 0

LinkLeft(r) == SignerLeft(r.ready) + StageLeft(r.stage)

TokenLeft(k) == LinkLeft(links[k]) + RequestLeft(calls[k].phase)

TokenAdvances ==
    \/ /\ Len(links') = Len(links) + 1
       /\ \A k \in DOMAIN links : TokenLeft(k)' = TokenLeft(k)
    \/ /\ DOMAIN links' = DOMAIN links
       /\ \E k \in DOMAIN links :
              /\ TokenLeft(k)' < TokenLeft(k)
              /\ \A j \in DOMAIN links \ {k} : TokenLeft(j)' = TokenLeft(j)

LEMMA LinkLeftIsNat == \A r : LinkLeft(r) \in 0..8
  BY DEF LinkLeft, SignerLeft, StageLeft

LEMMA TokenLeftIsNat == \A k \in DOMAIN links : TokenLeft(k) \in 0..9
<1>1. \A k : RequestLeft(calls[k].phase) \in 0..1
  BY DEF RequestLeft
<1>2. QED BY <1>1, LinkLeftIsNat DEF TokenLeft

LEMMA StageIsProgress ==
    ASSUME NEW r, NEW s, s.ready = r.ready,
           \/ r.stage = "waiting" /\ s.stage \in {"signed", "failed"}
           \/ r.stage = "creating" /\ s.stage \in {"signing", "failed"}
           \/ r.stage = "signing" /\ s.stage \in {"signed", "failed"}
    PROVE  LinkLeft(s) < LinkLeft(r)
<1>1. SignerLeft(r.ready) \in 0..2 /\ SignerLeft(s.ready) = SignerLeft(r.ready)
  BY DEF SignerLeft
<1>2. /\ StageLeft(s.stage) \in 0..6 /\ StageLeft(r.stage) \in 0..6
      /\ StageLeft(s.stage) < StageLeft(r.stage)
  BY DEF StageLeft
<1>3. QED BY <1>1, <1>2 DEF LinkLeft

LEMMA LinkIsProgress ==
    ASSUME TInv, NEW k \in DOMAIN links, NEW r, links' = [links EXCEPT ![k] = r],
           UNCHANGED calls, LinkLeft(r) < LinkLeft(links[k])
    PROVE  TokenAdvances
<1>1. DOMAIN links' = DOMAIN links /\ links'[k] = r
      /\ \A j \in DOMAIN links \ {k} : links'[j] = links[j]
  BY TokenTyped DEF TInv
<1>2. \A j \in DOMAIN links \ {k} : TokenLeft(j)' = TokenLeft(j)
  BY <1>1 DEF TokenLeft
<1>3. RequestLeft(calls[k].phase) \in 0..1
  BY DEF RequestLeft
<1>4. TokenLeft(k)' < TokenLeft(k)
  BY <1>1, <1>3, LinkLeftIsNat DEF TokenLeft
<1>5. QED BY <1>1, <1>2, <1>4 DEF TokenAdvances

LEMMA TokenStepIsProgress ==
    ASSUME TInv, [Next]_vars
    PROVE  UNCHANGED <<links, calls>> \/ TokenAdvances
<1>t. /\ links \in Seq(Link) /\ calls \in Seq(Call)
      /\ Len(links) \in Nat /\ Len(calls) = Len(links)
      /\ DOMAIN links = 1..Len(links) /\ DOMAIN calls = DOMAIN links
      /\ \A k \in DOMAIN links : links[k] \in Link
  BY TokenTyped DEF TInv
<1>1. CASE GetNode
  <2>1. /\ Len(links') = Len(links) + 1
        /\ \A k \in DOMAIN links : links'[k] = links[k] /\ calls'[k] = calls[k]
    BY <1>t, <1>1 DEF GetNode
  <2>2. \A k \in DOMAIN links : TokenLeft(k)' = TokenLeft(k)
    BY <2>1 DEF TokenLeft
  <2>3. QED BY <2>1, <2>2 DEF TokenAdvances
<1>2. ASSUME NEW k \in DOMAIN links, NEW ready \in {"ready", "connecting", "failed"},
             links' = [links EXCEPT ![k].ready = ready], UNCHANGED calls,
             \/ links[k].ready = "pending"
             \/ links[k].ready = "connecting" /\ ready # "connecting"
      PROVE  TokenAdvances
  <2> DEFINE r == [links[k] EXCEPT !.ready = ready]
  <2>1. r.ready = ready /\ r.stage = links[k].stage
    BY <1>t DEF Link
  <2>2. links' = [links EXCEPT ![k] = r]
    BY <1>2
  <2> HIDE DEF r
  <2>3. StageLeft(r.stage) = StageLeft(links[k].stage) /\ StageLeft(r.stage) \in 0..6
    BY <2>1 DEF StageLeft
  <2>4. /\ SignerLeft(r.ready) \in 0..2 /\ SignerLeft(links[k].ready) \in 0..2
        /\ SignerLeft(r.ready) < SignerLeft(links[k].ready)
    BY <1>2, <2>1 DEF SignerLeft
  <2>5. LinkLeft(r) < LinkLeft(links[k])
    BY <2>3, <2>4 DEF LinkLeft
  <2>6. QED BY <1>2, <2>2, <2>5, LinkIsProgress
<1>3. ASSUME NEW k \in DOMAIN links, SignerReady(k) \/ Connect(k) \/ Connected(k)
                                      \/ ConnectDenied(k)
      PROVE  TokenAdvances
  <2>1. PICK ready \in {"ready", "connecting", "failed"} :
            /\ links' = [links EXCEPT ![k].ready = ready]
            /\ UNCHANGED calls
            /\ \/ links[k].ready = "pending"
               \/ links[k].ready = "connecting" /\ ready # "connecting"
    BY <1>3 DEF SignerReady, Connect, Connected, ConnectDenied
  <2>2. QED BY <1>2, <2>1
<1>4. ASSUME NEW k \in DOMAIN links, AddressThrows(k) \/ LinkRejects(k) \/ WalletSigns(k)
                                      \/ WalletDenies(k)
      PROVE  TokenAdvances
  <2>1. PICK stage \in {"signed", "failed"} :
            /\ links' = [links EXCEPT ![k].stage = stage]
            /\ UNCHANGED calls
            /\ links[k].stage \in {"waiting", "creating", "signing"}
    BY <1>4 DEF AddressThrows, LinkRejects, WalletSigns, WalletDenies, Woken, SignerAwaited
  <2> DEFINE r == [links[k] EXCEPT !.stage = stage]
  <2>3. r.ready = links[k].ready /\ r.stage = stage
    BY <1>t DEF Link
  <2>4. links' = [links EXCEPT ![k] = r]
    BY <2>1
  <2> HIDE DEF r
  <2>5. SignerLeft(r.ready) = SignerLeft(links[k].ready) /\ SignerLeft(r.ready) \in 0..2
    BY <2>3 DEF SignerLeft
  <2>6. /\ StageLeft(r.stage) = 0 /\ StageLeft(links[k].stage) \in 1..6
    BY <2>1, <2>3 DEF StageLeft
  <2>7. LinkLeft(r) < LinkLeft(links[k])
    BY <2>5, <2>6 DEF LinkLeft
  <2>8. QED BY <2>1, <2>4, <2>7, LinkIsProgress
<1>5. ASSUME NEW k \in DOMAIN links, Keep(k) PROVE TokenAdvances
  <2> DEFINE r == [links[k] EXCEPT !.stage = "signed", !.issuer = links[k - 1].issuer,
                                   !.subject = links[k - 1].subject]
  <2>1. r.ready = links[k].ready /\ r.stage = "signed"
    BY <1>t DEF Link
  <2>2. links' = [links EXCEPT ![k] = r] /\ UNCHANGED calls /\ links[k].stage = "waiting"
    BY <1>t, <1>5 DEF Keep, Woken
  <2> HIDE DEF r
  <2>3. LinkLeft(r) < LinkLeft(links[k])
    BY <2>1, <2>2, StageIsProgress
  <2>4. QED BY <2>2, <2>3, LinkIsProgress
<1>6. ASSUME NEW k \in DOMAIN links, AskWallet(k) PROVE TokenAdvances
  <2> DEFINE r == [links[k] EXCEPT !.stage = "signing", !.issuer = account]
  <2>1. r.ready = links[k].ready /\ r.stage = "signing"
    BY <1>t DEF Link
  <2>2. links' = [links EXCEPT ![k] = r] /\ UNCHANGED calls /\ links[k].stage = "creating"
    BY <1>t, <1>6 DEF AskWallet, SignerAwaited
  <2> HIDE DEF r
  <2>3. LinkLeft(r) < LinkLeft(links[k])
    BY <2>1, <2>2, StageIsProgress
  <2>4. QED BY <2>2, <2>3, LinkIsProgress
<1>7. ASSUME NEW k \in DOMAIN links, Create(k) PROVE TokenAdvances
  <2> DEFINE r == [links[k] EXCEPT !.stage = "creating", !.subject = k, !.ready = "pending"]
  <2>1. r.ready = "pending" /\ r.stage = "creating"
    BY <1>t DEF Link
  <2>2. /\ links' = [links EXCEPT ![k] = r] /\ UNCHANGED calls
        /\ links[k].ready = "ready" /\ links[k].stage = "waiting"
    BY <1>t, <1>7 DEF Create, Woken
  <2> HIDE DEF r
  <2>3. LinkLeft(r) = 5 /\ LinkLeft(links[k]) = 6
    BY <2>1, <2>2 DEF LinkLeft, SignerLeft, StageLeft
  <2>4. LinkLeft(r) < LinkLeft(links[k])
    BY <2>3
  <2>5. QED BY <2>2, <2>4, LinkIsProgress
<1>8. ASSUME NEW k \in DOMAIN links, RoutingFails(k) \/ SendRequest(k) \/ TokenRejects(k)
      PROVE  TokenAdvances
  <2>1. UNCHANGED links /\ calls[k].phase = "routing"
    BY <1>8 DEF RoutingFails, SendRequest, TokenRejects, Routing
  <2>2. /\ calls'[k].phase \in {"failed", "sent"}
        /\ \A j \in DOMAIN links \ {k} : calls'[j] = calls[j]
    <3>1. CASE SendRequest(k)
      <4> DEFINE r == [phase |-> "sent",
                       key |-> IF links[k].subject \in signerRegistry
                                 THEN links[k].subject ELSE 0]
      <4>1. calls' = [calls EXCEPT ![k] = r] /\ r.phase = "sent"
        BY <3>1 DEF SendRequest
      <4> HIDE DEF r
      <4>2. QED BY <1>t, <4>1
    <3>2. CASE RoutingFails(k) \/ TokenRejects(k)
      <4> DEFINE r == [calls[k] EXCEPT !.phase = "failed"]
      <4>1. calls[k] \in Call
        BY <1>t
      <4>2. calls' = [calls EXCEPT ![k] = r] /\ r.phase = "failed"
        BY <3>2, <4>1 DEF RoutingFails, TokenRejects, Call
      <4> HIDE DEF r
      <4>3. QED BY <1>t, <4>2
    <3>3. QED BY <1>8, <3>1, <3>2
  <2>3. RequestLeft(calls'[k].phase) = 0 /\ RequestLeft(calls[k].phase) = 1
    BY <2>1, <2>2 DEF RequestLeft
  <2>4. TokenLeft(k)' < TokenLeft(k)
    BY <2>1, <2>3, LinkLeftIsNat DEF TokenLeft
  <2>5. \A j \in DOMAIN links \ {k} : TokenLeft(j)' = TokenLeft(j)
    BY <2>1, <2>2 DEF TokenLeft
  <2>6. QED BY <2>1, <2>4, <2>5 DEF TokenAdvances
<1>9. CASE SwitchAccount \/ Over \/ UNCHANGED vars
  BY <1>9 DEF SwitchAccount, Over, vars
<1>10. QED BY <1>1, <1>3, <1>4, <1>5, <1>6, <1>7, <1>8, <1>9 DEF Next, LinkStep, UserStep

(* The safety half of CallsEnd, for any number of calls and switches: a call
   is at most nine steps from its end when it begins, every step of a promise,
   a prompt or a request brings one call nearer and sets no other back, and
   neither do changes of the account: a token that is chained to others is not
   begun again for them (Router.ts:53-57). *)
THEOREM TokensAdvance ==
    Spec => /\ [](\A k \in DOMAIN links : TokenLeft(k) \in 0..9)
            /\ [][TokenAdvances]_<<links, calls>>
<1>1. TInv /\ [Next]_vars => [TokenAdvances]_<<links, calls>>
  BY TokenStepIsProgress
<1>2. QED BY <1>1, InitTInv, NextTInv, TokenLeftIsNat, PTL DEF Spec

-----------------------------------------------------------------------------
(* The discovery of nodes. *)

Answers == Clusters \cup {Missing} \cup SUBSET [cluster : Clusters \cup {None}, url : Urls]

Places == {"idle", "bucket", "bucket asked", "nodes", "nodes asked", "choose"}

DiscoveryTypeOK ==
    /\ bucketOn \in [Buckets -> Clusters \cup {Missing}]
    /\ clusterOf \in [Nodes -> Clusters \cup {None}]
    /\ url \in [Nodes -> Urls]
    /\ bucketCache \in [Buckets -> Clusters \cup {None}]
    /\ clusterNodes \in [Clusters -> (SUBSET Urls) \cup {None}]
    /\ strategy \in {"blockchain", "static"}
    /\ pc \in [Calls -> Places]
    /\ bucket \in [Calls -> Buckets \cup {None}]
    /\ exclude \in [Calls -> SUBSET Urls]
    /\ cluster \in [Calls -> Clusters \cup {None}]
    /\ nodes \in [Calls -> SUBSET Urls]
    /\ answer \in [Calls -> {<<>>} \cup {<<a>> : a \in Answers}]
    /\ outcome \in [Calls -> [state : {"none yet", "no bucket", "no node", "chain", "found"},
                              node : Urls \cup {None}]]
    /\ existed \in [Calls -> BOOLEAN]
    /\ past \in [Clusters -> SUBSET SUBSET Urls]
    /\ starts \in 0..MaxStarts /\ changes \in 0..MaxChanges

(* The lists of the past include those of now. *)
Current == \A c \in Clusters : NodesOf(Listed, c) \in past[c]

(* What is remembered of a bucket is what the chain has, what is remembered
   of a cluster is what the chain had. *)
Cached ==
    /\ \A b \in Buckets : bucketCache[b] # None => bucketCache[b] = bucketOn[b]
    /\ \A c \in Clusters : clusterNodes[c] # None => clusterNodes[c] \in past[c]

(* The cluster a call has found for its bucket. *)
OnItsCluster(k) == cluster[k] \in Clusters /\ cluster[k] = bucketOn[bucket[k]]

(* A call that has begun has a bucket, and StaticStrategy asks nobody. *)
QueryBegun(k) ==
    /\ pc[k] # "idle" \/ existed[k] = TRUE => bucket[k] \in Buckets
    /\ existed[k] = TRUE => bucketOn[bucket[k]] # Missing
    /\ strategy = "static" => pc[k] \in {"idle", "bucket", "choose"}

(* The cluster of a bucket is answered as it is. *)
BucketAnswer(k) ==
    pc[k] = "bucket asked" /\ answer[k] # <<>> =>
        /\ answer[k][1] \in Clusters \cup {Missing}
        /\ answer[k][1] # Missing => answer[k][1] = bucketOn[bucket[k]]
        /\ existed[k] = TRUE => answer[k][1] # Missing

(* A list is answered as it was at one moment. *)
ListAnswer(k) ==
    pc[k] = "nodes asked" /\ answer[k] # <<>> =>
        /\ answer[k][1] \in SUBSET [cluster : Clusters \cup {None}, url : Urls]
        /\ \A c \in Clusters : NodesOf(answer[k][1], c) \in past[c]

(* What a call goes on with is of its bucket's cluster. *)
Known(k) ==
    /\ pc[k] \in {"nodes", "nodes asked"} => OnItsCluster(k)
    /\ strategy = "blockchain" /\ pc[k] = "choose" =>
           OnItsCluster(k) /\ nodes[k] \in past[cluster[k]]

Query(k) == QueryBegun(k) /\ BucketAnswer(k) /\ ListAnswer(k) /\ Known(k)

(* What a call reports was so while it ran. *)
Outcome(k) ==
    pc[k] = "idle" =>
        /\ outcome[k].state = "no bucket" => existed[k] = FALSE
        /\ strategy = "blockchain" /\ outcome[k].state = "found" =>
               /\ bucket[k] \in Buckets /\ bucketOn[bucket[k]] \in Clusters
               /\ outcome[k].node \notin exclude[k]
               /\ \E list \in past[bucketOn[bucket[k]]] : outcome[k].node \in list

DiscoveryInv ==
    /\ DiscoveryTypeOK /\ Current /\ Cached
    /\ \A k \in Calls : Query(k) /\ Outcome(k)

-----------------------------------------------------------------------------
(* What getClusterNodes keeps of a list of all nodes. *)
LEMMA NodesOfPairs ==
    ASSUME NEW at, NEW where, NEW c
    PROVE  NodesOf({[cluster |-> at[n], url |-> where[n]] : n \in Nodes}, c) =
               {where[n] : n \in {m \in Nodes : at[m] = c}}
<1> DEFINE list == {[cluster |-> at[n], url |-> where[n]] : n \in Nodes}
<1>1. ASSUME NEW u \in NodesOf(list, c) PROVE \E n \in Nodes : at[n] = c /\ u = where[n]
  <2>1. PICK l \in list : l.cluster = c /\ u = l.url
    BY <1>1 DEF NodesOf
  <2>2. PICK n \in Nodes : l = [cluster |-> at[n], url |-> where[n]]
    BY <2>1
  <2>3. QED BY <2>1, <2>2
<1>2. ASSUME NEW n \in Nodes, at[n] = c PROVE where[n] \in NodesOf(list, c)
  <2> DEFINE l == [cluster |-> at[n], url |-> where[n]]
  <2>1. l \in list /\ l.cluster = c /\ l.url = where[n]
    BY <1>2
  <2> HIDE DEF l, list
  <2>2. QED BY <2>1 DEF NodesOf
<1>3. QED BY <1>1, <1>2

LEMMA NodesOfTyped ==
    ASSUME NEW list \in SUBSET [cluster : Clusters \cup {None}, url : Urls], NEW c
    PROVE  NodesOf(list, c) \in SUBSET Urls
BY DEF NodesOf

LEMMA ListedTyped ==
    ASSUME clusterOf \in [Nodes -> Clusters \cup {None}], url \in [Nodes -> Urls]
    PROVE  Listed \in SUBSET [cluster : Clusters \cup {None}, url : Urls]
<1>1. ASSUME NEW n \in Nodes
      PROVE  [cluster |-> clusterOf[n], url |-> url[n]] \in
                 [cluster : Clusters \cup {None}, url : Urls]
  <2>1. clusterOf[n] \in Clusters \cup {None} /\ url[n] \in Urls
    OBVIOUS
  <2>2. QED BY <2>1
<1>2. QED BY <1>1 DEF Listed

LEMMA InitDiscoveryInv == InitDiscovery => DiscoveryInv
<1> SUFFICES ASSUME InitDiscovery PROVE DiscoveryInv
  OBVIOUS
<1>1. DiscoveryTypeOK
  <2>1. past \in [Clusters -> SUBSET SUBSET Urls]
    <3>1. Listed \in SUBSET [cluster : Clusters \cup {None}, url : Urls]
      BY ListedTyped DEF InitDiscovery
    <3>2. QED BY <3>1, NodesOfTyped, ZenonT(40) DEF InitDiscovery
  <2>2. 0 \in 0..MaxStarts /\ 0 \in 0..MaxChanges
    BY DiscoveryAssumption
  <2>3. outcome \in [Calls -> [state : {"none yet", "no bucket", "no node", "chain", "found"},
                              node : Urls \cup {None}]]
    BY DEF InitDiscovery, Rejected
  <2>4. QED BY <2>1, <2>2, <2>3 DEF InitDiscovery, DiscoveryTypeOK, Places
<1>2. Current /\ Cached
  BY DEF InitDiscovery, Current, Cached
<1>3. ASSUME NEW k \in Calls PROVE Query(k) /\ Outcome(k)
  BY DEF InitDiscovery, Query, QueryBegun, BucketAnswer, ListAnswer, Known, Outcome, Rejected
<1>4. QED BY <1>1, <1>2, <1>3 DEF DiscoveryInv

-----------------------------------------------------------------------------
(* However the chain changes, a bucket stays on its cluster and the lists of
   the past, with that of now, are kept. *)
LEMMA ChainKeeps ==
    ASSUME DiscoveryTypeOK, Current, ChainChanges
    PROVE  /\ UNCHANGED <<caches, strategy, call>>
           /\ bucketOn' \in [Buckets -> Clusters \cup {Missing}]
           /\ clusterOf' \in [Nodes -> Clusters \cup {None}]
           /\ url' \in [Nodes -> Urls]
           /\ \A b \in Buckets : bucketOn[b] # Missing => bucketOn'[b] = bucketOn[b]
           /\ past' \in [Clusters -> SUBSET SUBSET Urls]
           /\ \A c \in Clusters : past[c] \subseteq past'[c]
           /\ Current'
           /\ changes' \in 0..MaxChanges
<1>1. /\ Change
      /\ bucketOn' \in [Buckets -> Clusters \cup {Missing}]
      /\ clusterOf' \in [Nodes -> Clusters \cup {None}]
      /\ url' \in [Nodes -> Urls]
      /\ \A b \in Buckets : bucketOn[b] # Missing => bucketOn'[b] = bucketOn[b]
  <2> DEFINE Kept == /\ Change
                     /\ bucketOn' \in [Buckets -> Clusters \cup {Missing}]
                     /\ clusterOf' \in [Nodes -> Clusters \cup {None}]
                     /\ url' \in [Nodes -> Urls]
                     /\ \A b \in Buckets : bucketOn[b] # Missing => bucketOn'[b] = bucketOn[b]
  <2>t. /\ bucketOn \in [Buckets -> Clusters \cup {Missing}]
        /\ clusterOf \in [Nodes -> Clusters \cup {None}]
        /\ url \in [Nodes -> Urls]
    BY DEF DiscoveryTypeOK
  <2>1. ASSUME NEW b \in Buckets, NEW c \in Clusters, CreateBucket(b, c) PROVE Kept
    BY <2>t, <2>1 DEF CreateBucket
  <2>2. ASSUME NEW n \in Nodes, NEW c \in Clusters, AddStorageNodeToCluster(n, c) PROVE Kept
    BY <2>t, <2>2 DEF AddStorageNodeToCluster
  <2>3. ASSUME NEW n \in Nodes, RemoveStorageNodeFromCluster(n) PROVE Kept
    BY <2>t, <2>3 DEF RemoveStorageNodeFromCluster
  <2>4. ASSUME NEW n \in Nodes, NEW u \in Urls, SetStorageNodeProps(n, u) PROVE Kept
    BY <2>t, <2>4 DEF SetStorageNodeProps
  <2> HIDE DEF Kept
  <2>5. Kept
    BY <2>1, <2>2, <2>3, <2>4 DEF ChainChanges
  <2>6. QED BY <2>5 DEF Kept
<1>2. \A c \in Clusters :
          past'[c] = past[c] \cup {{url'[n] : n \in {m \in Nodes : clusterOf'[m] = c}}}
  BY <1>1 DEF Change, DiscoveryTypeOK
<1>3. past' \in [Clusters -> SUBSET SUBSET Urls]
  <2>1. \A c \in Clusters : {url'[n] : n \in {m \in Nodes : clusterOf'[m] = c}} \in SUBSET Urls
    BY <1>1
  <2>2. QED BY <1>1, <2>1, ZenonT(40) DEF Change, DiscoveryTypeOK
<1>4. Current'
  <2> SUFFICES ASSUME NEW c \in Clusters PROVE NodesOf(Listed', c) \in past'[c]
    BY DEF Current, NodesOf
  <2>1. NodesOf(Listed', c) = {url'[n] : n \in {m \in Nodes : clusterOf'[m] = c}}
    BY NodesOfPairs DEF Listed
  <2>2. QED BY <1>2, <2>1
<1>5. QED
  <2>1. changes' \in 0..MaxChanges
    <3>1. changes < MaxChanges /\ changes' = changes + 1
      BY <1>1 DEF Change
    <3>2. changes \in 0..MaxChanges
      BY DEF DiscoveryTypeOK
    <3>3. QED BY <3>1, <3>2, DiscoveryAssumption
  <2>2. QED BY <1>1, <1>2, <1>3, <1>4, <2>1 DEF Change

LEMMA ChainStep == DiscoveryInv /\ ChainChanges => DiscoveryInv'
<1> SUFFICES ASSUME DiscoveryInv, ChainChanges PROVE DiscoveryInv'
  OBVIOUS
<1>1. DiscoveryTypeOK /\ Current /\ Cached
  BY DEF DiscoveryInv
<1>2. /\ UNCHANGED <<caches, strategy, call>>
      /\ \A b \in Buckets : bucketOn[b] # Missing => bucketOn'[b] = bucketOn[b]
      /\ \A c \in Clusters : past[c] \subseteq past'[c]
  BY <1>1, ChainKeeps
<1>3. DiscoveryTypeOK' /\ Current'
  <2>1. /\ bucketOn' \in [Buckets -> Clusters \cup {Missing}]
        /\ clusterOf' \in [Nodes -> Clusters \cup {None}]
        /\ url' \in [Nodes -> Urls]
        /\ past' \in [Clusters -> SUBSET SUBSET Urls]
        /\ changes' \in 0..MaxChanges
        /\ Current'
    BY <1>1, ChainKeeps
  <2>2. QED BY <1>1, <1>2, <2>1 DEF DiscoveryTypeOK, caches, call
<1>4. Cached'
  <2>1. ASSUME NEW b \in Buckets, bucketCache'[b] # None PROVE bucketCache'[b] = bucketOn'[b]
    <3>1. bucketCache[b] = bucketOn[b] /\ bucketCache[b] \in Clusters
      BY <1>1, <1>2, <2>1 DEF Cached, DiscoveryTypeOK, caches
    <3>2. QED BY <1>2, <3>1, DiscoveryAssumption DEF caches
  <2>2. ASSUME NEW c \in Clusters, clusterNodes'[c] # None PROVE clusterNodes'[c] \in past'[c]
    BY <1>1, <1>2, <2>2 DEF Cached, caches
  <2>3. QED BY <2>1, <2>2 DEF Cached
<1>5. ASSUME NEW k \in Calls PROVE Query(k)' /\ Outcome(k)'
  <2>1. Query(k) /\ Outcome(k)
    BY DEF DiscoveryInv
  <2>2. \A b \in Buckets : bucketOn[b] \in Clusters => bucketOn'[b] = bucketOn[b]
    BY <1>2, DiscoveryAssumption
  <2>3. UNCHANGED <<strategy, pc, bucket, cluster, nodes, answer, existed>>
    BY <1>2 DEF call
  <2>4. QueryBegun(k)'
    BY <1>2, <2>1, <2>3 DEF Query, QueryBegun
  <2>5. BucketAnswer(k)'
    BY <1>2, <2>1, <2>3 DEF Query, QueryBegun, BucketAnswer
  <2>6. ListAnswer(k)'
    BY <1>2, <2>1, <2>3 DEF Query, ListAnswer, NodesOf
  <2>7. Known(k)'
    BY <1>2, <2>1, <2>2, <2>3 DEF Query, QueryBegun, Known, OnItsCluster
  <2>8. Outcome(k)'
    BY <1>1, <1>2, <2>1, <2>2 DEF Outcome, DiscoveryTypeOK, call
  <2>9. QED BY <2>4, <2>5, <2>6, <2>7, <2>8 DEF Query
<1>6. QED BY <1>3, <1>4, <1>5 DEF DiscoveryInv

-----------------------------------------------------------------------------
(* A step of one call leaves what another knows alone. *)
Apart(k) ==
    \A j \in Calls \ {k} :
        /\ pc'[j] = pc[j] /\ bucket'[j] = bucket[j] /\ exclude'[j] = exclude[j]
        /\ cluster'[j] = cluster[j] /\ nodes'[j] = nodes[j] /\ answer'[j] = answer[j]
        /\ outcome'[j] = outcome[j] /\ existed'[j] = existed[j]

LEMMA OneCall ==
    ASSUME DiscoveryInv, NEW k \in Calls, Apart(k), UNCHANGED <<chain, strategy>>,
           DiscoveryTypeOK', Cached', Query(k)', Outcome(k)'
    PROVE  DiscoveryInv'
<1>1. Current'
  BY DEF DiscoveryInv, Current, NodesOf, Listed, chain
<1>2. ASSUME NEW j \in Calls, j # k PROVE Query(j)' /\ Outcome(j)'
  <2>1. Query(j) /\ Outcome(j)
    BY DEF DiscoveryInv
  <2>2. /\ UNCHANGED <<bucketOn, strategy, past>>
        /\ pc'[j] = pc[j] /\ bucket'[j] = bucket[j] /\ exclude'[j] = exclude[j]
        /\ cluster'[j] = cluster[j] /\ nodes'[j] = nodes[j] /\ answer'[j] = answer[j]
        /\ outcome'[j] = outcome[j] /\ existed'[j] = existed[j]
    BY <1>2 DEF Apart, chain
  <2>3. QueryBegun(j)'
    BY <2>1, <2>2 DEF Query, QueryBegun
  <2>4. BucketAnswer(j)' /\ Known(j)'
    BY <2>1, <2>2 DEF Query, BucketAnswer, Known, OnItsCluster
  <2>5. ListAnswer(j)'
    BY <2>1, <2>2 DEF Query, ListAnswer, NodesOf
  <2>6. Outcome(j)'
    BY <2>1, <2>2 DEF Outcome
  <2>7. QED BY <2>3, <2>4, <2>5, <2>6 DEF Query
<1>3. QED BY <1>1, <1>2 DEF DiscoveryInv

(* The types of what a step changes, when the chain stays as it is. *)
LEMMA Typed ==
    ASSUME DiscoveryTypeOK, UNCHANGED <<chain, strategy>>,
           bucketCache' \in [Buckets -> Clusters \cup {None}],
           clusterNodes' \in [Clusters -> (SUBSET Urls) \cup {None}],
           pc' \in [Calls -> Places],
           bucket' \in [Calls -> Buckets \cup {None}],
           exclude' \in [Calls -> SUBSET Urls],
           cluster' \in [Calls -> Clusters \cup {None}],
           nodes' \in [Calls -> SUBSET Urls],
           answer' \in [Calls -> {<<>>} \cup {<<a>> : a \in Answers}],
           outcome' \in [Calls -> [state : {"none yet", "no bucket", "no node", "chain", "found"},
                                   node : Urls \cup {None}]],
           existed' \in [Calls -> BOOLEAN],
           starts' \in 0..MaxStarts
    PROVE  DiscoveryTypeOK'
BY DEF DiscoveryTypeOK, chain

LEMMA BeginGetNodeStep ==
    ASSUME DiscoveryInv, NEW k \in Calls, NEW b \in Buckets, NEW tried \in SUBSET Urls,
           BeginGetNode(k, b, tried)
    PROVE  DiscoveryInv'
<1> USE DEF DiscoveryInv
<1>1. /\ UNCHANGED <<chain, caches, strategy, cluster, nodes, outcome>>
      /\ starts < MaxStarts /\ starts' = starts + 1
      /\ pc' = [pc EXCEPT ![k] = "bucket"]
      /\ answer' = [answer EXCEPT ![k] = <<>>]
      /\ bucket' = [bucket EXCEPT ![k] = b]
      /\ exclude' = [exclude EXCEPT ![k] = tried]
      /\ existed' = [existed EXCEPT ![k] = bucketOn[b] # Missing]
  BY DEF BeginGetNode, Go
<1>2. DiscoveryTypeOK'
  <2>1. starts' \in 0..MaxStarts
    <3>1. starts \in 0..MaxStarts
      BY DEF DiscoveryTypeOK
    <3>2. QED BY <1>1, <3>1, DiscoveryAssumption
  <2>2. QED BY <1>1, <2>1, Typed DEF DiscoveryTypeOK, Places, caches
<1>3. Apart(k)
  BY <1>1 DEF Apart, DiscoveryTypeOK
<1>4. Cached'
  BY <1>1 DEF Cached, chain, caches
<1>5. pc'[k] = "bucket" /\ bucket'[k] = b /\ existed'[k] = (bucketOn[b] # Missing)
  BY <1>1 DEF DiscoveryTypeOK
<1>6. QueryBegun(k)'
  BY <1>1, <1>5 DEF QueryBegun, chain
<1>7. Query(k)' /\ Outcome(k)'
  BY <1>5, <1>6 DEF Query, BucketAnswer, ListAnswer, Known, Outcome
<1>8. QED BY <1>1, <1>2, <1>3, <1>4, <1>7, OneCall

(* How a call ends, or goes on, whatever made it. *)
LEMMA SettleFacts ==
    ASSUME DiscoveryTypeOK, NEW k \in Calls, NEW o, Settle(k, o)
    PROVE  /\ pc' = [pc EXCEPT ![k] = "idle"] /\ answer' = [answer EXCEPT ![k] = <<>>]
           /\ outcome' = [outcome EXCEPT ![k] = o]
           /\ cluster' = [cluster EXCEPT ![k] = None] /\ nodes' = [nodes EXCEPT ![k] = {}]
           /\ pc'[k] = "idle" /\ outcome'[k] = o
BY DEF Settle, Go, DiscoveryTypeOK

(* A call that settles reports no missing bucket that was there, and no node
   but one of its list. *)
LEMMA SettleStep ==
    ASSUME DiscoveryInv, NEW k \in Calls,
           NEW o \in [state : {"no bucket", "no node", "chain", "found"}, node : Urls \cup {None}],
           Settle(k, o), UNCHANGED <<chain, strategy, bucket, exclude, existed, starts>>,
           o.state = "no bucket" => existed[k] = FALSE,
           strategy = "blockchain" /\ o.state = "found" =>
               Known(k) /\ pc[k] = "choose" /\ o.node \in nodes[k] \ exclude[k],
           Cached', bucketCache' \in [Buckets -> Clusters \cup {None}],
           clusterNodes' \in [Clusters -> (SUBSET Urls) \cup {None}]
    PROVE  DiscoveryInv'
<1> USE DEF DiscoveryInv
<1>1. /\ pc' = [pc EXCEPT ![k] = "idle"] /\ answer' = [answer EXCEPT ![k] = <<>>]
      /\ outcome' = [outcome EXCEPT ![k] = o]
      /\ cluster' = [cluster EXCEPT ![k] = None] /\ nodes' = [nodes EXCEPT ![k] = {}]
      /\ pc'[k] = "idle" /\ outcome'[k] = o
  BY SettleFacts
<1>2. DiscoveryTypeOK'
  BY <1>1, Typed DEF DiscoveryTypeOK, Places
<1>3. Apart(k)
  BY <1>1 DEF Apart, DiscoveryTypeOK
<1>4. QueryBegun(k)'
  <2>1. QueryBegun(k)
    BY DEF Query
  <2>2. UNCHANGED <<bucketOn, strategy, bucket, existed>> /\ pc'[k] = "idle"
    BY <1>1 DEF chain
  <2>3. QED BY <2>1, <2>2 DEF QueryBegun
<1>5. Query(k)'
  BY <1>1, <1>4 DEF Query, BucketAnswer, ListAnswer, Known
<1>6. Outcome(k)'
  <2>1. QueryBegun(k)
    BY DEF Query
  <2>2. (outcome[k].state = "no bucket" => existed[k] = FALSE)'
    BY <1>1
  <2>3. CASE strategy = "blockchain" /\ o.state = "found"
    <3>1. /\ bucketOn[bucket[k]] \in Clusters /\ bucket[k] \in Buckets
          /\ nodes[k] \in past[bucketOn[bucket[k]]] /\ o.node \in nodes[k] /\ o.node \notin exclude[k]
      BY <2>1, <2>3 DEF Known, OnItsCluster, QueryBegun
    <3>2. QED BY <1>1, <2>2, <2>3, <3>1 DEF Outcome, chain
  <2>4. CASE ~(strategy = "blockchain" /\ o.state = "found")
    BY <1>1, <2>2, <2>4 DEF Outcome
  <2>5. QED BY <2>3, <2>4
<1>7. QED BY <1>2, <1>3, <1>5, <1>6, OneCall

(* A call that goes on: it waits for nothing, and where it needs a cluster or
   a list it has one. *)
LEMMA OnwardStep ==
    ASSUME DiscoveryInv, NEW k \in Calls, NEW where \in Places \ {"idle"}, Go(k, where),
           UNCHANGED <<chain, strategy, bucket, exclude, outcome, existed, starts>>,
           pc[k] # "idle",
           cluster' \in [Calls -> Clusters \cup {None}], nodes' \in [Calls -> SUBSET Urls],
           \A j \in Calls \ {k} : cluster'[j] = cluster[j] /\ nodes'[j] = nodes[j],
           strategy = "static" => where = "choose",
           Known(k)',
           Cached', bucketCache' \in [Buckets -> Clusters \cup {None}],
           clusterNodes' \in [Clusters -> (SUBSET Urls) \cup {None}]
    PROVE  DiscoveryInv'
<1> USE DEF DiscoveryInv
<1>1. /\ pc' = [pc EXCEPT ![k] = where] /\ answer' = [answer EXCEPT ![k] = <<>>]
      /\ pc'[k] = where /\ answer'[k] = <<>>
  BY DEF Go, DiscoveryTypeOK
<1>2. DiscoveryTypeOK'
  BY <1>1, Typed DEF DiscoveryTypeOK
<1>3. Apart(k)
  BY <1>1 DEF Apart, DiscoveryTypeOK
<1>4. QueryBegun(k)'
  <2>1. QueryBegun(k)
    BY DEF Query
  <2>2. UNCHANGED <<bucketOn, strategy, bucket, existed>> /\ pc'[k] = where
    BY <1>1 DEF chain
  <2>3. bucket[k] \in Buckets /\ (existed[k] = TRUE => bucketOn[bucket[k]] # Missing)
    BY <2>1 DEF QueryBegun
  <2>4. QED BY <2>2, <2>3 DEF QueryBegun
<1>5. Query(k)' /\ Outcome(k)'
  BY <1>1, <1>4 DEF Query, BucketAnswer, ListAnswer, Outcome
<1>6. QED BY <1>2, <1>3, <1>5, OneCall

(* The cluster of the bucket is used. *)
LEMMA UseBucketStep ==
    ASSUME DiscoveryInv, NEW k \in Calls, NEW c \in Clusters \cup {Missing},
           pc[k] \in {"bucket", "bucket asked"}, strategy = "blockchain",
           c # Missing => c = bucketOn[bucket[k]],
           c = Missing => existed[k] = FALSE,
           UseBucket(k, c), UNCHANGED <<chain, strategy, bucket, exclude, existed, starts>>,
           Cached', bucketCache' \in [Buckets -> Clusters \cup {None}],
           UNCHANGED clusterNodes
    PROVE  DiscoveryInv'
<1> USE DEF DiscoveryInv
<1>1. clusterNodes' \in [Clusters -> (SUBSET Urls) \cup {None}]
  BY DEF DiscoveryTypeOK
<1>2. CASE c = Missing
  <2> DEFINE o == Rejected("no bucket")
  <2>1. Settle(k, o)
    BY <1>2 DEF UseBucket
  <2>2. /\ o \in [state : {"no bucket", "no node", "chain", "found"}, node : Urls \cup {None}]
        /\ o.state = "no bucket"
    BY DEF Rejected
  <2> HIDE DEF o
  <2>3. QED BY <1>1, <1>2, <2>1, <2>2, SettleStep
<1>3. CASE c # Missing
  <2>1. /\ cluster' = [cluster EXCEPT ![k] = c] /\ Go(k, "nodes")
        /\ UNCHANGED <<nodes, outcome>>
    BY <1>3 DEF UseBucket
  <2>2. /\ cluster' \in [Calls -> Clusters \cup {None}] /\ nodes' \in [Calls -> SUBSET Urls]
        /\ \A j \in Calls \ {k} : cluster'[j] = cluster[j] /\ nodes'[j] = nodes[j]
        /\ cluster'[k] = c /\ pc'[k] = "nodes"
    BY <1>3, <2>1 DEF DiscoveryTypeOK, Go
  <2>3. Known(k)'
    BY <1>3, <2>2 DEF Known, OnItsCluster, chain
  <2>4. QED BY <1>1, <2>1, <2>2, <2>3, OnwardStep DEF Places
<1>4. QED BY <1>2, <1>3

LEMMA GetBucketStep ==
    ASSUME DiscoveryInv, NEW k \in Calls, GetBucket(k)
    PROVE  DiscoveryInv'
<1> USE DEF DiscoveryInv
<1>1. /\ UNCHANGED <<chain, caches, strategy, bucket, exclude, existed, starts>>
      /\ pc[k] = "bucket"
  BY DEF GetBucket
<1>2. /\ Cached' /\ bucketCache' \in [Buckets -> Clusters \cup {None}]
      /\ clusterNodes' \in [Clusters -> (SUBSET Urls) \cup {None}]
  BY <1>1 DEF Cached, DiscoveryTypeOK, chain, caches
<1>3. QueryBegun(k) /\ bucket[k] \in Buckets
  BY <1>1 DEF Query, QueryBegun
<1>4. CASE /\ strategy = "static"
           /\ UseNodes(k, Configured) /\ UNCHANGED <<cluster, outcome>>
  <2>1. /\ cluster' \in [Calls -> Clusters \cup {None}] /\ nodes' \in [Calls -> SUBSET Urls]
        /\ \A j \in Calls \ {k} : cluster'[j] = cluster[j] /\ nodes'[j] = nodes[j]
        /\ pc'[k] = "choose" /\ Go(k, "choose")
    BY <1>4, DiscoveryAssumption DEF DiscoveryTypeOK, UseNodes, Go
  <2>2. Known(k)'
    BY <1>1, <1>4, <2>1 DEF Known
  <2>3. QED BY <1>1, <1>2, <1>4, <2>1, <2>2, OnwardStep DEF Places
<1>5. CASE /\ strategy = "blockchain"
           /\ Go(k, "bucket asked") /\ UNCHANGED <<cluster, nodes, outcome>>
  <2>1. /\ cluster' \in [Calls -> Clusters \cup {None}] /\ nodes' \in [Calls -> SUBSET Urls]
        /\ \A j \in Calls \ {k} : cluster'[j] = cluster[j] /\ nodes'[j] = nodes[j]
        /\ pc'[k] = "bucket asked"
    BY <1>5 DEF DiscoveryTypeOK, Go
  <2>2. Known(k)'
    BY <2>1 DEF Known
  <2>3. QED BY <1>1, <1>2, <1>5, <2>1, <2>2, OnwardStep DEF Places
<1>6. CASE /\ strategy = "blockchain" /\ bucketCache[bucket[k]] # None
           /\ UseBucket(k, bucketCache[bucket[k]])
  <2>1. bucketCache[bucket[k]] \in Clusters /\ bucketCache[bucket[k]] = bucketOn[bucket[k]]
    BY <1>3, <1>6 DEF Cached, DiscoveryTypeOK
  <2>2. bucketCache[bucket[k]] # Missing
    BY <2>1, DiscoveryAssumption
  <2>3. UNCHANGED clusterNodes
    BY <1>1 DEF caches
  <2>4. QED BY <1>1, <1>2, <1>6, <2>1, <2>2, <2>3, UseBucketStep
<1>7. QED BY <1>4, <1>5, <1>6 DEF GetBucket

LEMMA BucketArrivesStep ==
    ASSUME DiscoveryInv, NEW k \in Calls, BucketArrives(k)
    PROVE  DiscoveryInv'
<1> USE DEF DiscoveryInv
<1> DEFINE c == answer[k][1]
<1>1. /\ pc[k] = "bucket asked" /\ answer[k] # <<>> /\ UseBucket(k, c)
      /\ bucketCache' = [bucketCache EXCEPT ![bucket[k]] = IF c = Missing THEN @ ELSE c]
      /\ UNCHANGED <<chain, clusterNodes, strategy, bucket, exclude, existed, starts>>
  BY DEF BucketArrives
<1>2. /\ c \in Clusters \cup {Missing} /\ (c # Missing => c = bucketOn[bucket[k]])
      /\ existed[k] = TRUE => c # Missing
  BY <1>1 DEF Query, BucketAnswer
<1>3. bucket[k] \in Buckets /\ strategy = "blockchain"
  BY <1>1 DEF Query, QueryBegun, DiscoveryTypeOK
<1>4. c = Missing => existed[k] = FALSE
  BY <1>2 DEF DiscoveryTypeOK
<1> HIDE DEF c
<1>5. bucketCache' \in [Buckets -> Clusters \cup {None}]
  BY <1>1, <1>2 DEF DiscoveryTypeOK
<1>6. Cached'
  <2>1. ASSUME NEW b \in Buckets, bucketCache'[b] # None PROVE bucketCache'[b] = bucketOn[b]
    BY <1>1, <1>2, <2>1 DEF Cached, DiscoveryTypeOK
  <2>2. QED BY <1>1, <2>1 DEF Cached, chain
<1>7. QED BY <1>1, <1>2, <1>3, <1>4, <1>5, <1>6, UseBucketStep

(* The list of the cluster is used. *)
LEMMA UseNodesStep ==
    ASSUME DiscoveryInv, NEW k \in Calls, NEW list \in SUBSET Urls,
           pc[k] \in {"nodes", "nodes asked"},
           list \in past[cluster[k]], UseNodes(k, list),
           UNCHANGED <<chain, strategy, bucket, exclude, cluster, outcome, existed, starts>>,
           Cached', UNCHANGED bucketCache,
           clusterNodes' \in [Clusters -> (SUBSET Urls) \cup {None}]
    PROVE  DiscoveryInv'
<1> USE DEF DiscoveryInv
<1>1. OnItsCluster(k) /\ strategy = "blockchain"
  BY DEF Query, Known, QueryBegun, DiscoveryTypeOK
<1>2. /\ cluster' \in [Calls -> Clusters \cup {None}] /\ nodes' \in [Calls -> SUBSET Urls]
      /\ \A j \in Calls \ {k} : cluster'[j] = cluster[j] /\ nodes'[j] = nodes[j]
      /\ pc'[k] = "choose" /\ nodes'[k] = list /\ Go(k, "choose")
      /\ bucketCache' \in [Buckets -> Clusters \cup {None}]
  BY DEF DiscoveryTypeOK, UseNodes, Go
<1>3. Known(k)'
  BY <1>1, <1>2 DEF Known, OnItsCluster, chain
<1>4. QED BY <1>1, <1>2, <1>3, OnwardStep DEF Places

LEMMA GetClusterNodesStep ==
    ASSUME DiscoveryInv, NEW k \in Calls, GetClusterNodes(k)
    PROVE  DiscoveryInv'
<1> USE DEF DiscoveryInv
<1>1. /\ UNCHANGED <<chain, caches, strategy, bucket, exclude, cluster, outcome, existed, starts>>
      /\ pc[k] = "nodes"
  BY DEF GetClusterNodes
<1>2. /\ Cached' /\ bucketCache' \in [Buckets -> Clusters \cup {None}]
      /\ clusterNodes' \in [Clusters -> (SUBSET Urls) \cup {None}]
      /\ UNCHANGED bucketCache
  BY <1>1 DEF Cached, DiscoveryTypeOK, chain, caches
<1>3. OnItsCluster(k) /\ strategy = "blockchain"
  BY <1>1 DEF Query, Known, QueryBegun, DiscoveryTypeOK
<1>4. CASE Go(k, "nodes asked") /\ UNCHANGED nodes
  <2>1. /\ cluster' \in [Calls -> Clusters \cup {None}] /\ nodes' \in [Calls -> SUBSET Urls]
        /\ \A j \in Calls \ {k} : cluster'[j] = cluster[j] /\ nodes'[j] = nodes[j]
        /\ pc'[k] = "nodes asked"
    BY <1>1, <1>4 DEF DiscoveryTypeOK, Go
  <2>2. Known(k)'
    BY <1>1, <1>3, <2>1 DEF Known, OnItsCluster, chain
  <2>3. QED BY <1>1, <1>2, <1>3, <1>4, <2>1, <2>2, OnwardStep DEF Places
<1>5. CASE /\ clusterNodes[cluster[k]] # None
           /\ UseNodes(k, clusterNodes[cluster[k]])
  <2>1. /\ clusterNodes[cluster[k]] \in SUBSET Urls
        /\ clusterNodes[cluster[k]] \in past[cluster[k]]
    <3>1. cluster[k] \in Clusters
      BY <1>3 DEF OnItsCluster
    <3>2. clusterNodes[cluster[k]] \in (SUBSET Urls) \cup {None}
      BY <3>1 DEF DiscoveryTypeOK
    <3>3. clusterNodes[cluster[k]] \in past[cluster[k]]
      BY <1>5, <3>1 DEF Cached
    <3>4. QED BY <1>5, <3>2, <3>3
  <2>2. QED BY <1>1, <1>2, <1>5, <2>1, UseNodesStep
<1>6. QED BY <1>4, <1>5 DEF GetClusterNodes

LEMMA NodesArriveStep ==
    ASSUME DiscoveryInv, NEW k \in Calls, NodesArrive(k)
    PROVE  DiscoveryInv'
<1> USE DEF DiscoveryInv
<1> DEFINE list == NodesOf(answer[k][1], cluster[k])
<1>1. /\ pc[k] = "nodes asked" /\ answer[k] # <<>>
      /\ clusterNodes' = [clusterNodes EXCEPT ![cluster[k]] = list]
      /\ UseNodes(k, clusterNodes'[cluster[k]])
      /\ UNCHANGED <<chain, bucketCache, strategy, bucket, exclude, cluster, outcome,
                     existed, starts>>
  BY DEF NodesArrive
<1>2. cluster[k] \in Clusters
  BY <1>1 DEF Query, Known, OnItsCluster
<1>3. list \in SUBSET Urls /\ list \in past[cluster[k]]
  BY <1>1, <1>2, NodesOfTyped DEF Query, ListAnswer
<1> HIDE DEF list
<1>4. /\ clusterNodes' \in [Clusters -> (SUBSET Urls) \cup {None}]
      /\ clusterNodes'[cluster[k]] = list
  BY <1>1, <1>2, <1>3 DEF DiscoveryTypeOK
<1>5. Cached'
  <2>1. ASSUME NEW c \in Clusters, clusterNodes'[c] # None PROVE clusterNodes'[c] \in past[c]
    BY <1>1, <1>2, <1>3, <2>1 DEF Cached, DiscoveryTypeOK
  <2>2. QED BY <1>1, <2>1 DEF Cached, chain
<1>6. QED BY <1>1, <1>3, <1>4, <1>5, UseNodesStep

LEMMA QueryFailsStep ==
    ASSUME DiscoveryInv, NEW k \in Calls, QueryFails(k)
    PROVE  DiscoveryInv'
<1> USE DEF DiscoveryInv
<1> DEFINE o == Rejected("chain")
<1>1. /\ Settle(k, o)
      /\ UNCHANGED <<chain, caches, strategy, bucket, exclude, existed, starts>>
  BY DEF QueryFails
<1>2. /\ o \in [state : {"no bucket", "no node", "chain", "found"}, node : Urls \cup {None}]
      /\ o.state = "chain"
  BY DEF Rejected
<1> HIDE DEF o
<1>3. /\ Cached' /\ bucketCache' \in [Buckets -> Clusters \cup {None}]
      /\ clusterNodes' \in [Clusters -> (SUBSET Urls) \cup {None}]
  BY <1>1 DEF Cached, DiscoveryTypeOK, chain, caches
<1>4. QED BY <1>1, <1>2, <1>3, SettleStep

LEMMA ChooseStep ==
    ASSUME DiscoveryInv, NEW k \in Calls, Choose(k)
    PROVE  DiscoveryInv'
<1> USE DEF DiscoveryInv
<1>1. /\ UNCHANGED <<chain, caches, strategy, bucket, exclude, existed, starts>>
      /\ pc[k] = "choose"
  BY DEF Choose
<1>2. /\ Cached' /\ bucketCache' \in [Buckets -> Clusters \cup {None}]
      /\ clusterNodes' \in [Clusters -> (SUBSET Urls) \cup {None}]
  BY <1>1 DEF Cached, DiscoveryTypeOK, chain, caches
<1>3. ASSUME NEW u \in Remaining(k), Settle(k, Found(u)) PROVE DiscoveryInv'
  <2> DEFINE o == Found(u)
  <2>1. /\ o \in [state : {"no bucket", "no node", "chain", "found"}, node : Urls \cup {None}]
        /\ o.state = "found" /\ o.node \in nodes[k] \ exclude[k]
    BY DEF Found, Remaining, DiscoveryTypeOK
  <2>2. Known(k) /\ Settle(k, o)
    BY <1>3 DEF Query
  <2> HIDE DEF o
  <2>3. QED BY <1>1, <1>2, <2>1, <2>2, SettleStep
<1>4. CASE Settle(k, Rejected("no node"))
  <2> DEFINE o == Rejected("no node")
  <2>1. /\ o \in [state : {"no bucket", "no node", "chain", "found"}, node : Urls \cup {None}]
        /\ o.state = "no node" /\ Settle(k, o)
    BY <1>4 DEF Rejected
  <2> HIDE DEF o
  <2>2. QED BY <1>1, <1>2, <2>1, SettleStep
<1>5. QED BY <1>3, <1>4 DEF Choose

(* What the chain answers is what it has. *)
LEMMA ChainAnswersStep ==
    ASSUME DiscoveryInv, NEW k \in Calls, ChainAnswers(k)
    PROVE  DiscoveryInv'
<1> USE DEF DiscoveryInv
<1>1. UNCHANGED <<chain, caches, strategy, pc, bucket, exclude, cluster, nodes, outcome,
                  existed, starts>>
  BY DEF ChainAnswers
<1>2. QueryBegun(k) /\ BucketAnswer(k) /\ ListAnswer(k) /\ Known(k) /\ Outcome(k)
  BY DEF Query
<1>3. PICK a \in Answers : /\ answer' = [answer EXCEPT ![k] = <<a>>]
                           /\ \/ pc[k] = "bucket asked" /\ a = bucketOn[bucket[k]]
                              \/ pc[k] = "nodes asked" /\ a = Listed
  <2>1. CASE pc[k] = "bucket asked" /\ answer' = [answer EXCEPT ![k] = <<bucketOn[bucket[k]]>>]
    <3>1. bucketOn[bucket[k]] \in Clusters \cup {Missing}
      BY <1>2, <2>1 DEF QueryBegun, DiscoveryTypeOK
    <3>2. QED BY <2>1, <3>1 DEF Answers
  <2>2. CASE pc[k] = "nodes asked" /\ answer' = [answer EXCEPT ![k] = <<Listed>>]
    <3>1. Listed \in SUBSET [cluster : Clusters \cup {None}, url : Urls]
      BY ListedTyped DEF DiscoveryTypeOK
    <3>2. QED BY <2>2, <3>1 DEF Answers
  <2>3. QED BY <2>1, <2>2 DEF ChainAnswers
<1>4. answer' \in [Calls -> {<<>>} \cup {<<b>> : b \in Answers}] /\ answer'[k] = <<a>>
  BY <1>3 DEF DiscoveryTypeOK
<1>5. DiscoveryTypeOK'
  BY <1>1, <1>4, Typed DEF DiscoveryTypeOK, caches
<1>6. Apart(k)
  BY <1>1, <1>3 DEF Apart, DiscoveryTypeOK
<1>7. Cached'
  BY <1>1 DEF Cached, chain, caches
<1>8. QueryBegun(k)'
  BY <1>1, <1>2 DEF QueryBegun, chain
<1>9. BucketAnswer(k)'
  <2> SUFFICES ASSUME pc[k] = "bucket asked" PROVE BucketAnswer(k)'
    BY <1>1 DEF BucketAnswer
  <2>1. /\ answer'[k][1] = bucketOn[bucket[k]] /\ bucket[k] \in Buckets
        /\ existed[k] = TRUE => bucketOn[bucket[k]] # Missing
    BY <1>2, <1>3, <1>4 DEF QueryBegun
  <2>2. bucketOn[bucket[k]] \in Clusters \cup {Missing}
    BY <2>1 DEF DiscoveryTypeOK
  <2>3. UNCHANGED <<bucketOn, bucket, existed>>
    BY <1>1 DEF chain
  <2>4. QED BY <2>1, <2>2, <2>3 DEF BucketAnswer
<1>10. ListAnswer(k)'
  <2> SUFFICES ASSUME pc[k] = "nodes asked" PROVE ListAnswer(k)'
    BY <1>1 DEF ListAnswer
  <2>1. /\ answer'[k][1] = Listed
        /\ Listed \in SUBSET [cluster : Clusters \cup {None}, url : Urls]
    BY <1>3, <1>4, ListedTyped DEF DiscoveryTypeOK
  <2>2. \A c \in Clusters : NodesOf(answer'[k][1], c) \in past[c]
    BY <2>1 DEF Current
  <2>3. past' = past
    BY <1>1 DEF chain
  <2>4. QED BY <2>1, <2>2, <2>3 DEF ListAnswer, NodesOf
<1>11. Known(k)' /\ Outcome(k)'
  BY <1>1, <1>2 DEF Known, OnItsCluster, Outcome, chain
<1>12. QED BY <1>1, <1>5, <1>6, <1>7, <1>8, <1>9, <1>10, <1>11, OneCall DEF Query

LEMMA NextDiscoveryInv == DiscoveryInv /\ [NextDiscovery]_discoveryVars => DiscoveryInv'
<1> SUFFICES ASSUME DiscoveryInv, [NextDiscovery]_discoveryVars PROVE DiscoveryInv'
  OBVIOUS
<1>1. CASE UNCHANGED discoveryVars
  <2>1. UNCHANGED <<chain, caches, strategy, call>>
    BY <1>1 DEF discoveryVars
  <2>2. DiscoveryTypeOK' /\ Cached' /\ Current'
    <3>1. DiscoveryTypeOK'
      BY <2>1 DEF DiscoveryInv, DiscoveryTypeOK, chain, caches, call
    <3>2. Cached'
      BY <2>1 DEF DiscoveryInv, Cached, chain, caches
    <3>3. Current'
      BY <2>1 DEF DiscoveryInv, Current, NodesOf, Listed, chain
    <3>4. QED BY <3>1, <3>2, <3>3
  <2>3. ASSUME NEW k \in Calls PROVE Query(k)' /\ Outcome(k)'
    <3>1. Query(k) /\ Outcome(k)
      BY DEF DiscoveryInv
    <3>2. QueryBegun(k)'
      BY <2>1, <3>1 DEF Query, QueryBegun, chain, call
    <3>3. BucketAnswer(k)' /\ Known(k)' /\ Outcome(k)'
      BY <2>1, <3>1 DEF Query, BucketAnswer, Known, OnItsCluster, Outcome, chain, call
    <3>4. ListAnswer(k)'
      BY <2>1, <3>1 DEF Query, ListAnswer, NodesOf, chain, call
    <3>5. QED BY <3>2, <3>3, <3>4 DEF Query
  <2>4. QED BY <2>2, <2>3 DEF DiscoveryInv
<1>2. CASE ChainChanges
  BY <1>2, ChainStep
<1>3. ASSUME NEW k \in Calls, NEW b \in Buckets, NEW tried \in SUBSET Urls, BeginGetNode(k, b, tried)
      PROVE  DiscoveryInv'
  BY <1>3, BeginGetNodeStep
<1>4. ASSUME NEW k \in Calls, CallStep(k) PROVE DiscoveryInv'
  BY <1>4, GetBucketStep, BucketArrivesStep, GetClusterNodesStep, NodesArriveStep,
     QueryFailsStep, ChooseStep DEF CallStep
<1>5. ASSUME NEW k \in Calls, ChainAnswers(k) PROVE DiscoveryInv'
  BY <1>5, ChainAnswersStep
<1>6. QED BY <1>1, <1>2, <1>3, <1>4, <1>5 DEF NextDiscovery

-----------------------------------------------------------------------------
(* The types of the caches, of the chain and of what a call knows. *)
THEOREM DiscoveryTypeCorrect == DiscoverySpec => []DiscoveryTypeOK
<1>1. DiscoveryInv => DiscoveryTypeOK
  BY DEF DiscoveryInv
<1>2. QED BY InitDiscoveryInv, NextDiscoveryInv, <1>1, PTL DEF DiscoverySpec

(* The nodes of a cluster, cached or used, are those it had at one moment,
   however queries, answers and changes of the chain overlap. *)
THEOREM ListsAreOfOneMoment == DiscoverySpec => []NodesOfOneMoment
<1>1. DiscoveryInv => NodesOfOneMoment
  <2> SUFFICES ASSUME DiscoveryInv PROVE NodesOfOneMoment
    OBVIOUS
  <2>1. \A c \in Clusters : clusterNodes[c] # None => clusterNodes[c] \in past[c]
    BY DEF DiscoveryInv, Cached
  <2>2. ASSUME strategy = "blockchain", NEW k \in Calls
        PROVE  /\ pc[k] = "choose" => nodes[k] \in past[bucketOn[bucket[k]]]
               /\ outcome[k].state = "found" /\ pc[k] = "idle" =>
                      /\ outcome[k].node \notin exclude[k]
                      /\ \E list \in past[bucketOn[bucket[k]]] : outcome[k].node \in list
    BY <2>2 DEF DiscoveryInv, Query, Known, OnItsCluster, Outcome
  <2>3. QED BY <2>1, <2>2 DEF NodesOfOneMoment
<1>2. QED BY InitDiscoveryInv, NextDiscoveryInv, <1>1, PTL DEF DiscoverySpec

(* A bucket is reported missing only if it was when getNode was called. *)
THEOREM MissingIsForgotten == DiscoverySpec => []MissingIsNotKept
<1>1. DiscoveryInv => MissingIsNotKept
  BY DEF DiscoveryInv, Outcome, MissingIsNotKept
<1>2. QED BY InitDiscoveryInv, NextDiscoveryInv, <1>1, PTL DEF DiscoverySpec

-----------------------------------------------------------------------------
(* Why getNode comes to an end: it asks for the bucket once, for the nodes
   once, and chooses. *)
PlaceLeft(place) ==
    IF place = "bucket" THEN 7 ELSE IF place = "bucket asked" THEN 6
    ELSE IF place = "nodes" THEN 4 ELSE IF place = "nodes asked" THEN 3
    ELSE IF place = "choose" THEN 1 ELSE 0

AnsweredLeft(place) ==
    IF place = "bucket" THEN 7 ELSE IF place = "bucket asked" THEN 5
    ELSE IF place = "nodes" THEN 4 ELSE IF place = "nodes asked" THEN 2
    ELSE IF place = "choose" THEN 1 ELSE 0

DiscoveryLeft(k) ==
    IF answer[k] = <<>> THEN PlaceLeft(pc[k]) ELSE AnsweredLeft(pc[k])

DiscoveryAdvances ==
    \E k \in Calls :
        /\ pc[k] = "idle" \/ DiscoveryLeft(k)' < DiscoveryLeft(k)
        /\ \A j \in Calls \ {k} : DiscoveryLeft(j)' = DiscoveryLeft(j)

LEMMA DiscoveryLeftIsNat == \A k \in Calls : DiscoveryLeft(k) \in 0..7
<1>1. \A place : PlaceLeft(place) \in 0..7 /\ AnsweredLeft(place) \in 0..7
  BY DEF PlaceLeft, AnsweredLeft
<1>2. QED BY <1>1 DEF DiscoveryLeft

LEMMA PlacesInOrder ==
    /\ PlaceLeft("choose") < PlaceLeft("bucket") /\ PlaceLeft("choose") < AnsweredLeft("bucket")
    /\ PlaceLeft("bucket asked") < PlaceLeft("bucket") /\ PlaceLeft("bucket asked") < AnsweredLeft("bucket")
    /\ PlaceLeft("idle") < PlaceLeft("bucket") /\ PlaceLeft("idle") < AnsweredLeft("bucket")
    /\ PlaceLeft("nodes") < PlaceLeft("bucket") /\ PlaceLeft("nodes") < AnsweredLeft("bucket")
    /\ PlaceLeft("idle") < PlaceLeft("bucket asked") /\ PlaceLeft("idle") < AnsweredLeft("bucket asked")
    /\ PlaceLeft("nodes") < PlaceLeft("bucket asked") /\ PlaceLeft("nodes") < AnsweredLeft("bucket asked")
    /\ PlaceLeft("nodes asked") < PlaceLeft("nodes") /\ PlaceLeft("nodes asked") < AnsweredLeft("nodes")
    /\ PlaceLeft("choose") < PlaceLeft("nodes") /\ PlaceLeft("choose") < AnsweredLeft("nodes")
    /\ PlaceLeft("choose") < PlaceLeft("nodes asked") /\ PlaceLeft("choose") < AnsweredLeft("nodes asked")
    /\ PlaceLeft("idle") < PlaceLeft("nodes asked") /\ PlaceLeft("idle") < AnsweredLeft("nodes asked")
    /\ PlaceLeft("idle") < PlaceLeft("choose") /\ PlaceLeft("idle") < AnsweredLeft("choose")
    /\ AnsweredLeft("bucket asked") < PlaceLeft("bucket asked")
    /\ AnsweredLeft("nodes asked") < PlaceLeft("nodes asked")
  BY DEF PlaceLeft, AnsweredLeft

(* Go is a step forward from each of its places. *)
LEMMA GoIsForward ==
    ASSUME NEW from, NEW to,
           \/ from = "bucket" /\ to \in {"choose", "bucket asked", "idle", "nodes"}
           \/ from = "bucket asked" /\ to \in {"idle", "nodes"}
           \/ from = "nodes" /\ to \in {"nodes asked", "choose"}
           \/ from = "nodes asked" /\ to \in {"choose", "idle"}
           \/ from = "choose" /\ to = "idle"
    PROVE  PlaceLeft(to) < PlaceLeft(from) /\ PlaceLeft(to) < AnsweredLeft(from)
<1>1. CASE from = "bucket"
  BY <1>1, PlacesInOrder
<1>2. CASE from = "bucket asked"
  BY <1>2, PlacesInOrder
<1>3. CASE from = "nodes"
  BY <1>3, PlacesInOrder
<1>4. CASE from = "nodes asked"
  BY <1>4, PlacesInOrder
<1>5. CASE from = "choose"
  BY <1>5, PlacesInOrder
<1>6. QED BY <1>1, <1>2, <1>3, <1>4, <1>5

LEMMA DiscoveryStepIsProgress ==
    ASSUME DiscoveryInv, [NextDiscovery]_discoveryVars
    PROVE  UNCHANGED <<pc, answer>> \/ DiscoveryAdvances
<1>t. pc \in [Calls -> Places] /\ DOMAIN answer = Calls
  BY DEF DiscoveryInv, DiscoveryTypeOK
<1>1. ASSUME NEW k \in Calls, NEW to, Go(k, to),
             \/ pc[k] = "idle"
             \/ PlaceLeft(to) < PlaceLeft(pc[k]) /\ PlaceLeft(to) < AnsweredLeft(pc[k])
      PROVE  DiscoveryAdvances
  <2>1. /\ pc'[k] = to /\ answer'[k] = <<>>
        /\ \A j \in Calls \ {k} : pc'[j] = pc[j] /\ answer'[j] = answer[j]
    BY <1>t, <1>1 DEF Go
  <2>2. DiscoveryLeft(k)' = PlaceLeft(to)
    BY <2>1 DEF DiscoveryLeft
  <2>3. pc[k] = "idle" \/ PlaceLeft(to) < DiscoveryLeft(k)
    BY <1>1 DEF DiscoveryLeft
  <2>4. \A j \in Calls \ {k} : DiscoveryLeft(j)' = DiscoveryLeft(j)
    BY <2>1 DEF DiscoveryLeft
  <2>5. QED BY <2>2, <2>3, <2>4 DEF DiscoveryAdvances
<1>2. ASSUME NEW k \in Calls, NEW b, NEW tried, BeginGetNode(k, b, tried)
      PROVE  DiscoveryAdvances
  BY <1>1, <1>2 DEF BeginGetNode
<1>3. ASSUME NEW k \in Calls, GetBucket(k) PROVE DiscoveryAdvances
  <2>1. PICK to \in {"choose", "bucket asked", "idle", "nodes"} : Go(k, to)
    BY <1>3 DEF GetBucket, UseNodes, UseBucket, Settle
  <2>2. pc[k] = "bucket"
    BY <1>3 DEF GetBucket
  <2>3. PlaceLeft(to) < PlaceLeft(pc[k]) /\ PlaceLeft(to) < AnsweredLeft(pc[k])
    BY <2>2, GoIsForward
  <2>4. QED BY <1>1, <2>1, <2>3
<1>4. ASSUME NEW k \in Calls, BucketArrives(k) PROVE DiscoveryAdvances
  <2>1. PICK to \in {"idle", "nodes"} : Go(k, to)
    BY <1>4 DEF BucketArrives, UseBucket, Settle
  <2>2. pc[k] = "bucket asked"
    BY <1>4 DEF BucketArrives
  <2>3. PlaceLeft(to) < PlaceLeft(pc[k]) /\ PlaceLeft(to) < AnsweredLeft(pc[k])
    BY <2>2, GoIsForward
  <2>4. QED BY <1>1, <2>1, <2>3
<1>5. ASSUME NEW k \in Calls, GetClusterNodes(k) PROVE DiscoveryAdvances
  <2>1. PICK to \in {"nodes asked", "choose"} : Go(k, to)
    BY <1>5 DEF GetClusterNodes, UseNodes
  <2>2. pc[k] = "nodes"
    BY <1>5 DEF GetClusterNodes
  <2>3. PlaceLeft(to) < PlaceLeft(pc[k]) /\ PlaceLeft(to) < AnsweredLeft(pc[k])
    BY <2>2, GoIsForward
  <2>4. QED BY <1>1, <2>1, <2>3
<1>6. ASSUME NEW k \in Calls, NodesArrive(k) PROVE DiscoveryAdvances
  <2>1. Go(k, "choose") /\ pc[k] = "nodes asked"
    BY <1>6 DEF NodesArrive, UseNodes
  <2>2. PlaceLeft("choose") < PlaceLeft(pc[k]) /\ PlaceLeft("choose") < AnsweredLeft(pc[k])
    BY <2>1, GoIsForward
  <2>3. QED BY <1>1, <2>1, <2>2
<1>7. ASSUME NEW k \in Calls, QueryFails(k) \/ Choose(k) PROVE DiscoveryAdvances
  <2>1. Go(k, "idle") /\ pc[k] \in {"bucket asked", "nodes asked", "choose"}
    BY <1>7 DEF QueryFails, Choose, Settle
  <2>2. PlaceLeft("idle") < PlaceLeft(pc[k]) /\ PlaceLeft("idle") < AnsweredLeft(pc[k])
    BY <2>1, GoIsForward
  <2>3. QED BY <1>1, <2>1, <2>2
<1>8. ASSUME NEW k \in Calls, ChainAnswers(k) PROVE DiscoveryAdvances
  <2>1. PICK a : answer' = [answer EXCEPT ![k] = <<a>>]
    BY <1>8 DEF ChainAnswers
  <2>2. Len(<<a>>) = 1 /\ Len(<<>>) = 0
    OBVIOUS
  <2>3. answer'[k] # <<>> /\ \A j \in Calls \ {k} : answer'[j] = answer[j]
    BY <1>t, <2>1, <2>2
  <2>4. /\ UNCHANGED pc /\ answer[k] = <<>> /\ pc[k] \in {"bucket asked", "nodes asked"}
    BY <1>8 DEF ChainAnswers
  <2>5. DiscoveryLeft(k)' = AnsweredLeft(pc[k]) /\ DiscoveryLeft(k) = PlaceLeft(pc[k])
    BY <2>3, <2>4 DEF DiscoveryLeft
  <2>6. AnsweredLeft(pc[k]) < PlaceLeft(pc[k])
    BY <2>4, PlacesInOrder
  <2>7. \A j \in Calls \ {k} : DiscoveryLeft(j)' = DiscoveryLeft(j)
    BY <2>3, <2>4 DEF DiscoveryLeft
  <2>8. DiscoveryLeft(k)' < DiscoveryLeft(k)
    BY <2>5, <2>6
  <2>9. QED BY <2>7, <2>8 DEF DiscoveryAdvances
<1>9. CASE ChainChanges \/ UNCHANGED discoveryVars
  BY <1>9 DEF ChainChanges, CreateBucket, AddStorageNodeToCluster,
     RemoveStorageNodeFromCluster, SetStorageNodeProps, Change, call, discoveryVars
<1>10. QED BY <1>2, <1>3, <1>4, <1>5, <1>6, <1>7, <1>8, <1>9 DEF NextDiscovery, CallStep

(* getNode is wait-free: a call that has begun is at most seven steps from its
   node or its error, every step of a call or answer to one brings it nearer,
   and no other call and no change of the chain sets it back; a list that has
   become stale is used and not fetched again (BlockchainStrategy.ts:57-70). *)
THEOREM DiscoveriesAdvance ==
    DiscoverySpec => /\ [](\A k \in Calls : DiscoveryLeft(k) \in 0..7)
                     /\ [][DiscoveryAdvances]_<<pc, answer>>
<1>1. DiscoveryInv /\ [NextDiscovery]_discoveryVars => [DiscoveryAdvances]_<<pc, answer>>
  BY DiscoveryStepIsProgress
<1>2. QED BY <1>1, InitDiscoveryInv, NextDiscoveryInv, DiscoveryLeftIsNat, PTL DEF DiscoverySpec
=============================================================================
