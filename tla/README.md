# Verification of the Cere DDC SDK

TLA+ models of the SDK in `packages/`, checked with TLC on small instances and, for the
properties that matter most, proved with TLAPS for every value of the constants. The SDK is
a client: it stores and reads pieces, DAG nodes and names on the storage nodes of a DDC
cluster, finds those nodes on a blockchain, signs what it does and sends transactions. Its
hard behaviours are all in what happens between two awaits and after a failure: retries over
several nodes, calls whose answer is lost, streams that can be read only once, promises and
caches shared by concurrent operations, a wallet whose user does something else meanwhile, a
chain that takes a block back.

To check a model, `tlc -config <cfg> <MC module>`; to check a proof, `tlapm <module>`.
`PROJECT.json` lists the runs, the source lines behind every definition, the hazards of the
code and the theorems.

## 1. The system

`DdcClient` (package `ddc-client`) is what an application calls. A file goes through
`FileStorage`, which cuts it into pieces; a piece, a DAG node or a name goes through
`BalancedNode`, which asks the `Router` for a `StorageNode` and repeats the operation on
another one when it fails; the `StorageNode` makes the gRPC calls with `FileApi`, `DagApi`
and `CnsApi`. The router asks a `RoutingStrategy` for the nodes of the bucket and gives each
node an SDK token signed by the `Signer`. Buckets, deposits and clusters are on the
blockchain, reached through `Blockchain` and its pallets.

| Component | State it keeps | Operations | Interacts with | What is hard | What makes it correct |
|---|---|---|---|---|---|
| `BalancedNode` | per operation: attempt, exclusion list, last node error, last router error | `storePiece` ... `resolveName`, all through `withRetry` | router (await), node (await), async-retry (callback) | retries, two kinds of errors, reuse of a node when none is left | another node first, load spread, the cause reported, ends within its attempts |
| `StorageNode`, `FileApi` (store) | per call: clone of the piece, reader lock, position | `storePiece`, `storeDagNode` | node (stream call), `CnsApi` | lost and late answers, one-shot content, two requests for one operation | no partial piece, no name without its piece |
| `FileApi` (read), validators, `createContentStream` | per call: bytes counted and hashed, a queue of one chunk | `getFile`, `readPiece` | node (responses), reader (pull), signer (acknowledgments) | prefetch, validation after delivery, errors anywhere | receipts are honest, the end is authentic |
| `FileStorage`, `withChunkSize` | per store: buffer, offset, parts | `store`, `read` | body (chunks), `storePiece` | chunk and part boundaries, declared size that is wrong | parts tile the body, manifest complete, memory bounded |
| `PingStrategy`, `NodeTypeStrategy`, `RandomStrategy` | the map of pings, shared | `marshalNodes`, `selectNode` | nodes (ping), concurrent operations | map read before and after an await | one ping a node, enough pings, best node of its level |
| `Router`, `sdkToken`, `CereWalletSigner` | the last token promise, the keys of the SDK, the account | `getNode` | strategy, wallet (prompts, account events) | promises chained over operations, account switched or denied | no needless prompt, the token of the right account, the right key |
| `Blockchain`, `DDCCustomersPallet`, `DdcClient` | per send: a promise | `send`, `batchSend`, `batchAllSend`, `depositBalance`, `removeBuckets` | chain (status callbacks) | forks, dropped and replaced transactions, check-then-act | resolved is final, what is reported happened |
| `Router`, `BlockchainStrategy`, `StaticStrategy` | caches of nodes by cluster and of clusters by bucket, for the life of the client | `getNode`, `getNodes` | chain (queries), concurrent operations | queries that overlap, answers out of order, a chain that changes, caches that are never emptied | a list is of one cluster and one moment, absence is not cached, no excluded node |
| `StorageNode`, `DagApi`, `CnsApi`, validators (read) | none between calls | `readPiece`, `getDagNode`, `getCnsRecord`, `resolveName` | node, `BalancedNode` | nodes that disagree about a name, answers that do not fit the request, one error that means "absent" | what is returned is what was asked for, by the name its node has |
| `WebsocketTransport`, `TimeoutInterceptor` | per call: four promises, a stream, a timer | unary, client-streaming and duplex calls | `@improbable-eng/grpc-web` (callbacks), the APIs (awaits) | a status in the headers and another one at the end, a timer that races the answer, a promise nobody settles | the node's status reaches the caller, an answered call is not timed out, no call hangs |
| `AuthToken`, signatures, the generated messages | a token and its parents | `sign`, `toString`, `from`, delegation | signers, nodes | what is signed is written again later, other implementations on the other side | a message survives the wire, a grant works and gives no more than was granted |
| `DdcClient`, `DdcUri`, CLI | per command: entries still to do, links, results | upload, download, `store`, `read`, `resolveName` | all of the above, the local file system | names that move on while a command runs, files that change, one file of many that fails | a root that can be found is complete, what is read is one upload |
| signers other than the wallet, logger, presets, the other pallets | none, or one key set once | one call each | | | |

`PROJECT.json` has the full list with the reason for each part that is left out.

## 2. Modules

| Module | Models | Proofs |
|---|---|---|
| `RetryContract` | abstract: what a caller of `BalancedNode` may rely on | |
| `BalancedNode` | `withRetry`; implements `RetryContract` | `BalancedNodeProofs` |
| `StorePiece` | `BalancedNode` with the body of a store attempt opened up; implements `BalancedNode` | `BalancedNodeProofs` |
| `FileStorage` | `store` and `withChunkSize` | `FileStorageProofs` |
| `FileDownload` | the content stream of `getFile` | `FileDownloadProofs` |
| `ReadPiece` | `BalancedNode` with the body of a read attempt opened up; implements `BalancedNode` | `BalancedNodeProofs` |
| `PingStrategy` | node selection by concurrent operations | `NodeCallProofs` |
| `NodeDiscovery` | `getNode` of the router, the caches of `BlockchainStrategy`, a chain that changes | `RouterProofs` |
| `SdkToken` | the token promises of the router, the wallet | `RouterProofs` |
| `RpcCall` | one call over `WebsocketTransport` with its timer and the method that made it | `NodeCallProofs` |
| `MessageFields`, `DescriptorMessages`, `WireMessages` | the generated message classes as lists of fields; writing and reading over them | `TokenProofs` |
| `AccessToken` | `AuthToken` and its delegation, over `WireMessages` | `TokenProofs` |
| `Transfer` | upload and download of files and trees, `store` and `read` with their URIs | `TransferProofs` |
| `Transactions` | `send` and the operations built on it, over a chain with forks | `TransactionsProofs` |

Each component has an `MC` module with the small instance that TLC checks. `StorePiece` and
`ReadPiece` EXTEND `BalancedNode`: their state adds to the variables of the retry loop, and
the actions of the loop (`RouterSelects`, `NodeSucceeds`, `NodeFails`, `Retry`) are conjuncts
of their own. The chain of refinement is `StorePiece`, `ReadPiece` => `BalancedNode` =>
`RetryContract`. `FileStorage` takes `storePiece` as one step that resolves or rejects, which
is what `RetryContract` promises of it, and `Transfer` takes `FileStorage` and the names in
the same way. The other modules meet at a value: `NodeDiscovery` yields the nodes that
`PingStrategy` selects from, that one the node `BalancedNode` is offered, `SdkToken` the token
it is offered with; `RpcCall` is what `StorePiece`, `ReadPiece` and `FileDownload` take as a
call that succeeds, fails or stays silent; `AccessToken` EXTENDS `WireMessages`, since a token
is a message and is signed as the bytes of one.

How state and actions correspond to the code:

* **BalancedNode.** All state is local to one call of `withRetry`, so one operation is
  modelled. `exclude` is the list the router is given (`Unshift` keeps the code's order),
  `lastOperationError` and `lastRouterError` the two remembered errors, `errors` those of
  async-retry. `RouterSelects`, `ReusePrevious`, `NobodyToAsk` and `RouterFails` are the four
  ways through `withRetry` before a node is called, `NodeSucceeds` and `NodeFails` the ways
  after it, `Retry` the timer. async-retry is external: attempts are numbered from 1, the most
  frequent error is the one reported, `bail` rejects at once.
* **StorePiece.** `body` is where the attempt is: opened, headers, sending, answer, naming.
  `cursor` and `locked` belong to the content that attempts may share, `sent` to the request.
  `Prefetch` is the pull a stream makes when it is created. `inflight` holds completed
  requests a node has not applied; `NodeApplies` applies one at any later time, so an answer
  can be lost before or after the effect, and a retry can overtake it. A CID is the content.
  `sized` is whether the size a content goes by is one a piece can have: for bytes their
  length, for anything else what the caller declares (`SizeGiven`), so a content may be longer
  than its size, and than a piece; the loop that sends it then stops at the limit.
* **FileStorage.** A byte is its place in the body. `CutPart` and `FlushPart` are the two
  halves of the transform, `PartStored` the loop over the parts, `ManifestStored` the end.
* **FileDownload.** `generator` is where `toDataStream` is suspended; `Enqueue` and `Read`
  are the two ends of the queue of one chunk. The node may send anything.
* **PingStrategy.** `marshalNodes` reads the map, awaits, reads it again, awaits the pings,
  sorts: `Begin`, `Enqueue`, `Select`, and `PingInBackground` after it, with other calls and
  the ends of pings (`PingResolves`, `PingRejects`) between any two.
* **SdkToken.** `links` is the chain of promises that `getSdkToken` extends; `ready` is the
  signer of a link, `stage` its token. `Keep` and `Create` are the two branches of the `then`;
  `SwitchAccount` is the wallet's subscription, `WalletSigns` and `WalletDenies` the user.
* **ReadPiece.** `stage` is where the attempt is: resolving the name, fetching the content.
  `recordOf` are the names as each node has them, changed by other clients at any time;
  `answer` is what the node says, which need not fit. `Resolved` is the fork of the four
  operations after `getRecord`; `IsNotFound` is the one error that is turned into "no record".
* **NodeDiscovery.** One action for each stretch between two awaits of `getNode`:
  `BeginGetNode`, `GetBucket`, `BucketArrives`, `GetClusterNodes`, `NodesArrive`, `Choose`,
  with `UseBucket` and `UseNodes` for the caches and the static list. `ChainAnswers` takes what
  the chain has at that moment and a later action delivers it, so answers overtake each other.
* **RpcCall.** `header`, `message`, `status`, `trailer` and `stream` are the promises of the
  call, `EmitError` and `OnEnd` what settles them, `TimerFires` the interceptor. `caller` is
  where `putRawPiece`, `getFile` or a unary method awaits.
* **WireMessages.** Every generated class is the same code over other fields, so a class is
  the list of its fields (`Plain`, `Optional`, `Packed`, `Message`, `Messages`, `Case`), and
  `Create`, `Write`, `ReadItem` and `KeepUnknown` are the code. `DescriptorMessages` has the
  classes of `google/protobuf/descriptor.ts` and `google/api/http.ts`; they are generated
  because `file_api.proto` names them, and no other code of the SDK imports them. What is
  written is a queue of items for each field, in the order of the class, and one for the
  fields the class does not know. The state machine is one message: written, rearranged as
  another implementation may write it (`ReadNext` takes the next item of any field, `SplitRun`
  splits a packed one), read. A class that has messages inside calls the code of their
  classes; the module calls it `Encode`, `Decode` and `IsNested`, CONSTANTS that the
  configuration closes to `Write`, `Read` and `IsMessage` again.
* **AccessToken.** `Grant`, `Delegate` and `Use` are `DdcClient.grantAccess`, `new AuthToken`
  with `prev`, and `StorageNode.createAuthToken`; a token is handed over as a string, so each
  of them reads what another one wrote. The check of a node (`ChainHolds`) is external: it
  takes what `protos/auth_token.proto` says of a chain (signatures, subjects, expiry,
  delegation, no more privileges than before, a limited depth) and one sentence, that a bucket
  and a piece are "mentioned only once in trust chain", in two readings: `strict`, that no link
  mentions what a link before it has, and not strict, that a link may repeat what the one right
  before it says. The proto names three and five as depths; `DepthLimit` is any number.
  `PrevHolds` and `PrevMentions` are the same check of the link before, closed like `Encode`.
  The messages of the other classes that are sent (`Sent`) are whatever a caller makes, nested
  to a depth of `MaxDepth`; `MCAccessToken` gives a sample of each. `links` and `narrowed` are
  history variables: how long the chain is, and whether each delegation was made by the subject
  and added nothing.
* **Transfer.** `todo` is the walk over the tree, one set of entries for each directory that is
  being listed (the order of `readdir` is not defined), `links` what the root will link,
  `stored` and `names` the cluster. A link is first a file that is being read (`Reading`): the
  size `fs.stat` gave, the blocks that have come out of its stream, and the content it goes on
  with when the file is removed while it is open. `ReadBlock` takes one block of what the file
  is at that moment; `FileStored` is the end of the stream, where the size decides whether it
  is a piece or parts whose total it declares (`CidOf`). `FileWritten` and `FileRemoved` are
  other programs, between any two blocks. `Visit`, `Return`, `FileStored` and `StoreRoot` are
  `uploadDir`, `ResolveName`, `ReadDir` and `SaveLink` the two reads of `download`.
* **Transactions.** `send[i]` is an operation with its promise. `Include` and `Finalize` are
  the callback of `signAndSend` together with the chain event it is told of, with what the SDK
  reads of its events (`extractRemovedBucketIds`, which drops the id 0); `Retract`,
  `Usurp`, `Drop` and `Unsubscribed` are the events it ignores.

## 3. Runs

Bounds are named in the modules (`Max...`) and given in the `.cfg` files.

| Run | Instance | Shows |
|---|---|---|
| `balanced_node` | 3 nodes, 6 attempts (the default), 2 retryable codes, 4 router faults | `LoadIsBalanced`, `NodeErrorIsReported`; `KeepsContract`, termination included |
| `store_piece` | 2 nodes, 3 attempts, contents of 0..3 chunks with a limit of 2, six kinds of content, any declared size | `NoDanglingName`, `NothingPartialIsStored` |
| `read_piece` | 2 nodes, 3 attempts, 2 contents, 2 changes of a record, four operations | `ContentFitsCid`, `NameIsOfTheAttempt`, `MissingIsMissing` |
| `file_storage` | parts of 2..5 bytes, files of 0..8, chunks of 0..4, any declared size | `PartsTileTheBody`, `FulfilledIsWhole`, `HeldIsBounded`, `StoreSettles` |
| `file_download` | a content of 2 chunks, 3 messages of the node | `AcknowledgedWasRead`, `ReadIsSent`, `EndIsAuthentic`, `StreamEnds` |
| `rpc_call` | a call of each kind, 2 codes, 2 chunks, 2 messages | `NodeStatusIsReported`, `AnsweredIsNotTimedOut`, `NoCallHangs` |
| `ping_strategy` | 3 nodes of the 3 modes, one with a priority of its own, 2 operations at a time that repeat for ever | `EnoughPinged`, `UnresponsiveIsLast`, `BestOfItsLevel`, `CallSelects` |
| `node_discovery` | 2 operations at a time, 3 in all, 2 nodes, 2 clusters, 2 changes of the chain | `NodesOfOneMoment`, `MissingIsNotKept` |
| `sdk_token` | 3 calls, 2 accounts, 1 switch | `PromptsAreNeeded`, `TokenIsOfAccount`, `RequestIsSignedBySubject`, `CallsEnd` |
| `access_token` | every message class with any of its fields (descriptors with up to 2); chains of up to 3 tokens of an owner and 2 users, one more link in a request, a node that takes 3; restricted to a bucket, a piece or nothing | `MessageSurvives`, `SignatureSurvives`, `GrantWorks`, `UseAddsNothing` |
| `transfer` | 2 commands on 1 name and a tree of 3 files with a nested directory, one file hidden, files of 0..2 blocks with parts of 1, 1 change of a file of 2 blocks at any moment, an earlier upload | `RootIsComplete`, `ReadIsOneUpload` |
| `transactions` | 2 operations out of 5 requests, 2 buckets of which one has the id 0, 2 forks, 1 other depositor | `ResolvedIsFinal`, `RemovedIsReported`, `DepositIsRefusedForAReason`, `SettlesUnlessLost` |

The type invariants (`TypeOK`, `StoreTypeOK`, `ReadTypeOK`) are not in the runs: they are
theorems of section 5.

Why the bounds are enough. The retry loop has three regimes (nodes left, none left but one to
repeat, nothing to ask) and three nodes with six attempts pass through each more than once; a
pair of nodes is what a refinement of "another node" needs in `store_piece`, and three attempts
let a late request of the first meet the third. Parts of two bytes and chunks of up to four
give every position of a chunk against a part boundary, with two and more parts in a chunk and
several chunks in a part. A content of two chunks has a first, a last and a wrong order; a
third message makes one too many. Two operations on a shared map are the smallest race, three
nodes leave one unpinged at a threshold of two. Three calls make a link that is neither first
nor last, and one switch falls before, between or after any two of their steps. Two operations
of one account are the smallest competition for a nonce, and with a foreign deposit and two
forks a transaction is included, taken back, and included again after the state it depends on
has changed. Two nodes whose records differ, two contents and three attempts give a name that
is resolved, fails, and is resolved to something else by the next attempt on either node. A
third `getNode` finds the caches the first two left, and two changes let a node move out of a
cluster and another one in between two answers. A call has a fixed number of promises, so only
the messages and chunks are bounded there, and the second of each is the one that comes after a
success of the first. The fields of a message do not interact but by their order, by the case
of a oneof and by the length of a packed field, and each class of the node APIs is checked with
all of its fields; a chain of three tokens has a link that is neither the owner's nor the one
that is used, and with the link of the request it is one longer than the node takes. Two blocks
are the fewest of which one is read before a change and one after it, and a content of none and
of one cut the file short. Two commands are one that uploads and one that downloads, or two
that upload under one name; the earlier upload gives the name something to stand for before
they start. What is proved (section 5) holds for every value, so there the bounds do not
matter.

Every property of a passing run is tested by a mutant (`PROJECT.json`): a plausible bug in
one definition, under which TLC finds the property violated.

## 4. Disagreements between code and text

Ten sentences of the repository are stated as properties in the modules although the code
does not keep them. No run of section 3 has them; to see the behaviour, name the definition
as the only INVARIANT or PROPERTY of the component's configuration.

* `FirstAttemptSendsThePiece` (`StorePiece`, invariant): the condition of the clone is
  `attempt > 0` and async-retry numbers attempts from 1, so the first attempt is cloned as
  well (`BalancedNode.ts:192`). The body of the caller's piece has already pulled from a
  one-shot iterable when the clone takes it over, and the first chunks are lost. The comment:
  "Clone the piece if it is a piece and this is not the first attempt."
  (`BalancedNode.ts:189`).
* `SilentCallEnds` (`StorePiece`, property of `TimersSpec`): the timer of a stream call is
  stopped by its headers (`TimeoutInterceptor.ts:49`), so a call whose answer never comes is
  never aborted. The class: "An interceptor that adds a timeout to all RPC calls."
  (`TimeoutInterceptor.ts:60`); the constant: "Default inactivity timeout for gRPC requests, in
  milliseconds." (`constants.ts:38`).
* `CountedAreSettled` (`PingStrategy`, property): for a node already in the map `enqueuePing`
  returns the record and not its promise (`PingStrategy.ts:65`), so a ping started by another
  operation is counted and not awaited. The comment: "Include already pinged nodes to make
  sure they are settled" (`PingStrategy.ts:87`).
* `OverlongIsRefused` (`StorePiece`, invariant): only the declared size of a stream is compared
  with the limit (`Piece.ts:79-85`, `FileApi.ts:142-153`). The loop that sends it ends at the
  limit without an error (`FileApi.ts:184`) and gives the stream back unlocked (`:201`): its
  beginning is stored as a piece, and when the answer is lost the retry stores what follows as
  another one. That is why `NothingPartialIsStored` is about contents that fit a piece. The
  comment: "Will throw an error if the size of the raw piece cannot be determined, or if it
  exceeds the maximum size." (`FileApi.ts:123`).
* `PreferredIsFirst` (`PingStrategy`, property): latency overrules a configured priority
  (`PingStrategy.ts:104`), and a node that did not answer is last (`:112`), as the comment
  "Keep nodes without ping at the end for fallback scenarios" says and `UnresponsiveIsLast`
  shows. A test gives an unreachable node the priority 0 and says "Should be selected first"
  (`tests/specs/Routing.spec.ts:197`), of the next one "Should fallback to this node from the
  unreachable one" (`:203`).
* `RefusedForAReason` (`SdkToken`, invariant, with two switches): each token promise waits
  for the one before it (`Router.ts:53`), so one denied prompt, or a moment without an
  account, rejects every later promise of the router, and no call asks the user again. The
  comment: "Returns an SDK token for the current signer" (`Router.ts:50`).
* `SendSettles` (`Transactions`, property): the callback handles a finalized status and a
  dispatch error only (`Blockchain.ts:193`); a transaction that is usurped or dropped, or
  whose subscription is lost, gets neither. The comment: "A promise that resolves to the
  result of the transaction." (`Blockchain.ts:164`).
* `EveryRemovedIsReported` (`Transactions`, invariant): `extractRemovedBucketIds` filters the
  ids as booleans (`DDCCustomersPallet.ts:318`), so a bucket with the id 0 is removed and not
  reported. `RemovedIsReported` is about the others. The comment: "Extracts the IDs of the
  removed buckets from the given events." (`DDCCustomersPallet.ts:301`).
* `RestrictedGrantWorks` (`AccessToken`, invariant): the link that the account a token is for
  puts after it repeats its bucket and its piece (`AuthToken.ts:185-190`). The proto says of
  both: "mentioned only once in trust chain" (`auth_token.proto:18`, `:21`); a node that takes
  this at its word refuses the request. `GrantWorks` says which grants such a node accepts:
  those sent as they are, and those whose restrictions are in links before them.
* `StoredIsOneContent` (`Transfer`, invariant): a file is read while its pieces are stored
  (`uploadFile.ts:17`, `FileStorage.ts:116-138`). One that is written meanwhile is stored as
  blocks of before and blocks of after, a content it never had, and one that is cut short as
  parts that are fewer than the total size they declare; nothing compares the file with what
  it was. `RootIsComplete` says what is still true: a file that did not change is stored as it
  is, and of any other each block was in its place at some time. The comment: "Stores a file in
  the DDC. Large files are stored as a collection of pieces." (`FileStorage.ts:141`).

Seen while modelling, part of the models' behaviour or next to it:

* a stream that was sent whole is sent again, empty, when the retry follows a lost answer
  (`StorePiece`; it is why `NoPartialStream` allows an empty piece);
* the first request of `getFile` is sent without awaiting or catching it (`FileApi.ts:261`),
  and the stream of the content has no `cancel`, so the call of a reader that leaves stays
  open (`createStream.ts:95`);
* the part size sent with a manifest is rounded, the parts are not (`FileApi.ts:94`), and the
  size it declares is the caller's, never compared with the bytes read (`FileStorage.ts:131`);
* content with any non-empty proof is not validated (`FileValidator.ts:23`, a TODO admits it);
* `DagApi.getNode` says it returns undefined for a node that is not there (`DagApi.ts:99`);
  with `authenticate` that is an error of the hash. `DagNodeResponse.cid` is the root's CID
  when a path was given (`DagNode.ts:172`);
* one node without a record ends a read by name, although another node may have it
  (`StorageNode.ts:422-437`: the error is not retryable);
* background pings add nothing while an operation pings enough itself (`PingStrategy.ts:85`),
  and a latency of zero ranks last (`:112`);
* an empty list of nodes is cached like any other, for the life of the client
  (`BlockchainStrategy.ts:58-67`), and when calls overlap the last answer is the one that
  stays, be it the older (`:67`): the attempts of one operation may choose from two lists;
* a unary call over `WebsocketTransport` does not use the timeout it is given
  (`TimeoutInterceptor.ts:60` claims all calls), the composed signal loses the reason of an
  abort, and an OK without a message leaves a unary call pending (`WebsocketTransport.ts:298`;
  the exception in `EndReachesCaller`);
* `putRecord` signs its activity request without the token of its meta (`CnsApi.ts:109-112`),
  which asks a wallet once more;
* the default expiry of `new AuthToken({ prev })` can be later than that of `prev`, and
  `AuthToken.sign` of a signed token signs its old signature along; `Token.create` takes the
  known fields of `prev` only. An SDK token is kept for as long as the account is the same,
  although it expires after thirty days (`sdkToken.ts:33`);
* a token promise that rejects after the routing has thrown has no handler (`Router.ts:79`);
  neither have the uploads of a directory that fail before they are awaited together;
* a dispatch error is reported at inclusion (`Blockchain.ts:208`): after a fork the
  transaction can still succeed;
* `batchSend` uses `utility.batch`, which stops at the first failure and succeeds
  (`Blockchain.ts:246`, `DDCCustomersPallet.ts:295`), and `extractCreatedBucketIds` leaves out
  a bucket with the id 0 like `extractRemovedBucketIds`;
* the CLI resolves a name for what it reports and reads by the name again, prints
  `Number(bucketId)`, does not disconnect when a command throws (`createClient.ts:68-74`), and
  cannot upload a directory with an empty file.

## 5. Proofs

All theorems hold for every value of the constants, under the `ASSUME`s of the module, which
say only that bounds are naturals, that sets that must differ do, and that sizes are ordered.

* **BalancedNode.** `TypeInv` (types, and an attempt is left while nothing is settled).
  `NodeErrorReported` needs `ErrorInv`: a remembered node error is retryable, and once there is
  one the router error is no longer chosen. `ReuseAfterAll` needs `AskedInv`: the exclusion
  list and the asked nodes are the same set, which is what makes the router's refusal mean that
  every node was asked. `BalancedLoad` needs `LevelInv`: the list is the queue of a round, with
  the nodes that were asked twice more in front of those whose turn is still to come, and a
  node outside it was asked once less than the most asked. `KeepsContractSafety` maps each step
  to a step of `RetryContract` or a stutter.
* **StorePiece.** `StoreImplementsBalancedNode`: every step of the client is a step of the
  loop or leaves its variables alone, so the theorems above hold of it. `NamesNeverDangle`
  needs `StoreInv`: a node that answered has applied the request or has it in flight, and a
  request for a name is made only after the piece it names was applied. With `Told` (the answer
  waited for is that of the last request) it gives `FulfilledMeansStored`.
  `NothingIsStoredInPart` needs `WholeInv`: an attempt on bytes has sent a beginning of the
  content (`SendsFromTheBeginning`), a content stream that fits a piece and is not locked is at
  its beginning or at its end (`LockedOnTheWay`), so what is completed is whole, or empty
  (`GoodRequests`). Bytes need no assumption, as their length is what is compared with the
  limit; an iterable and a content stream have to fit, whatever size is declared for them.
* **ReadPiece.** `ReadImplementsBalancedNode`, as for storing. `ReadInv` keeps what the last
  step of an operation relies on: the CID of the attempt is the one asked for or one its node
  had for the name while the attempt ran, and an answer to "what is this name" is what the node
  had. `ReadContentFits`, `ReadNameIsOfTheAttempt`, `ReadMissingIsMissing`.
* **FileStorage.** `IInv`: what is held is the stretch of the body after what was cut
  (`HeldInv`), the offset is the end of the last part (`OffsetInv`), each path through `store`
  (`PathInv`), and no part is short while bytes are left (`ShortInv`). `PartsTile`,
  `ShortPartIsLast`, `StoredWhole` and `BoundedMemory` follow.
* **FileDownload.** `DInv`: where the chunk of a delivery can be (`Place`), what was counted
  and hashed against what the reader has (`Balance`), and the last receipt (`Receipt`).
  `AcknowledgmentsAreReceipts`, `EndsAreAcknowledged`, `EndsAreAuthentic`. `ReadsAreSent` needs
  `Transit`: what was sent is what was read, then what is in the queue, then the data of the
  messages in the inbox (`Carries`, with a map from each chunk to the message it came in).
* **PingStrategy.** `PInv`: one request for each entry of the map, orders that are sorted,
  counted nodes that are in the map. `NodesArePingedOnce`, `OperationsPingEnough` (with the
  cardinality of what was counted plus what was added), `UnresponsiveNodesAreLast` and
  `BestOfLevelIsSelected` (action properties, from the order and the level of the selection).
* **NodeDiscovery.** `DiscoveryInv`: a list in the cache, and a list a query was answered with,
  is one its cluster had at some moment (`Cached`, `Query`), and a bucket stays on the cluster
  it was created on, so what a call has read is still true when it is used however late it
  comes. `ListsAreOfOneMoment`, `MissingIsForgotten`.
* **RpcCall.** `CallInv`: nothing is settled before the node, the socket or the timer has said
  something (`Silent`), a timer runs only while the call is silent (`Timed`), a streaming call
  that is refused in its headers has no other way on than to report that (`Refused`), and no
  promise is rejected with a code nobody gave (`Reported`). `StatusesAreReported`,
  `AnswersBeatTheTimer`; `NothingIsLostAtTheEnd` is the safety part of `EndReachesCaller`.
* **Transfer.** `TransferInv` follows each command by itself (`CommandInv`), and `StaysInv`
  says that nothing the other commands or the file system do disturbs it. An upload is followed
  from both ends: what is still to visit leads to visible files only, and every visible file
  that was there all the time is linked already or is still to be come to (`Walking`).
  `Within`, the entries a walk comes to, is the least closed set, so the lemmas `WithinGrows`,
  `WithoutFiles` and `WithoutDir` say what replacing a directory by what it holds does to it,
  for any tree, without induction. A link is stored or being read (`Linked`), so the root comes
  after what it leads to (`StoredWhole`); of what has been read each block was in its place in
  one of the contents the file had meanwhile, and if it had one only, this is what `CidOf`
  makes of it at the end of the stream (`ReadingFrom`, `WhatIsStored`). The other commands let
  a command read on (`ReadsOn`): a removal changes only what an open stream keeps. A download
  goes on with something its source stood for while it ran (`Fetching`), and saves the links of
  one root (`Saving`). `RootsAreComplete`, `ReadsAreOfOneUpload`.
* **SdkToken.** `TInv`: tokens are made one at a time in order (`Chain`), a token that is to be
  replaced leaves a switch that pays for it (`Counted`), issuers against accounts (`Fresh`),
  keys against tokens (`Registered`). `PromptsOnlyAsNeeded`, `TokensAreOfTheAccount`,
  `RequestsAreSignedBySubject`.
* **Transactions.** `RInv`: a transaction in the best chain was submitted (`Submitted`), one
  whose promise still listens did not fail there (`NotFailed`), and a resolved promise has its
  transaction among the final ones (`Reasons`). `QInv`: an operation has at most one
  transaction in the chain (`Once`), so what the callback reports at finality is what that
  transaction removed (without the id 0). `ResolvedMeansFinal`, `RemovalsAreReported`.
  `RefusalsHaveAReason` needs `CInv`: while a deposit is undisturbed no other operation of the
  account is at work or in the pool, so the chain its block builds on is the one it read.

* **WireMessages and AccessToken.** The hypothesis is `Closed`: for a message of some depth
  `Encode`, `Decode`, `IsNested`, `PrevHolds` and `PrevMentions` are what `Write`, `Read`,
  `IsMessage`, `ChainHolds` and `Mentions` say, and `None` is no message. It is what
  `MCAccessToken.cfg` makes of the constants, and what the generated code does when a class
  calls another one. Constants like that exist for any sets of values: what is asked of them at
  one depth is given by what they are at smaller ones, since a message holds messages of
  smaller depth only. `HalfRead` is the invariant of a message on its way: of each field the
  first values have been read and its queue holds what was written for the others (`Half`, by
  the rule of the field: a packed field may be split in two runs at any place, a repeated one
  is at any item, a single one is read or not), and so do the fields the class does not know.
  Reading one item keeps it (`HalfReadStep`), if the messages inside read back, and so does
  splitting a run (`HalfReadSplits`). The loop of `internalBinaryRead` is therefore one more
  walk through `HalfRead` states, and `EveryMessageReadsBack` follows by descent: if a message
  does not survive, one of least depth does not, but the messages inside that one do. This
  needs no induction rule, only that a set of naturals has a least element (`LeastNumber`). For
  tokens, `Token` says that what is handed over is a signed token of some depth, that its chain
  holds, for a strict node too, while each delegation was the subject's and added nothing, and
  that what is sent with a request is made of it; `RequestFacts` is the one case that is not
  immediate, a token of a subject that is turned into one more link. `MessagesSurvive`,
  `SignaturesSurvive`, `GrantsWork` and `UsesAddNothing` hold for chains of any length, any
  depth limit, any accounts and any messages of any depth.

Type invariants are theorems of their own (`TypeCorrect`, `StoreTypeCorrect`,
`ReadTypeCorrect`, `DiscoveryTypeCorrect`, `CallTypeCorrect`, `TransferTypeCorrect`).

**Why nothing goes on for ever.** Termination has two halves: the program has only so many
steps left, and it takes them. The second is fairness, and model-checked only; the first is a
safety property of a measure in the naturals that the steps use up, and is proved:

| theorem | what is used up |
| --- | --- |
| `OperationsRunOut` | at most `3 * retries + 2` steps of `withRetry`, however errors of the router and of nodes alternate |
| `StoresRunOut`, `ReadsRunOut` | first what the operation has left, then the steps of the attempt: a refinement of the measure above along `StoreImplementsBalancedNode` and `ReadImplementsBalancedNode` |
| `FileStoresRunOut` | the bytes still to arrive, those held and those of the part at hand, and the stages of `store`, for every size of body, part and chunk |
| `DownloadsRunOut`, `CallsRunOut` | what is in flight: a message of the node adds a fixed number of steps (five, one), everything else takes one away, without a bound on the node |
| `TokensAdvance` | at most nine steps of each call; every step takes from one call and adds to none, and a change of the account takes and adds nothing |
| `DiscoveriesAdvance` | at most seven steps of each `getNode`, which no other call and no change of the chain adds to |
| `CallsWaitForLess` | the pings an operation waits for, which no other operation adds to |

Model-checked only: everything temporal under fairness (`KeepsContract`'s termination,
`StoreSettles`, `StreamEnds`, `NoCallHangs`, `CallSelects`, `CallsEnd`, `SettlesUnlessLost`),
which is beyond the prover, as is ENABLED (of these, `SettlesUnlessLost` alone has no measure
above: forks take back what a transaction has reached). The batches of `Transactions`
fold over a list of calls; the theorems there use only what holds of any result of that fold.
What the fold computes for every input is not proved: the induction theorems of the library
take an operator as a parameter, which the installed provers cannot instantiate.

## 6. Fairness

Only the SDK's own steps are fair, plus the answers the code may rely on:

* `BalancedNode`, `FileStorage`: one weakly fair step, that of the operation. A node or a body
  that never answers is excluded there by the abstraction (an attempt ends in success or an
  error); `StorePiece`'s `TimersSpec` has only the timers of the SDK fair, for
  `SilentCallEnds` of section 4.
* `PingStrategy`: each call, and the end of each ping, which `AbortSignal.timeout` bounds.
* `FileDownload`: the generator, a reader that reads, and a call that ends. A reader may
  cancel at any time and a node may stop sending.
* `RpcCall`: the caller goes on with what has come, and an armed timer fires. The node and the
  socket owe nothing: a call may stay silent, and `NoCallHangs` says what still ends.
* `SdkToken`: each link, and a user who answers a prompt, in whichever way. Switching the
  account is not fair.
* `Transactions`: the client's steps, inclusion of a transaction that can be included, and
  finalization. Forks are bounded; losing a transaction is never fair and always possible.
* `ReadPiece`, `NodeDiscovery`, `AccessToken` and `Transfer` have safety properties only and
  no fairness.

## 7. Plan

Done: the modules of section 2. Next, in this order:

1. The composition of `FileStorage` with `StorePiece` for several parts, and of `BalancedNode`
   with `NodeDiscovery` and `PingStrategy`, whose offers then depend on the exclusions.
2. `FileStorage.read` and the range of a read.
3. An abstract specification of `NodeDiscovery`: an atomic map from bucket to nodes, each entry
   of one moment.

## 8. Not modelled

Cryptography (a hash is injective, a signature says who signed what), the enumerations and the
lengths of the generated code, key derivation of the signers, logging, configuration presets,
the pallets for staking and governance, the CLI's commands that make one call (`account`,
`deposit`, `create-bucket`, `token` apart from the token itself), the build, the examples and
the playground. The nodes, the chain, the wallet, the local file system, the body of a file and
the reader of a stream are external: modelled by what they may do to the SDK, as freely as the
code allows. Time is modelled only as far as its order matters: a timer may expire at any
moment while it runs, and the expiry of a token is a number of days.
