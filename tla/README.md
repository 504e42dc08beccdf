# A TLA+ verification of testserver

testserver answers HTTP/1, HTTP/2, WebSocket and TLS test requests on one port. What is hard
in it is not the answers. It is the certificates behind them: many servers share one
certificate store, one set of private CAs and one ACME account, and every handshake reads
state that other handshakes, other servers and the clock are changing. After that come the
byte streams: sniffing of the first bytes, capture of HTTP/2 frames, pipelined HTTP/1. And a
request is put together by its client, of the parts of a host name and of a chain of endpoints, so
that the combinations are many more than the tests. This directory models all three. Source paths are relative to the
repository; line numbers in the comments of the modules refer to the same files.

To check: `tlc -config X.cfg M` for a row of the tables below, `tlapm M.tla` for
each of the modules `AcmeCA_proofs`, `ManagedCA_proofs`, `ContextCache_proofs`, `DnsChallenge_proofs`,
`LocalLeaf_proofs`, `Requests_proofs`, `Connection_proofs` and `Sequences_proofs`.

## Inventory

Everything runs on the event loop of Node.js: code between two `await`s is atomic, each
`await` is a point where anything else may run. Several processes share a store (files or S3).

| Component (source) | State | Operations | Interacts with | Hard behaviour | What makes it correct |
|---|---|---|---|---|---|
| ACME certificates (`tls-certificates/acme.ts`, `cert-cache.ts`) | `cache`, `pendingCertRenewals`, challenge secrets | `getCertificate`, `tryGetCertificateSync`, `waitForCertificate`, `loadCache`, `cacheCert`, `clearCache` | store, DNS server, CA | coalescing, supersession of a promise by another, retry without end, un-awaited store requests, expiry during an await, a revocation between issue and use | nobody waits for a dead issuance; one issuance at a time; nothing expired or unrevoked is handed out; renewals complete |
| Certificate stores (`fs-cert-store.ts`, `s3-cert-store.ts`) | one record per key | `read`, `write`, `writeIfAbsent`, `delete`, `readAll` | all servers | requests in any order, failed requests that reached the store | `writeIfAbsent` has one winner |
| Managed CAs (`local-ca.ts:321-470`) | memoised promise per CA, `clientCertificate` | `loadOrCreatePersistedCA`, `getClientCertificate` | store, boot, handshakes | concurrent creation and renewal, outages, memoised rejections | the fleet agrees on a CA; it is the stored one |
| Local leaf certificates (`local-ca.ts:500-726`) | leaf cache with 24 h timers, self-signed keys | `generateCertificate` | contexts, OCSP | concurrent misses, a timer that removes its successor | a served self-signed certificate can still be answered for |
| OCSP (`ocsp.ts`, `local-ca.ts`) | none of its own | `getOcspResponse` | leaf cache | issuer and key looked up long after issuing | the answer is signed by the issuer and says what the mode asks |
| Secure contexts (`secure-context-cache.ts`, `tls-handler.ts`, `cert-definitions.ts`) | an LRU `Map` of contexts | `getOrCreate`, the handshake | certificate choice | time and other handshakes between the lookup and the insertion, keys that collide | bounded; nothing stale; the right certificate for the host |
| Certificate choice, start-up (`server.ts`) | none | `generateCertificate`, boot, daily refresh | all of the above | an outage during boot | a boot ends |
| DNS-01 challenges (`dns-server.ts`, `s3-challenge-store.ts`) | `txtRecords` per machine, shared objects | set, remove, query, reap | `acme.ts`, the CA | concurrent issuances of one name, queries to any machine, crashes | own records are kept; validations are answered |
| Sniffing, PROXY protocol (`process-connection.ts`, `proxy-protocol.ts`) | buffered first bytes | protocol choice, header parsing | every connection | any segmentation of the first bytes | no byte lost, one handler chosen |
| HTTP/2 frames (`process-connection.ts`, `endpoints/http/echo.ts`) | frames per stream and connection, callbacks | capture, echo, stop | echo endpoint | frames before and after the callback is set | every frame echoed once, in order; state is dropped |
| HTTP/1 raw data (`process-connection.ts`, `http-handler.ts`) | `receivedData`, `requestsInBatch` | capture, dispatch, clear | echo endpoint | pipelined requests share a buffer | a request echoes its own bytes |
| HTTP dispatch (`http-handler.ts`, `endpoint-chain.ts`) | per request: how far its chain is, what was written | validate the host, redirect, resolve, run, fail | endpoint configuration, endpoints, raw data | a coalesced connection; a redirect that is itself redirected; errors before and after the head; requests that run at once and close the connection under each other | a page is served over its own TLS options; each request gets what its path asks for, in order, and is answered |
| WebSockets (`ws-handler.ts`, `endpoints/ws/`) | per session: `readyState`, intervals, listeners | upgrade, chain of endpoints, messages, close | endpoints, the ws library | a close between two handlers, a close that fails, intervals that go on | nothing happens after the close; no interval outlives its session |
| Endpoint configuration (`endpoint-config.ts`, `tls-merge.ts`, `endpoints/tls/`) | none | parse, merge | dispatch, handshakes | combinations nobody wrote a test for | the merge is what its parts ask, in any order |
| Endpoint handlers, docs page, httpbin names, metrics | none shared | format a response | - | - | only what a handler does to the chain, the response and the connection is modelled; the rest is formatting and pure I/O |

`PROJECT.json` lists the hazards of each at its line.

## Plan

1. `AcmeCA`: issuance, coalescing, the cache and the store. **Done**, with the first proofs.
2. `ManagedCA`, shown to implement the abstract `FleetCA`. **Done**, with the
   proofs of its safety properties and of the refinement.
3. `ContextCache`: contexts, cache keys and certificate choice. **Done**, with the proofs of all its
   properties.
4. `DnsChallenge`. **Done**, with the proofs of all its properties.
5. `LocalLeaf` (leaf cache, timers, OCSP keys). **Done**, with the proofs of all its properties.
6. `FrameCapture` (frame capture and echo). **Done**, with the proofs of its safety properties.
7. `RawCapture`: pipelined requests and their shared buffer. **Done**, with the proofs of its safety properties.
8. `ConnSniff` over every segmentation of the first bytes, with the PROXY header. **Done**, with the proofs of all
   its properties.
9. `HostRouting`, `HttpDispatch`: what a host leads to, and one answer per request, with the error
   paths of both versions. **Done**, with the proofs of their safety properties. `Answered` stays with TLC.
10. `WsSession`: chains of endpoints against message and close events. **Done**; `QuietAfterClose` is proved.
11. `EndpointMerge`: a pure algorithm against a reference definition. **Done**, for TLC over short hosts of the
    real endpoints (`TlsEndpoints`), and proved for all.

How they are composed:

- `Connection` composes `ConnSniff`, `RawCapture` and `FrameCapture`: a layer has given up the connection when
  the next one gets it, so that a behaviour is one of a layer.
- `Requests` composes `HostRouting` (which calls `EndpointMerge`, as handshake and request do), `HttpDispatch` and
  `WsSession`: what comes in on a connection that has been made.
- `ManagedCA` has the store of all servers, `AcmeCA` likewise.
- `ContextCache` takes AcmeCA as an environment that obtains and clears certificates; composing
  the two in full is not planned, as the context cache only reads a record at one moment. `LocalLeaf`
  likewise takes the context cache as one that may drop an entry at any time.

What is left: the fields of certificates and of OCSP answers (`ocsp.ts`) and the httpbin names. The
runs are kept to a dozen distinct questions; refuted claims of comments beyond three have their
configurations beside the modules.

## The modules

| Module | Models | Its state and actions in the code |
|---|---|---|
| `AcmeCA` | `acme.ts`, `cert-cache.ts`, the store of one key | `mem`, `pending` are the two maps of each server; an `attempt` is a `refreshPromise`, a `call` one activation of `getCertificate`. `GetCertificate` is its synchronous head, `ReadStore`/`FetchCert` the two halves of its await of the backend, `Decide` everything after. `Issue`, `Superseded`, `Complete`, `StartRevoking`, `Revoked`, `Fail` are the continuations of the issuance. `WriteLands`, `DeleteLands` and their failures are the un-awaited store requests |
| `AcmeCA_proofs` | - | theorems about `AcmeCA` |
| `ManagedCA` | `loadOrCreatePersistedCA`, `getClientCertificate` | `st` is how far the load has got: reading, replacing (`write`), claiming (`writeIfAbsent`), checking (second `read`), ready or failed, where each request of the store (`Read`, `Replace`, `Claim`, `Check`) and the continuation of its `await` (`Decide`, `Return`, `Conclude`) are steps of their own. `answer` is what a read has brought; `seen` is a ghost, what the store has held since a load began. The promise is kept while the process runs. `kind` says which of the two CAs it is: the intermediate is loaded at boot, the client-auth CA by the first handshake or call that needs it |
| `ManagedCA_proofs` | - | theorems about `ManagedCA`, and that it implements `FleetCA` |
| `FleetCA` | abstract | what the comment at `local-ca.ts:343-345` promises: one CA is settled, and until a renewal nobody works with another; a server that looks for it gets one that was settled at some moment since it began to look |
| `ContextCache` | `secure-context-cache.ts`, `tls-handler.ts`, `cert-definitions.ts`, `generateCertificate` of `server.ts` | `cache` is the `Map` as a sequence in insertion order; `HandleConnection` runs to the first await, `SetContext` is what follows it, with the `now` taken before |
| `ContextCache_proofs` | - | theorems about `ContextCache` |
| `LocalLeaf` | `generateCertificate` and `getOcspResponse` of `local-ca.ts`, the handshake of `tls-handler.ts` | `certInMemoryCache` and `selfSignedCerts` are the fields, `timers` the pending `setTimeout`s, `conn` a handshake that awaits its certificate or its answer. `HandleConnection` goes on with a context, with a leaf, or starts to generate one; `GenerateCertificate` is everything after that await; `Forget` is the body of the timer |
| `LocalLeaf_proofs` | - | theorems about `LocalLeaf` |
| `DnsChallenge` | `dns-server.ts`, `s3-challenge-store.ts`, the challenge part of `acme.ts` | `local` is `txtRecords`, `shared` the objects; a query is split at the read of the store; the validating CA and `acme-client` are external |
| `DnsChallenge_proofs` | - | theorems about `DnsChallenge` |
| `ConnSniff` | `proxy-protocol.ts`, the `ConnectionProcessor` of `process-connection.ts` | `bufferedData` is the argument that the listener of `readable` closes over, `phase` says which of the two functions that listener calls; `given` are the bytes unshifted for the handler, or wrapped |
| `FrameCapture` | `DataCapturingStream`, the HTTP/2 half of `echo.ts`, `stopRawDataCapture` | `streams`, `globalFrames`, `partialData` are the fields; `due` are the callbacks that `setImmediate` holds. `Receive` is the whole of a segment's handling, `StartEcho` the synchronous part of `handle`, `WriteDue` one callback, `EndEcho` the listener of `end` and `error` |
| `RawCapture` | the `receivedData` of `process-connection.ts`, `createHttp1Handler`, the HTTP/1 half of `echo.ts` | `receivedData`, `requestsInBatch`, `pipelining` are properties of the socket; `handler` is where each request stands: before the echo, in `process.nextTick`, reading its body, or about to return. `Receive` takes each new request to its first await |
| `Connection` | the order of the layers of `process-connection.ts` | `layer` says whose bytes are looked at; the three modules keep their own state |
| `EndpointMerge` | `getEndpointConfig` and `tls-merge.ts` | `done` is how far the loop over `serverNameParts` has got, `options` are `certOptions` and `tlsOptions` (their names do not overlap); a verdict `invalid` is an error thrown. `Asked` is the reference: what a set of parts asks for |
| `TlsEndpoints` | `endpoints/tls/*.ts` | the options, ALPN preferences and plain-text permission of each part: values of constants |
| `HostRouting` | `handleConnection` of `tls-handler.ts`, the first half of `handleRequest`, `getLocalOnlyRedirectHost` | the client that connects, asks, is sent on and may reuse a connection (`url`, `conn`); each early return is an action |
| `EndpointChain` | `endpoint-chain.ts` | `ResolveEndpointChain` is a pure function of the path |
| `HttpDispatch` | the second half of `handleRequest`, the catch blocks of both servers, `endpoints/http/` by kind | `handler` is where the activation of each request is, `written` what it wrote to `res`, `got` what of this has been sent (pipelined responses wait), `cut` which responses or connections are closed, `shut` those whose socket or stream `/error/close` has ended, `doomed` the responses that `res.destroy()` met while they still waited for the socket, which is destroyed when they get it (`DestroyOnSocket`); `left`, a ghost, is whom the client gave up. `Handle` is one round of the loop, up to its await |
| `WsSession` | `ws-handler.ts`, `endpoints/ws/*.ts` | `wsHandler` and `wsBegun` are the loop, `intervals` and `listening` what handlers leave behind, `readyState` and `socket` are the library's. What `handleWebSocketUpgrade` throws for a request without a usable host or for a misnamed subprotocol nobody catches (`Uncaught`) |
| `Requests` | the servers' events `request` and `upgrade` | `event` says which of the three is looked at |
| `Requests_proofs` | - | theorems about `EndpointMerge` and `Requests` |
| `Connection_proofs` | - | theorems about `Connection` |
| `Sequences_proofs` | - | lemmas: induction over numbers and sequences, recursive functions, lengths of concatenations |
| `MC*` | - | sets for TLC and symmetry |

A key, a name, a certificate or a challenge is an abstract value; only what the properties
tell apart is kept of it (expiry, revocation, issuer, the name it covers).

## The runs

| Run | Shows | Bounds, and why they are enough |
|---|---|---|
| `acme` | `PendingIsLive`, `WaitersOnLiveAttempt`, `SingleFlight`, `RevokedBeforeUse`, `NoExpiredAnswer`, for each combination of `expired` and `revoked` | two servers, two calls and two issuances at a time, three calls, a failure, a crash. Two issuances are needed for one to supersede the other, a third call for one that meets the result. A life of 3, a window of 2 and two ticks take a certificate through fresh, near expiry and expired; the store starts with every age |
| `acme_live` | `CallsEnd`, `RenewalCompletes`, for normal and revoked certificates | one server, since nothing a server waits for is done by another; no symmetry, which TLC cannot combine with liveness |
| `managed` | `Converged`, `ClientCertsAccepted`, `ServesPersistedUsableCa`, `ImplementsFleetCA`, `ClientCertCallsEnd`, for both CAs | two servers, the smallest fleet with a race; a store that is empty, or holds a CA that is usable, becomes too old, is too old, has expired or cannot be parsed; one outage, which can catch both servers in mid-request; one crash, between any request and its continuation. `MaxMade` is never what stops a behaviour (no behaviour makes more than five) |
| `context` | `HitsInDate`, `OneDayOld`, `RealCertPickedUp`, `TypeOK` | a plain host and `expired`, two handshakes at a time, a day of three ticks in four ticks of clock, so that entries expire by each of the three rules |
| `context_keys` | `Bounded`, `WrongHostOnly` | three keys in a cache of two; `wrong-host` and the owner of the name it borrows, with wildcards |
| `leaf` | `CachedCanAnswer`, `StapledFirstDay`, `TwoDaysOld` | two hosts that share a self-signed leaf and differ in their contexts (`wrong-host--self-signed`, with and without `tls-v1-2`), two handshakes at a time, of up to a tick, in two and a half days of two ticks, so that timers of overlapping certificates fire in each order. `MaxMade` cuts off: four certificates are enough for one to be made while an older one is in use and to outlive it |
| `dns` | `OwnRecordsKept`, `AnsweredUnlessShadowed` | two machines, three challenges of one name (one short-lived), a failure, a crash, records that live for one of two ticks |
| `connection` | `NothingLostOrAdded`, `HandlerOfWhole`, `DecidedInTime`, `EachFrameOnceInOrder`, `OthersHoldNothing`, `PipelinedRefused`, `OwnBytesEchoed`, `ConnectionTypeOK` | Sniffing: each of ten headers (both versions; with addresses, local, unknown, malformed, endless) before the first bytes of TLS, HTTP/2, three methods and something unknown, and beginnings of methods and signatures that go wrong, trusted or not. The alphabet is small, but the signatures share the prefixes that they share in the code (`PR` of the PROXY header, the preface and `PROPFIND`, `PRO` of the first and the last); 512 and 109 bytes become 9 and 7. Frames: two streams, all well-formed sequences of five frames (one of the connection first, others of it in between, ends and resets), headers of two bytes and payloads of one. Two streams are needed for the frames of one to come between those of the other. Raw data: three requests of each kind, with heads of one or two bytes and bodies of none or one, of clients that wait for answers or do not. A third request is needed to come in when one of two pipelined ones has already been answered. All of it in every segmentation |
| `requests` | `MergesAsASet`, `VersionsAsAsked`, `RedirectOnce`, `ServedOverOwnTls`, `AnswerOfChain`, `Answered`, `QuietAfterClose`, `IntervalsEnd`, `TypeOK` | Hosts: all of up to two of the real endpoints or an unknown word, all of three parts of eight kinds, and those of four parts that combine; both protocols, every offer of ALPN, public CA or not. Four parts are the most that is valid, three are needed for versions with one in between and a cap. Requests: two at once, with every chain of up to two kinds of endpoint and some of three (`MaxChainDepth` 2 for 10, so that three are allowed and four would be too many). Two requests are needed for one to close the other's connection or wait for it, and for one whose response breaks off while it waits. Sessions: of hosts that are valid, invalid or none, chains of up to three endpoints, two messages, three messages of intervals |

The type invariants of `AcmeCA`, `ManagedCA`, `LocalLeaf` and `DnsChallenge` are proved instead of run.

`CHECK_DEADLOCK FALSE` is set only where the bounded clock, the finite stock of challenges or the
end of what the client sends ends a behaviour (`context*`, `leaf`, `dns`, `connection`, `requests`, `frames_tail`, `redirect`, `ws_close`); in the
other modules a quiet system takes the step `Rest`, so a deadlock would be one.

Refuted claims of comments (each run stops at a counterexample, and `findings` quotes the line):

| Run | Property | What happens |
|---|---|---|
| `frames_tail` | `WholeRequestEchoed` | `end` of the request is reported in `process.nextTick`, before the `setImmediate` that carries the frames of the same segment, and ends the response (`echo.ts:169` promises the request) |
| `redirect` | `RedirectsToServable` | a valid host of four parts, two of them local-only, is redirected to one of five, which is refused (`http-handler.ts:73-74`) |
| `ws_close` | `ClosedAsSpecified` | a code such as 1005 or 2000 is in range, but `ws.close` throws for it when the session is already closing: no close frame is sent (`endpoints/ws/close.ts:26`) |

More of the kind can be reproduced with the remaining configurations, in each of which TLC stops at
a counterexample:

| Configuration | Property | What happens |
|---|---|---|
| `MCAcmeCA_elsewhere` | `PicksUpCertsIssuedElsewhere` (`acme.ts:107-108`) | a server that has an ageing copy renews although a fresh one is stored |
| `MCAcmeCA_durable` | `KeptDurable` (`cert-cache.ts:35-36`) | the delete of the old record lands after the write of the new one |
| `MCManagedCA_download` | `DownloadedCertsKeepWorking` (`local-ca.ts:442-444`) | after a renewal the servers refuse unexpired certificates of the old CA |
| `MCManagedCA_outage` | `BootSurvivesOutage` (`cert-cache.ts:50`) | the read of the intermediate is not caught, so an outage does end a boot |
| `MCManagedCA_race` | | two servers that renew at once keep different CAs |
| `MCManagedCA_expiry` | | a loaded CA is used past its expiry |
| `MCManagedCA_poison` | | a rejected load of the client-auth CA stays memoised |
| `MCContextCache_collision` | `UntrustedRootIsLocal` (`cert-modes.ts:60`) | the key has no `requiredType`: `wrong-host` and `wrong-host--untrusted-root` share a context |
| `MCLocalLeaf_staple` | `StapledRevoked` (`cert-modes.ts:28`) | a context made of an ageing self-signed leaf outlives the leaf's key, and `self-signed--revoked` is served without a staple |
| `MCLocalLeaf_wronghost` | `StapledRevoked` (`cert-modes.ts:28`) | the name in the certificate of `wrong-host--revoked` has no label `revoked`, so that it is stapled as good |
| `MCDnsChallenge_shadow` | `AnyMachineAnswers` (`s3-challenge-store.ts:29-31`) | a machine with a record of its own for the name, if only one that a failed issuance left behind, does not ask the store |
| `MCRawCapture_tail` | `RequestEchoed` (`echo.ts:169`) | body bytes that come in after the answer to their request are echoed with the next one |

### What the properties do not say

- `SingleFlight` holds until a server meets a certificate that has expired altogether; then
  each caller that met it forces an issuance, and the code relies on supersession.
- `Converged` and `ClientCertsAccepted` hold until a stored CA is replaced.
- `HitsInDate` excepts a certificate that had expired when its context was made: the code
  caches such a context for a day on purpose (`secure-context-cache.ts:38-41`), also when it was
  not wanted expired and its renewal was just starting.
- `RealCertPickedUp` bounds the stand-in by 5 s plus the longest handshake, as the entry's
  `now` is taken before the certificate is made.
- `StapledFirstDay` and `TwoDaysOld` meet at the day after the first: a certificate may then be in use
  without an answer (`MCLocalLeaf_staple`).
- `HandlerOfWhole` excepts a first segment that the HTTP/2 preface also begins with, such as a single
  `P`: the code decides for HTTP/2 at once (`process-connection.ts:340`), also if a `PUT` follows. And one that a
  method also begins with goes to HTTP/1 at once, also if what follows is no method: a server that trusts no
  proxy destroys a PROXY header that comes whole, but gives one cut behind `PRO`, as in `PROPFIND`, to HTTP/1.
- `ServesPersistedUsableCa` and `FleetCA` promise a CA that was stored while the server loaded it. Between the answer
  of the store and its continuation, or between a write and its, another server's renewal may overwrite it
  (`MCManagedCA_race`).
- `EachFrameOnceInOrder` speaks of an echo until it ends; what it then lacks is `frames_tail`'s question.
  `OthersHoldNothing` speaks of streams another endpoint was chosen for: frames of those answered
  earlier, of ended echoes and of the connection itself are kept while the connection is open.
- `RedirectOnce` promises a target that is served only if the host had room for one more part (`redirect`).
- `VersionsAsAsked` may leave no version at all: `static-rsa--tls-v1-3` is valid, as the cipher's cap is an
  option of its own, and no client can connect to it.
- `AnswerOfChain` takes the code's statuses as they are: a path of no endpoint is 404 on HTTP/1 and 500 on HTTP/2,
  whose catch block does not look at `StatusError`; a chain may have `MAX_CHAIN_DEPTH + 1` endpoints. An error that an
  endpoint throws has its own code on HTTP/1 too: `/delay/1/stream/5` is 400 (`stream.ts:22` reads the number out of
  the whole URL), and 500 on HTTP/2. On HTTP/1 the head of a response that fails before its first chunk is never sent.
- `Answered` speaks of requests whose body has come in. Such a request is answered in full, or it was given up by its
  client, its connection was reset, its socket or stream was ended, or its response or one before it on HTTP/1 broke
  off; and then it is closed and not just forgotten. `/trailers` on HTTP/1 waits in vain for a client that has
  gone, which costs nobody an answer.
- `QuietAfterClose` does not say that messages arrive: those that come in while `/ws/delay` runs before `/ws/echo` are
  dropped, as nobody listens yet.
- `OwnBytesEchoed` allows leftovers of an earlier request before the echoed one (`MCRawCapture_tail`).

### Fairness

Weak fairness of the steps that answer a request already sent (ACME, store), of the
continuation of a settled promise, and of the end of an outage: TCP requests end in an answer
or an error, and the event loop runs what is ready. In `Requests`: of each handler (it runs until it awaits, and timers
fire), of the end of a destroyed response once it has the socket, of each interval, of the `close` event once the socket is destroyed, and of the end of a socket after a close
frame, which the ws library enforces by a timeout. None for clients: bodies, messages and closes need never
come. None for calls, crashes, restarts or the
clock. Failures are bounded (`MaxFailures`): a CA that always refuses makes the code retry for
ever, and `CallsEnd` would rightly fail.

### Bounds

`MaxTime`, `MaxCalls`, `MaxFailures`, `MaxCrashes`, `MaxOutages`, `MaxMade`, `MaxMessages`, `MaxRepeats` only cut
behaviours off. `MaxLength`, of hosts, is one more than `MaxSniParts`, so that redirects to a host that is too
long happen. `MaxDelay` is an assumption: an issued certificate is cached, and a handshake
gets its context and its answer, within that many ticks. Without it an issued certificate could expire
unused; `CachedAlive` says that a certificate lives longer (`MaxDelay < Life`). Ticks of `ManagedCA` are weeks, so none passes during a load.

## Proofs

`AcmeCA_proofs` proves, for any number of servers, calls and attempts, any options, life times
and bounds, from the assumptions named in `AcmeCA` (the sentinels are not elements of the sets
they are added to, bounds are naturals, options have the two fields):

- `TypeCorrect`: `Spec => []TypeOK`. `TypeOK` ties the fields of a record to its state (an attempt
  has a certificate exactly from minting to storing, a call names an attempt exactly while it
  waits), which every later proof uses.
- `PendingAlwaysLive`, `WaitersLive`: `Spec => [](PendingIsLive /\ WaitersOnLiveAttempt)`. Neither is inductive
  alone: a superseded attempt hands its waiters to the pending one, which must be in flight,
  and a call joins the pending one. Their conjunction (`Live`) is, with `TypeOK`.
- `OneInFlight`: `Spec => []SingleFlight`, by `FlightIsPending`: on a server that has not lapsed, what
  is in flight is what is pending. Uniqueness of the pending entry then gives the property.
- `AnswersNotExpired`: `Spec => NoExpiredAnswer`. An answer may have waited: for the store, or for an attempt that
  was superseded by another. `Timely` says of every call and every attempt that what it is about to answer with was
  checked or issued at most `MaxDelay` ago, and `AnswersInDate` that with `CachedAlive` it then still is in date.
- `RevocationFirst`: `Spec => []RevokedBeforeUse`. It is inductive as stated, because it speaks of
  the store, of requests to it and of calls that have read it, beside the caches.

`ManagedCA_proofs` proves, for any number of servers, both kinds of CA, any initial record and any
bounds, from `ManagedCA`'s assumptions (a CA lives longer than the margin, the stored CA at first
is one the code made or cannot parse, bounds are naturals):

- `TypeCorrect`: `Spec => []TypeOK`.
- `Invariant`: `Spec => []Inv`. `Inv` adds to `TypeOK` that servers and store hold only CAs made so far
  (`AllKnown`: a CA that is generated is then new, and no certificate names it) and what each
  load may rely on (`LoadsOK`): the CA a server generated is usable, a place that was
  found empty is empty still or holds a usable CA, and what the server was answered or has stored has been in
  the store since the load began (`seen`). This needs that no tick passes during a load, so that a record found
  usable still is when it is used; other servers may store between a request and its continuation, and what
  they store is usable as well (`OtherStores`). Until a record is replaced, a load has seen no other than the
  present one (`SeenOne`), from which agreement follows although a continuation comes late.
- `ServesStored`: `Spec => ServesPersistedUsableCa`, by cases on the ways into service (`GoesIntoService`).
- `Refinement`: `Spec => ImplementsFleetCA`. The start of a load is `FleetCA`'s `Look`, what puts a server in service
  its `Adopt`, a write its `Settle` or `Renew`, a crash or failed load its `Stop`; `StaysInService`,
  `StoreChanges` and `SeenChanges` say that nothing else is visible.
- `Agreement`, `ClientCertsAgree`: `Spec => [](Converged /\ ClientCertsAccepted)`, the second by `IssuedByStored`: until a CA is
  replaced every client certificate is of the stored CA.

`ContextCache_proofs` proves, for any hosts, any number of handshakes, a cache of any size and any times, from the
assumptions named in `ContextCache` (a local certificate lasts a day at least, nobody borrows its own name, hosts have
the options the keys are made of):

- `Invariant`: `Spec => []Inv`. `Inv` says of every context in the cache (`EntryOK`) and of every handshake that awaits
  its certificate (`ConnOK`) what the certificate was when it was asked for: the name its key stands for, and,
  if it is a stand-in, that AcmeCA had none then (`CertOK`). A context carries this from the call of the factory to
  the last hit, and so it cannot matter what other handshakes, AcmeCA and the clock do in between.
- `TypeCorrect`, `InBounds`: the cache stays a map of at most `MaxSize` entries, by lemmas about deletion, eviction and
  insertion (`WithoutKey`, `RoomForOne`, `SetOne`): insertion is after an await, when the size is not what it was.
- `InDate`, `ADayAtMost`, `StandInsGo`, `RightName`: what is presented is in date, at most a day old, not a stand-in
  for a certificate there has been for long, and of the right name (`Presented`). The expiry is computed from a `now` read
  before the await and a clock read after it; `ExpiryCapped` is what the cap makes of the two.

`DnsChallenge_proofs` proves, for any machines, challenges, time to live and bounds:

- `TypeCorrect`: `Spec => []TypeOK`.
- `RecordsKept`: `Spec => []OwnRecordsKept`. What a starting machine reaps is a list made earlier, so
  the invariant must say why a stale list does no harm: a challenge is stored only once
  (`StoredOnce`), hence what was out of date when listed is so for good (`ReapsOld`). The value is in
  memory from before it is stored, so `Kept` speaks of `setting` as well.
- `Answered`: `Spec => AnsweredUnlessShadowed`, from these and `QueriesOK` (a query has come in before it is
  answered), by cases on how a published challenge can fail.

`LocalLeaf_proofs` proves, for any hosts, any number of handshakes and any bounds:

- `TypeCorrect`: `Spec => []TypeOK`, in which the key of a self-signed certificate is kept exactly
  while its timer runs (one timer per certificate, since its due time follows from the certificate).
- `CachedAnswers`: `Spec => []CachedCanAnswer`. The timer of one certificate drops whatever is cached
  for the key, maybe a younger one. That does no harm, because a cached certificate is cached
  under its own key and its timer runs (`CachedOK`).
- `AnswersFirstDay`: `Spec => []StapledFirstDay`, by `Aged`: what is younger than a day has its timer.
- `NoOlder`: `Spec => []TwoDaysOld`. A context is made of a leaf whose timer has not fired (`CachedOK`),
  so it ends within two days of the certificate (`ContextsOK`), and a handshake that goes on
  with it began before (`ConnOK`).

`Requests_proofs` proves about `EndpointMerge`, for any endpoints with any options, and hosts of any number of parts, from the
assumptions named in `EndpointMerge` (options of known names have values of their kind; no endpoint sets what is
derived from its versions):

- `MergeInvariant`: `MergeSpec => []MergeInv`. After each round of the loop the options are `Asked` of the parts so far.
  That a conflict is found exactly when the parts disagree (`ConflictIsDisagreement`), and that one more part adds
  what it asks for (`OneMore`), are facts about the merge alone, by cases on exclusive fields, the union of
  versions and the lowest security level.
- `MergesAsASetThm`, `VersionsAsAskedThm`: from it, the second by `ResolvedVersions`. As `Asked` is of a set, the order of
  the parts cannot matter.

and about `Requests`, from these and from what the redirect relies on (`Room`, `UntrustedRoot`, `SelfSigned`, `NoTls` in
`HostRouting`; TLC evaluates them for the real endpoints):

- `RouteInvariant`: `Spec => []RouteInv`. `RouteInv` adds to `MergeInv` which connection a client is on (`OnConnection`: one of
  its own, or one of HTTP/2) and that where it was sent there is nothing to send it away for (`Redirected`, in
  terms of the parts, since the options are those of the last call).
- `OptionsOfRequests`, `VersionsOfRequests`, `RedirectedOnce`, `OwnTls` follow from it. `TargetServable` is the fact that
  a local-only host and `untrusted-root` never conflict.
- `HttpInvariant`: `Spec => []HttpInv`. What a client has got says too little about what will be written next. `HttpInv` says
  it of what was written (`Progress`), by how many endpoints have begun and where the handler is: only their
  informational responses (`Informed`), the head of an answer that is still to end or has failed (`Headed`), or all that is
  expected (`Complete`). `WrittenBegins` is the fact that each of these is a beginning of what is expected, unless it is a
  head of HTTP/1 that is held back for what follows and may never be sent (`Held`); a step
  concerns one request (`Step`), and for it there is one lemma per action, with `HandleStep` by kinds of endpoint, those
  included that throw an error with a code of its own.
- `AnswersAsAsked`: `AnswerOfChain`, for any number of requests and chains of any length, from the path alone
  (`HttpAsked`), whichever responses wait for others, are destroyed while they wait, or have their socket ended.
- `Quiet`: `Spec => QuietAfterClose`, by cases on the steps of a session, for chains of any length.
- `TypeCorrect`: `Spec => []TypeOK`, from `RouteInv`, `HttpInv` and `WsInv`.

`Connection_proofs` proves, for any bytes that clients send in any segments, any requests and frames of any lengths
and any streams, from the assumptions named in `RawCapture` and `FrameCapture` (requests have a head, frames a header) and
in `ConnSniff`: a header is of one of five forms (none, a line that ends in time, a line without an end, version 2, version 2
with fields the parser makes nothing of), what comes behind it is not another header, and a line that ends in time
fits into the bytes that are kept:

- `RawInvariant`: `Spec => []RawInv`. `requestsInBatch` is the number of handlers in hand, and what is captured ends with
  all that has been read since the request in hand began, so that a handler alone in its batch finds its bytes there.
- `PipeliningRefused`, `OwnEchoed`: `PipelinedRefused` and `OwnBytesEchoed` follow from it. That a handler finds itself
  alone just when it is says nothing about requests that come in later; the batch must be kept until all are done.
- `FramesInvariant`: `Spec => []FramesInv`. Its part `StreamInv` relates for one stream what has come in, what is
  captured, what has been handed to callbacks and what is written, whether its request, its reset or the choice
  of another endpoint was first. The frames come from segments that are cut anywhere, by lemmas about the
  parser (`ParsedTo`, `UpTo`, `KeptFrom`): what it takes and what it keeps is what the wire has in full and the rest.
- `FramesEchoed`, `OthersEmpty`: `EachFrameOnceInOrder` and `OthersHoldNothing` follow from it.

- `SniffInvariant`: `Spec => []SniffInv`. While a header is waited for, all that has come in is kept (`AwaitsHeader`); while a
  protocol is, exactly the header has (`AwaitsProtocol`); what was handed on is the rest (`HandedOn`). So a step depends
  on how much has come in, not on how it was cut. `HeaderRead` says what the parser makes of the first bytes of
  each form of header, one lemma for each (`InLine`, `InEndless`, `InBinary`, `InRefused`, `NoHeader`).
- `NothingLost`, `InTime`: `NothingLostOrAdded` and `DecidedInTime` follow from it.
- `WholeHandled`: `HandlerOfWhole`, by `HandlerOfBeginning`: letter by letter, a beginning gets the handler of the
  whole, or is one of the preface, or is one of a method that the whole is not.
- `TypeCorrect`: `ConnectionTypeOK`, from the three.

Where these need a recursion over data (the end of a frame, the frames of a stream), the model has a recursive
function. `Sequences_proofs` proves that such a function is what its recurrence says (`RecursionExists`) and that
statements about sequences follow by induction (`SequenceInduction`), from the well-foundedness of the natural numbers;
a statement about data is there a set of numbers or of sequences, as the provers take no operators as
parameters.

Each preservation proof has one step per action. TLC checks each property first (runs `acme`,
`managed`, the runs of `ContextCache`, `dns`, `leaf`, `requests`, `connection`).

Only model-checked: liveness (`Answered`, `IntervalsEnd` and the other properties with `~>` or fairness), which is beyond the
prover, and the refuted claims. Every invariant and action property of a passing run is proved.

## Not modelled, and why

- In `AcmeCA`: more than one key (nothing relates two); `getChallengeResponse` (a pure function);
  a corrupt record in the file store (a `ReadFails` that never ends); HTTP-01 challenges.
- In `ManagedCA`: a server without a store, which generates a CA and shares nothing; two
  concurrent `getClientCertificate` on one server (the second certificate is of the same CA); a record of the
  file store that a crash has left half-written for good, which every later load fails to parse.
- In `ContextCache`: ALPN, TLS versions and ciphers, `rejectTls`, hosts more than
  one level below the root (they are not covered by the wildcard and behave as hosts without
  `Dns`), options that are part of both keys and so behave alike.
- In `LocalLeaf`: certificates of ACME (they are not answered for) and the intermediate that issues the
  other local ones (it is loaded at boot, see `ManagedCA`); the encoding of an answer; contexts in
  full, of which only the lifetime matters; a certificate's own validity, which is a year or, on
  purpose, over.
- In `DnsChallenge`: a machine without a shared store, other record types, packet encoding, two
  names. That `acme-client` removes the record of a failed challenge in its automatic mode is
  taken from the library's contract.
- In `ConnSniff`: a `readable` event with nothing to read, including that of the end of the stream (it
  only sets the listener again); the cap of 256 bytes on an undecided header, which cannot be
  reached since 12 bytes decide; how addresses are written.
- In `FrameCapture`: the order in which callbacks of different streams run (they share nothing); the
  types and flags of frames beyond ending and resetting a stream; the http2 module, which
  may report a request any time after its first frame and close a stream that was reset.
- In `RawCapture`: the HTTP parser; the upgrade to a WebSocket, after which collection goes on;
  requests whose handler throws (the `finally` block is what matters, and is the same).
- In `HostRouting`: absolute URLs of other hosts, which are refused before anything else; ports, paths and
  queries, which a redirect keeps; the two ways of separating parts; clients that do not
  send a server name or an authority (`Misdirected` leaves out the guards for them).
- In `HttpDispatch`: what responses say, CORS headers, HTTP-01 challenges (one of the answers that need no
  endpoint); a path that no endpoint can take and that throws something else than a `StatusError`; backpressure.
- In `WsSession`: the choice of a subprotocol beyond how many are asked for; fragments, pings and compression;
  what the end of the process does to other connections.
- `docs-page.ts`, `httpbin-compat.ts`, `endpoints/groups.ts`, `metrics.ts`: a page built once, names for the same
  endpoints, labels and counters. None has state that two requests share, beyond counters nobody reads back.
- `ocsp.ts` and the fields of certificates in `local-ca.ts`: encodings. Their bytes are for a parser to test.
