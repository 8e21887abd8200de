# loauth in TLA+

A verification development for loauth: the Prosody modules that run SASL over a
PRESENT link layer (PLS), the clients that speak it, the cryptographic code they
share, and the HTTP benchmark the project is measured with. Paths are relative
to the repository (`src/`).

Contents: 1 inventory; 2 plan; 3 modules and the code they model; 4 runs; 5
bounds; 6 fairness; 7 theorems; 8 what only TLC checks; 9 disagreements found;
10 what is not modelled.

## 1. Inventory

### 1.1 Components

| Component | Source | State it keeps | Operations | Talks to |
|---|---|---|---|---|
| SASL of client sessions | `docker-v2/mod_saslauth.lua` | `session.type`, `.secure`, `.username`, `.sasl_handler` | features hook, `<auth/>`, `<response/>`, `<abort/>`, bind | layers (they share `session.secure`), `util.sasl`, `usermanager`, `sessionmanager` |
| Layers | `docker-v2/mod_pls.lua`, `docker-v2/mod_tls.lua` | `session.ssl_ctx`, the filters on `bytes/in` and `bytes/out`, the contexts of `module.load` | features hook, `<startpls/>`, `<starttls/>`, config reload | SASL, the cipher |
| SASL EXTERNAL and layers between servers | s2s hooks of the same three files | `session.external_auth`, `cert_*_status` | s2s features, success, failure, proceed | remote servers |
| Login script | `client-v2/client-v2.py` | its place in the script, the nonce | eight steps of send and recv | the server, over TCP |
| C client | `xmppclient.c` | socket, session status, SCRAM buffers | Connect, XML_Parse and its reactions | the server, `authModule.h`, `present_cbc.h` |
| SHA-1, HMAC, PBKDF2, base64, SCRAM | `authModule.h` | `sha1_context`, buffers | starts / update / finish, PBKDF2, SCRAM messages | C client |
| PRESENT and CBC | `present_cbc.h`, `client-v2/pypresent.py`, `client-v2/present.py` | none between calls | encrypt, decrypt, pad, strip | layers, C client, script |
| Earlier negotiation | `present_integration/mod_present.lua` | one inbound filter | `<startpresent/>` | SASL, the cipher |
| HTTP benchmark | `benchmarks/http/bhserver.c`, `bhclient.c` | `poll_set`, `numclient` | poll, accept, recv, close up, send | kernel sockets |
| Pubsub benchmark service | `present_integration/test/mod_pubsub_bench1` | nodes, subscribers, affiliations, items | subscribe, publish, configure, delete, ... | Prosody's `util.pubsub` |
| loauth package | `loauth/*.py` | keys and tokens | JWT encode and decode, CHAP | - |

### 1.2 How they interact

The server is one Lua state that runs hooks to completion, so nothing interleaves
*inside* a hook. The interactions that matter are between hooks: three modules
share one session table. `mod_pls` and `mod_tls` write `session.secure`,
`session.ssl_ctx` and the filters; `mod_c2s` turns `secure == false` into `true`
when the next stream header comes; `mod_saslauth` reads `secure` twice, once to
write `<features/>` and once to judge `<auth/>`.

The clients see that session through a TCP byte stream. The server enciphers each
send as a CBC chain of its own, and a client has to find those sends again in
what `recv` returns.

The HTTP server is one thread over an array that it changes while it scans it,
and its environment (clients, kernel queues, resets) moves between any two of its
steps.

### 1.3 What is hard, and what would make each part correct

| Component | Hard to test | Properties that make it correct |
|---|---|---|
| SASL | elements in an order no client sends; `<response/>` without `<auth/>`; a refused name after a right password; `secure` changed between offer and use | handler and client agree on the exchange; a name is taken only from a proof of the last challenge; identity never changes; offers are what is accepted; bind only after the restart |
| Layers | two modules that start the same layer, several times, on either side of SASL; config reload between offer and use | `secure` says the truth about the bytes; no password in clear; an advertised layer is never refused |
| Login script | where the network cuts the stream; when filters appear; random nonces | it always ends; success is printed only of an authenticated, enciphered session; and it is printed |
| HTTP server | the array closed up in the middle of a scan; newcomers during a scan; peers gone at any moment; a peer that does not read; an accept that fails; a full array | array exact; no recv or accept that blocks; overrun only when every slot is held; every request read, every dead client noticed, unless `send` blocks for good |
| SHA-1 stream | calls that end at any place in a block; texts of 55, 56, 63, 64 bytes; the 2^32 carry; a context used again | no byte lost or doubled, count exact, padding right |
| PBKDF2 and HMAC | last, truncated block; XOR chain; 0 and 1 iterations; passwords of a block and longer | equal to RFC 2898 and RFC 2104 |
| SCRAM of the C client | `strlen` of binary digests in buffers that are not terminated | a right password is accepted, or it is known exactly when not |
| C client | recursion send / receive / parse; a `recv` that ends in a header; strings without an end and arrays of dead frames | every stanza answered once; ends authenticated |
| PRESENT | an 80-bit key register kept in two variables; subkeys from the last to the first | the key schedule is that of one register; deciphering retraces every state of enciphering |
| CBC | filling that looks like text; a text that fills its blocks; bytes beside the arrays | exactly the texts that do not look filled come back as they were |
| mod_present | only one direction is filtered | the two ends agree on the filters |
| Pubsub | one subscription of several failing; affiliation changed under a subscription | all-or-nothing answers; roles respected |

`PROJECT.json` lists the single hazards with the line where each bites and the
property that would catch it.

## 2. Plan

Order: what the system is for first (authenticate a client over an enciphered
link), then its environment, then the algorithms, then the side services.

| # | Module | Content | Composes | State |
|---|---|---|---|---|
| 1 | `SaslAuth` | c2s hooks of mod_saslauth; the abstract session | - | done, proved |
| 2 | `C2sSession` | SaslAuth with mod_pls and mod_tls; refines it | SaslAuth | done, proved |
| 3 | `ClientV2` | the script against that server over TCP, liveness | C2sSession | done, proved but for fairness |
| 4 | `PollServer` | bhserver.c with its clients | - | done, proved but for fairness |
| 5 | `Sha1Stream` | the SHA-1 context as a stream; refines `Digest` | `Digest` | done, proved |
| 6 | `PresentCipher`, `PresentCbc` | PRESENT on one block; filling, chaining and stripping of present_cbc.h, there and back | PresentCipher under PresentCbc | done, proved |
| 7 | `Hmac`, `Base64` | the keyed hash over any hash; base64 bit by bit | - | done, proved |
| 8 | `Scram` | PBKDF2 and SCRAM_responce_create, strlen on binary digests | Hmac, Base64 | done, proved |
| 9 | `PresentStream` | mod_present's one-way filter on a session of mod_saslauth; refines SaslAuth | SaslAuth | done, proved |
| 10 | `XmppClient` | the C client's send / receive / parse over TCP against that server | PresentStream | done, proved but for fairness |
| 11 | `S2sExternal` | s2s hooks of mod_saslauth, mod_pls and mod_tls, two servers | - | left (section 10) |
| 12 | `PubSub`, `Jwt`, `Chap` | the benchmark service and the Python package | - | left (section 10) |

Two layers meet where one abstracts what the other computes. `XmppClient` and
`ClientV2` send a proof that is good for one user and one challenge; `Scram`
says when the C client makes such a proof, and the initial choice `digests` of
`XmppClient` stands for its two answers. `Hmac` and `Scram` take a hash that
depends on nothing but the message; `Sha1Stream` shows that the context of
`authModule.h` is one.

Abstract specifications: the SASL session (`SaslAuth`, implemented by
`C2sSession` and `PresentStream`, and through them by the servers inside
`ClientV2` and `XmppClient`); a digest of all that was said since the start
(`Digest`, implemented by `Sha1Stream` under a refinement mapping); PBKDF2 as the
formula of RFC 2898 over the keyed hash of RFC 2104 (`DerivedKey`, `HMAC`); the key schedule as one register of 80 bits
(`OneRegister`).

## 3. Modules and the code they model

`PROJECT.json` "map" gives the lines of every definition.

**SaslAuth** is one client session as `mod_saslauth.lua` sees it. `type`,
`secure`, `username` and `handler` are the fields of the session table of those
names (`bound` is `full_jid`); `stream` tells whether a header is awaited
(`reset_stream`), the stream is open, or the session is closed. `offer`,
`bindOffer`, `stanza` and `heard` record what was exchanged last, so that
properties can speak of it. One action per hook: `stream_features` (three cases),
`auth`, `response`, `abort`, `bind`; `handle_status` and `sasl_process_cdata` are
the functions of those names, with every failure path. Text in an element is one
of five forms: none, not base64, rejected, a first message (or PLAIN), a proof.
A proof is good for one user and one challenge, and a challenge carries a fresh
number; that is all of SCRAM the hooks depend on. `util.sasl`, the user manager
and the session manager are external (`Outcome`, `BadNames`, the free choice in
`bind`). `security_layer` and `close` are what other modules do to the session.

**C2sSession** extends it with `mod_pls` and `mod_tls`: their cached context
(`sslCtx`), the contexts `module.load` created (`contexts`, changed by
`config_reloaded`), the filters as counts (`bytesIn`, `bytesOut`: filters stack
when a layer is started twice), the two feature hooks in either order, and the
hook that proceeds or refuses and closes. `can_do` is `can_do_pls` and
`can_do_tls`, which differ in their option names only. It refines `SaslAuth` with
the identity mapping: `ImplementsSaslAuth == Spec`.

**ClientV2** adds the script and the wire. An element is sent under a number of
layers; `toServer` and `toClient` are byte streams of such sends; `Recv(n)` takes
any prefix. The first two answers are printed and not looked at; later ones are
deciphered as one chain, which comes out readable only if it is one send. The
last one is printed whatever it is, as long as it deciphers. `ServerReads` passes bytes through the filters that exist *when they are read*,
which is where the race with `<proceed/>` would bite. `Raise` collects the places
where the script raises: `bytes.fromhex` of clear text, the parser on garbage,
the unpacking of a field with a second `=`. The challenge is exactly 200 bytes
long with a nonce of five characters (a multiple of the eight-byte block), so no
filling reaches the parser. A nonce with a comma is cut there by the server; then
the challenge is shorter, and by the place of the comma filled or not:
`AnswerChallenge` and `Raise` are both possible (`Nonces`).

The server's ciphers are the C functions behind `libnativefunc.c`, which hand Lua
arrays of frames that have returned. `arrays` is chosen at the start: "kept", or
"reused", and then any text that goes through a filter may be lost
(`ServerReads`) or come out as something else or nothing (`ServerSends`). What is
promised of the script is promised for "kept".

**PollServer** is `bhserver.c` statement group by statement group: `Poll`, then
one step per visited slot (`Skip`, `Accept`, `AcceptFails`, `Remove`, `Overrun`,
`Serve`, `Misread`), then `EndScan`. `Serve` is followed by a step of `TCP_Send` for
each slot that is answered. `CloseUp` is the copying loop of lines 166-170, including its read of
`poll_set[numclient]` and the index that goes on past the slot that moved up.
The kernel keeps a listen queue, what each peer did (`up`, `fin`, `gone`,
`reset`), an unread request, and how many answers the peer has not read
(`unread`). With `Window` of them `send` blocks (`Deliver` is not enabled), for as
long as the peer is up and does not read; nothing obliges it to. A send to a peer
that closed brings a reset; the next one raises SIGPIPE. `accept` may return -1,
which is stored and counted: `poll` passes over it, and `TCP_Send` to it counts
down for ever. Nothing bounds the number of clients by `POLL_SIZE`: a step that
would write or read `poll_set[POLL_SIZE]` is `Overrun`. `fate` says how the process
fares: "running", "killed", "spins" or "overrun"; after an overrun nothing is
modelled.

**Sha1Stream** is `sha1_starts`, `sha1_update`, `sha1_finish` on one context
that is used again. A byte is identified by its text and place, so that any byte
lost, doubled, stale or out of order shows. The block size, the size of the
length field and the word are parameters (64, 8 and 2^32 in the code). The five
state words stand for the bytes they were computed from (`hashed`); the rounds
of `sha1_process` are abstract. **Digest** is what a user of it relies on: a text
is said piece by piece and the digest is one of all of it. `Abstract` is the
instance of `Digest` whose text is what blocks and buffer hold (`TextHeld`).

**PresentCipher** has the functions of `present_cbc.h` on one block. A `uint64_t`
is a function from bit places to bits, highest first as in the table `P`, so a
shift or a mask is an equation between places. The S-boxes and the permutation
are constants; the runs use the tables of the code. `NextRegister` is one turn of
`generateSubkeys` on its two variables.

**PresentCbc** runs `presentCBCencr` and then `presentCBCdecr`, as the two Lua
functions of `libnativefunc.c` do, down to the rounds: `generateSubkeys`, for
each block `EncryptsBlock`, 31 times `EncryptRound`, `EncryptEnds`; the same
backwards; then `Strip`. `trail` keeps every state of the encryption, so that
`Retraced` can compare. `Stripped` is the loop that turns digits into NULs, and
reads one digit beside the array (`before`); `textFromHexString` is the reader
behind it, which goes on into `behind` when nothing was stripped. What the two
bytes hold is chosen at the start.

**Hmac** and **Base64** are operators. A byte is the set of its set bits: `^` is
the symmetric difference and NUL the empty set. What SHA-1 makes of a message is
a constant (`Sha`), of which nothing is assumed. `HMAC` is RFC 2104 written as
the RFC does, key filled up and put under each pad; `sha1_hmac` is the code,
with its context of two pads.

**Scram** is `SCRAM_responce_create` with `Self_PKCS5_PBKDF2_HMAC` as its loop:
`FirstRound`, `Iterate`, `WritesBlock`; then `MakesKeys`, `Signs`, `Proves`.
`CStr(d, b)` is what `strlen` and `strcpy` see of a binary digest `d` in buffer
`b`: all before the first NUL, or, if there is none, the digest and the byte that
stands behind it. Which buffers such a byte follows (`dirty`) is chosen at the
start. The exclusive or becomes hexadecimal digits, and `textFromHexString` reads
them back in pairs: a character behind `outputHex` (`stray`) is a pair of its own,
of which `strtol16` makes its value as a digit, or NUL, which ends the string. The
array that it returns is of its dead frame, and `strcpy` may find anything in it
(`txtoutput` in `dirty`, `Copied`). `Recovered` is the server's side of RFC 5802 on
whole digests.

**PresentStream** is a session of `SaslAuth` under `mod_present`, the module the C
client was written for. `startpresent` has the three ways out of the hook:
install a deciphering filter (`Encrypt`; the stream is *not* reset), do nothing
for another method, and leave the element unhandled before a resource is bound,
which closes the stream in Prosody. `filters` counts the filters on `bytes/in`;
there is none on `bytes/out`. `StreamIsSasl == Spec` is the refinement.

**XmppClient** puts `xmppclient.c` in front of it. The client keeps no state
between answers: `DecodeXML` searches what one `recv` returned for six strings in
a fixed order (`Triggers`) and sends what belongs to the first it finds
(`Reactions`), or exits (`TheEnd`). Each reaction calls `TCP_GetIn` again and
never returns, so the call stack is the program counter and the second
`TCP_GetIn` of `TCP_Init_Stream_Header` is dead code. `Recv(n)` takes any prefix
of what is under way. `ServerReads` gives the filter what has arrived as one
piece of data, one CBC chain. Four things are undefined and chosen at the start:

- `digests` is "cut" when `strlen` of a binary digest (`authModule.h:675, 679`) is
  not its length, and the proof is then wrong (`Scram` says exactly when).
- `heap` is "dirty" when bytes stand behind the text of `<auth/>`, which
  `SCRAM_init` leaves without a NUL (`authModule.h:570`) and `xmppclient.c:231`
  prints with `%s`. The server then skips them, or refuses the text, or reads
  another nonce, or does not find an element at all (`AuthTexts`, `Garbled`).
- `memory` is "reused" when the array of its own frame whose address
  `presentCBCencr` returns (`present_cbc.h:354`) is overwritten before it is copied,
  and the query is then something else; and "empty" when it then begins with a
  NUL: `send` of nothing puts nothing on the wire (`IsEmpty`).
- `serverMemory` is "reused" when the server loses the deciphered query in the same
  way (`authModule.h:453`, `libnativefunc.c:31-32`), or when it is a text that does
  not come back from the cipher (`Survives` of `PresentCbc`).

What the parser cannot read closes the session, or is taken in silently where it
is blank, plain text, nothing, or the beginning of an element (`ServerHandles`);
client and server then wait for each other (`Spoilt`). `Answer` is Prosody's dispatch of an
element to the hooks, which are those of `PresentStream`: `ServerIsStream`
checks, and the theorem proves, that the composition uses the server as it is.
In this model and in `ClientV2` a send travels whole: each is shorter than a TCP
segment.

## 4. Runs

| Run | Instance | Shows |
|---|---|---|
| `sasl` | PLAIN, SCRAM, DIGEST-MD5 (disabled), EXTERNAL (not supported), three accounts one of which cannot be authenticated, three challenges, `c2s_require_encryption = true` (`layers`, `present` and the clients run with `false`) | no order of SASL elements, aborts, layer starts and restarts breaks agreement, identity, policy or the order of bind; nothing is offered or accepted before a layer is up |
| `layers` | one account, both layer modules, two layers, two challenges | the flag tells the truth about the bytes; the refinement of SaslAuth holds |
| `client_v2` | the script, one challenge, every cut of the stream, every kind of nonce, arrays kept or lost | it always ends when arrays are kept; it prints success when besides each `recv` returns a whole answer and the nonce has neither `=` nor `,`; printed success is real |
| `client_v2_nonce` | the same, on a network where each `recv` returns a whole answer | the README's promise fails (section 9) |
| `poll` | three clients, GET and POST, five slots, accepts that fail, peers that do not read | safety of the array and of the scan; the array is overrun only when connections and failed accepts hold every slot |
| `poll_live` | two clients, GET, four slots, accepts that fail | every request is read, and every dead client noticed, or the server has ended, or stands for ever in a `send` |
| `sha1_stream` | blocks of 4 bytes, length field of 2, words that wrap at 16, two texts of up to 18 bytes, calls of up to 9 | `Digest` is implemented through wraps, fills and reuse |
| `present` | one account, three mechanisms, the method of the module and another, two filters, two challenges | a filter stands only on a bound session, in any order of SASL elements and `<startpresent/>`; SaslAuth is refined |
| `xmpp_client` | the C client's account and mechanism, every cut of every answer, every outcome of what is undefined | client and server stay in step and in turn; the client always ends, except behind an element that memory spoilt, and gets its answer when nothing goes wrong |
| `present_cbc` | the tables of the code, the key of `xmppclient.c`, 51 texts of one and two blocks | round by round the key schedule is that of one register and deciphering retraces enciphering; exactly the texts that do not look filled come back |
| `scram` | a hash of two bytes in which every eighth byte is NUL, three passwords (shorter than a block, of exactly one, longer), sixteen texts and salts, 0 to 3 iterations, three key lengths, each buffer dirty in turn, four characters behind the digits of the proof | the derived key is that of RFC 2898 over RFC 2104, on either side of a block; the salt is used as it is exactly when `strlen` finds all of it; after hashes of the right bytes a right password is accepted exactly when neither signature nor proof holds a NUL and neither a byte nor a digit strayed into the proof |
| `xmpp_client_proceed` | the same as `xmpp_client` | after `<proceed/>` the server's sends are in clear (section 9) |

Each property of a passing run has a mutant: an operator beside the definition it
replaces, that a plausible slip in that code would give (a filter not installed, a
handler not replaced, a copy loop one slot late, a carry off by one). TLC finds
the property violated under each.

## 5. Bounds

- `MaxChallenges` (3, 2, 1). Two challenges are needed to confuse an old one with
  the current one; the third lets a confusion arise after an abort *and* a
  failure. The script runs one exchange only. The theorems have no bound.
- `Users`: two that can log in (to take another's name) and one that the session
  manager refuses.
- `MaxLayers` (2): once by either module, and the stacking of a second. In
  `client_v2` 1, since the script starts one.
- `MaxFilters` (2): one filter and the stacking of a second. The C client starts
  one; a bound session may ask again.
- `Clients` (3) with `PollSize` 5: a removal in the middle of the array, with one
  slot before and one after, and an arrival in the same scan; and one failed
  accept fills the array, so that the next one, or a removal, overruns it. In
  `poll_live` two clients and four slots do the same. Clients are symmetric in
  `poll`, which checks no liveness. `Window` 1: the second answer to a peer that
  does not read blocks; a wider window only comes to that later. One unread request
  per client at a time is kept: `recv` of the code takes all there is.
- `Sha1Stream`: `Word` = 16 lets the count wrap within `MaxFed` = 18 bytes;
  `MaxChunk` = 9 covers two blocks and one byte, so a call can top up a block,
  take a whole one and leave one partial; 18 passes every remainder of a block,
  with and without room for the length.
- `present_cbc` has the real block size, tables and number of rounds. Its texts
  are made of a letter, a character whose low digit is 0 (`p`) and a control
  character (newline): alone, and around the end of a first block (7 to 9
  characters), so that each is last, before a last one, and first in a block. One
  key: what it computes with it is a function, and the theorems take any.
- `scram`: `B` = 3 and `D` = 2, with passwords of one, three and four bytes:
  shorter than a block, exactly one, and longer, which the code hashes first; a
  key length of 5 takes two blocks and a half; iterations 0, 1, 2 and 3 are no
  inner loop, none, one and two turns. The text lengths leave every remainder
  modulo three. Each buffer is dirty alone. Behind the digits stands nothing, a
  character that is no digit, `0`, or `7`, whatever buffer is dirty.

## 6. Fairness

`SaslAuth`, `C2sSession`, `PresentStream` and `Sha1Stream` state safety only:
nothing obliges a client to send or a caller to call. `PresentCbc` and `Scram`
are single calls whose loops end by their counters; what matters is what they
return, so they state safety only, too.

`ClientV2` assumes `WF(Client)` and `WF(Server)`. The script is a straight line
of blocking calls: a step that stays possible is taken. The server's event loop
reads and parses whatever has come. Delivery by TCP is in those steps. No
fairness chooses *how much* a `recv` returns. `Finished` keeps an ended script
stuttering, and one that waits in vain for what a lost array held, so that deadlock
stays checked for all others.

`XmppClient` assumes the same two, for the same reasons. `QueryAnswered` holds
only where a `recv` returns all the server has to say (`whole`), which is an
initial choice and not an assumption of fairness: `ClientEnds` holds without it.
A wait that never ends is possible only in `Spoilt`, and the property says so.

`PollServer` assumes `WF(Server)`: the loop never pauses but in `poll()` and in
`send`, where `Server` is enabled exactly if something is ready, or if the peer has
room or is gone. Clients are under no fairness: none has to read, so the two
liveness properties except a server that is `Blocked` for ever, and no other.
`WF(Server)` and not strong fairness of its parts is enough for `RequestsServed`:
a slot skipped after a removal is found again by the next `poll`.

## 7. Theorems

All are proved by TLAPS for every value of the constants that meets the named
assumptions. Those say that names are distinct, sizes positive, the tables of the
cipher inverse, and the account, mechanism and layer of a client among the
server's. The number of clients of the HTTP server is not bounded by its array.
Two theorems carry hypotheses of their own, `EndsWithSuccess` and `EndsWithQuery`: that the
configuration permits the client's mechanism and account, since otherwise the
server rightly refuses.

Three of the modules also prove what liveness rests on. Under fairness a run ends
if somebody can always move and no run goes on for ever: the first is
`NoIdleRecv` and `PollWakes` (nobody sleeps on something that is due), the second
`WorkRunsOut` and `ScanEnds` (a measure on the natural numbers that each step
makes smaller). The third part, that the end is the right one, is
`EndsWithSuccess` and `EndsWithQuery`. What is left to TLC is that fairness makes
of them a temporal property.

**SaslAuthProofs** (8 theorems: every property of `sasl`). The inductive
invariant is `TypeOK`, `HandlerShape`, `AuthedShape` and the three state
properties `ExchangeAgreed`, `OfferIsHonest`, `SelectedIsPermitted`.
`HandlerShape` says that a handler with no mechanism selected carries no
challenge, and that no stream is open while `secure` is false: without them
`ExchangeAgreed` and `SelectedIsPermitted` are not inductive, since `<response/>`
might run a process no exchange began and a layer might lower the flag under a
selected mechanism. `AuthedShape` (named, of an authenticated type and without a
handler go together) carries `IdentityFixed`: the hook of `<response/>` does not
look at the type, and only the missing handler stops it. The action properties
follow from the invariant and one case per action.

**C2sSessionProofs** (5: every property of `layers`). First that every step of the session with its layers is
a step of `SaslAuth` or leaves its variables alone (`Implementation`), which
brings all its theorems along; then that `secure` tells the truth
(`SecureIsTrue`). Its invariant `LayerShape` says what each of the three values of
the flag means for the filters, also between `<proceed/>` and the next header,
where the equivalence itself does not hold, and that layers are on offer only
with a cached context. `NoClearLogin` is the two together: a mechanism is selected
only when permitted, so, where the policy asks for it, only when `secure`, so only
under a cipher.
`AdvertisedWorks` rests on the cached context; `LayersTyped` on the bound alone.

**ClientV2Proofs** (7: the script). Each step of the composition is
a step of `C2sSession` or leaves it alone (`ServerIsSession`), so `LayerShape`
holds while the script runs. `PrintedIsTrue` carries along that every `<success/>`
on its way names the user and was enciphered only if there are filters
(`TrulyTold`): names change only to the user's, filters are never taken out, and
a part of what was said is as true as the whole. It holds on every network.
`StaysInStep` is about a network where a `recv` returns all there is, with arrays
kept: then the
script sends only when nothing is under way, and `InTurn` says, for each place it
can be at, whether the server has yet to answer and how many filters it has. That
`<startpls/>` is not refused there follows from the context the features hook
cached. `ClientAssumption` says that account, mechanism and layer of the script
are among the server's, and that one challenge may be issued. `ScriptLogin` collects
what the refinements bring along.

Then the end of the script. `NoIdleRecv` adds to the invariant what the server
still owes while arrays are kept (`AnswerDue`): something the server hears is on
its way to it (`Heard`), or an answer is, or the connection is closed; a handler
says at least one thing to each element or closes, and the one request for the
layer is read in clear (`AsksOnce`). `WorkRunsOut` counts the steps of the script that
are left, three for each, and two or one for an element on its way or read; it
starts at eighteen. `EndsWithSuccess` follows one run on a network that keeps
answers whole, with arrays kept and a nonce without `=` and `,`: `OnTrack` adds to `InTurn` that each answer is the good
one (`Outcome` of the one proof the script makes is "success"), and what is
deciphered is one chain; so the places where the script raises are not reached.

**PollServerProofs** (7: every safety property of `poll`, and two facts under `poll_live`). The invariant is
`TypeOK`, `SlotsExact`, `Clean` (no revents is set at or above the count, so a
slot appended during the scan is passed over), `BacklogExact` (the queue holds
queued clients, each once), `Count` (the count is one more than the open
connections and the failed accepts), `FailedKnown`, `AnswersInUse` (`TCP_Send` is
called for slots in use) and `NeverBlocks`. `Count` says who holds the
slots of a full array (`OverrunsOnlyFull`); closing up keeps `NeverBlocks` because descriptors and revents move together, and
reads a clean slot beyond the last. `PollWakes` needs one thing more, `NobodyLost`:
whoever is queued is in the backlog, and whoever is neither queued nor open left
no request and no end behind. With `SlotsExact` a client that wants something then
has a slot that is ready, or the listener is. `ScanEnds` takes the slots still to
come (`ToVisit`): closing up takes one away where the index goes on past it, and
only the listener's slot, visited first, can add one.

**Sha1StreamProofs** (5: every property of `sha1_stream` and the three facts its
refinement rests on). The invariant: the context is typed, whole blocks have been
processed, an open stage satisfies `Holds` (processed blocks and buffer are the
text, the count is its length), a finished one `IsPadded`. `UpdateHolds` is the
induction step for any input, split into the call that completes the buffer and
the one that does not; `FinishPads` applies it twice, to the padding and to the
length field, with `PadEndsBlock` for the arithmetic of the last block.
`RefinesDigest` maps each step to one of `Digest`: what blocks and buffer hold
only grows between start and finish, and the digest is one of that. All hold for
every block size, so for 64, 8 and 2^32 although TLC never runs those.

**PresentCbcProofs** (8: every property of `present_cbc`, and what the code computes). Assumed of the tables is that the two S-boxes are
inverse and that the permutation takes no two bits to one place
(`TablesAssumption`), of the key and the texts nothing but their types.
`AlwaysOneRegister` compares the code's two variables with one register of 80
bits place by place. `AlwaysRetraced` needs to know how the cipher came about:
the invariant `CbcInv` adds that the trail of each block is a run of rounds from
the chained block (`Enciphered`, `Enciphering`). One round back undoes one round
(`RoundBack`), and the chain ends in the block of the text since the exclusive or
is taken twice. With `AlwaysKeySchedule` (the registers start at the key and each
is the next of the cipher's schedule) `AlwaysEnciphered` says what is computed,
and not only that it can be undone.

`AlwaysSurvives` goes on from the blocks to the text. `Gap(t, m)` says where the
digits of `t` leave a NUL in front of character `m + 1` once the filling is
stripped: `StrippedAre` says which digits that takes, and `GapsAre` puts it in
terms of characters: a gap is behind a character that ends in the digit 0, before
a control character or the filling and never on the end of a block, or in front of
the first character by what lies before the array.
`textFromHexString` ends at the least such place, or behind the array. That there
is a least one is the only induction, and it is the library's `WFMin` for the
order on the naturals, taken as a fact about a set (`LeastNat`). `ReadIs` is what
is read up to there (`Back`), `GapsDecide` when that is the whole text, and
`GapsAreLooks` that this is the condition `Survives` states. Two corollaries say
what it means for a user: of printable text the last character decides
(`PrintableComesBack`), and a text that does not come back is cut short, with at
most one character changed, the last (`ComesBackCut`).

**ScramProofs** (4: every property of `scram`, and two of its operators). `Base64Back` is the decoder after the encoder, for every
length, by the places of the bits. `HmacIsRfc2104`: the two pads of the context
are the filled-up key under each pad, for keys shorter than a block, of one and
longer. `AlwaysDerivedKey`, whose formula is over `HMAC`: the invariant `KeyInv`
adds to the formula where the loop is (`BlockOK`: the running exclusive or is
that of the chain so far). `AlwaysProofVerifies`: `ProofInv` says that what each
step stored is still what it computed; `SaltIs` is about the salt, and
`RecoveredIs` goes through the possible signatures: clean, with a NUL, or with a
byte equal to the key's, each with and without a byte behind it and a digit behind
the proof (`LenOfMore`), and finds what the server recovers. What is not said is
what becomes of a proof when a key was cut, or a byte hashed, that should not have
been (`HashedRight`): that depends on the hash.
Nothing is assumed of the hash, so this is not a matter of likelihood: it says
for which digests the login works.

**XmppClientProofs** (11: the refinements and the state properties of `present` and
`xmpp_client`, and the end of the client). For `PresentStream`: its steps are steps of
`SaslAuth` (`PresentImplementsSasl`), so `IInv` comes along, and with `BoundType`
(type "c2s" means bound) it shows that a bound session keeps its type, resource
and stream (`BoundStays`): its handler is gone, so `<auth/>` and `<response/>`
cannot succeed. `FilterIsBound` follows. For `XmppClient` the invariant
`ClientInv` is a case for each place where the conversation can be: nothing sent
(`Starting`), an element under way (`Travelling`), read (`Arrived`), or answered
(`Replied`). What the session must look like for an element to be welcome
(`Serving`) is implied by what it looks like when the answer that triggers it is
sent (`Told`), and nothing but the last element of an answer triggers anything:
so a `recv` that makes the client react has taken all there was, and at most one
element is under way (`TakesTurns`), however answers are cut. The other three
theorems read off the invariant. They hold for any accounts, mechanisms, policy
and bounds, and for every outcome of what is undefined; so does `ClientLogin`,
which collects what the two refinements bring along.

The client is a recursion of calls through each other, so its end is less plain
than the script's. `Owed` says to which element each string on its way is the
answer; the header is sent twice, and `username` tells the two apart: a session
without a name is never offered bind, nor one with a name mechanisms. So each
reaction goes to an element later in the conversation (`ReactGoesOn`), and
`WorkRunsOut` counts from twenty-four. `NoIdleRecv` says that something is under
way whenever the client is in `recv`, or that the connection is closed, unless the
client is `Spoilt`; only an element that is `Garbled` gets it there
(`GarbledIsSpoilt`). For
`EndsWithQuery` the invariant `OnTrack` adds, on a network that keeps answers
whole, with clean digests and heap and kept arrays, that each element meets the session
ready for it (`Welcome`) and each answer is the good one (`Good`): the element is
readable because the two ends are in step, so the parser accepts it; the proof is
for the handler's own challenge; and the client ends at the reply to its query.

## 8. What only TLC checks

Liveness (`ScriptEnds`, `PrintsSuccess`, `ClientEnds`, `QueryAnswered`,
`RequestsServed`, `SlotsReclaimed`): fairness and ENABLED are out of the prover's
reach. Section 7 says what of them is proved: that nobody waits for nothing, that
the work runs out, and that the end is the right one. Everything else the passing
runs check, every invariant, action property and refinement, is a theorem.

The deadlock check is TLC's, too, since it is about ENABLED.

## 9. Disagreements found

- `client_v2_nonce`. `docker-v2/README.md:42` says that the script "should print
  out a **success** message". It does not for a nonce that contains `=`, which
  nothing takes out: line 112 unpacks each field of the challenge into two. Nor
  does it always for one that contains `,`: line 35 means to replace commas but
  discards the result of `replace`, the server ends the nonce at its first comma,
  and a challenge that is then not a whole number of blocks keeps filling that the
  XML parser refuses (line 111).
- `xmpp_client_proceed`. `present_integration/readme.txt:41` says of `<proceed/>`
  that "this implies the stream is present encrypted now". `mod_present` filters
  `bytes/in` only (lines 75-82 and 117); what the server sends stays in clear, and
  the client prints it as it comes.

Three things the passing runs show that no document speaks of. The script takes
each `recv` for one answer, while the server sends header and features as two
enciphered sends that TCP may deliver together or apart: `PrintsSuccess` needs
`whole`. `ProofVerifies` is an equivalence whose right side is often false: with
digests of twenty bytes, a NUL in one of the four that are measured, or a byte
that key and signature share, makes roughly one login of the C client in three
fail with the right password. And `Survives` excludes texts: `presentCBCdecr`
takes a character that ends in the digit 0, before the filling, for filling.

Not disagreements, though they look like it: `mod_pls` sets `secure` to `false`
when it installs the filters, and `mod_c2s` makes it `true` at the next header, so
`c2s_require_encryption` and PLS work together; a layer can be started again after
authentication, which stacks filters on both sides of a client that does the same.

## 10. What is not modelled, and why

- What the rounds of SHA-1 compute: a function of bits on bits, of which no
  property here depends on anything but that it is one; test vectors serve it
  better.
- Of `authModule.h`: the base64 around the whole message, the server's signature
  (computed at line 731 and lost), and `Final_Auth_Parse`, `randomNonce` and
  `sha1_hmac_reset`, which are never called, as is `String_Gen` of
  `present_cbc.h`. A stray byte behind the iteration field could only be a digit
  to matter; it is taken to be none. Behind a buffer stands one stray byte at most;
  `textFromHexString` would go on over more of them, two at a time. Writes past an
  array or a heap block (`tempStore`; `authModule.h:624, 664, 715, 725`, where the
  block has no room for the NUL or for all that is copied) are left to layout and
  allocator and taken to do no harm.
- The HTTP server after it has left its array (`Overrun`): what stands behind
  `poll_set` is the linker's choice.
- Characters with the top bit set: `string2hexString` prints eight digits for
  one, and the callers send ASCII.
- SASL EXTERNAL and the layers between servers (the s2s hooks of the three
  modules): one exchange without memory between two hooks; what it decides on,
  certificates and trust, is established in other modules of Prosody. The layer
  hooks are those of client sessions on another session type.
- The pubsub service of the benchmarks: glue over Prosody's `util.pubsub`, which
  holds all the state, so that a model would be one of the library.
- The `loauth` package: stateless wrappers of JSON, base64 and hmac libraries,
  used by nothing else of the repository; CHAP is one request and one answer.
- PRESENT in Python (`pypresent.py`, `present.py`): a published implementation
  with usage vectors of its own, on Python integers, and a CBC mode of a dozen
  lines that strips nothing; the key splitting and stripping that are hard about
  the C code are not there. `ClientV2` uses it as a cipher only.
- Prosody itself, OpenSSL, the kernel: external, modelled from how the code here
  uses them.
- Configuration files, build files and certificates: no behaviour; the settings
  that matter are constants (`SecureAuthOnly`, `Insecure`, `Disabled`, `Layers`).
- `docker/mod_tls.lua`, `prosody-actual/mod_tls.lua` and
  `present_integration/mod_tls.lua`: earlier versions of the module that is
  modelled.
