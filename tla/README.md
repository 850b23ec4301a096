# Verification of ldap-oidc-provider

TLA+ specifications of the program under `src/`: an OpenID Connect provider
(oidc-provider on koa) that takes its users and clients from LDAP directories,
keeps its short-lived records in Redis, and adds an OAuth grant in which signed
assertions of a mobile *trust agent* are exchanged for tokens. The modules are
written from the code; TLC checks them on small instances, and TLAPS proves the
main safety properties for every value of the constants. Paths below are
relative to `src/`.

Contents: [inventory](#inventory) · [modules and code](#modules-and-the-code) ·
[runs](#runs) · [fairness](#fairness) · [proofs](#proofs) ·
[limits](#what-is-not-modelled) · [plan](#plan)

## Inventory

| Component | State it keeps | Operations | Talks to | What is hard | What makes it correct |
|---|---|---|---|---|---|
| LDAP connection, `provider/adapters/ldapconnection.js` | `rootConnection`, `connectAttempt`, the wait list `wait`; one object for each search in flight | `connect`, `find`/`raw_find`, `findBase`, `findAndBind`, `cloneWithConnection` | LDAP server (bind, search, socket events); shared by every request | many finds arrive before the lazy bind; bind refused or never answered; connection closes or falls silent; an error event without a listener ends the process | one root connection, nobody lost on the wait list, a login proves itself, every call settles |
| LDAP filters and storage adapter, `ldap.js`, `buildFilter` | `org.filter`, an array shared by all lookups of a model | `find`, `findByKey`, `findAndBind`; `buildFilter` | LDAP connection, claim mapping | `buildFilter` destroys its argument, which is partly the configuration; empty and nested conditions | the filter means its array; key, class and restriction are never lost |
| Storage contract, `my_adapter.js` | records and their grants | `upsert`, `find`, `consume`, `destroy` | oidc-provider | destroy concerns all tokens of a grant | destroyed means not found |
| Memory adapter, `memory.js` | an LRU cache of records, a list for each grant | the same, and `findByKey`, `findAndBind` | oidc-provider, tests | lists and records expire and go separately | implements the contract |
| Redis adapter, `eduidRedis.js` | hashes, expiries, grant lists in Redis; one client for the process | the same | Redis | `destroy` is several commands; crash, failure and other calls in between; HSET revives | lists cover tokens; destroy removes what it owes and nothing else |
| Assertion grant, `provider/actions/assertion_jwt_token.js`, `actions/assertion/*` | for each request `ctx.oidc.assertion_grant`; shared: `ConfirmationKeys`, tokens, directory | ten middlewares from `parameterCheck` to `grantAccessToken` | accounts, clients, stores | concurrent requests over the same keys; directory changes during a request; time limits; two paths with different checks | a token's subject proved himself; only authorised clients get one; tokens come in bundles; every request is answered |
| Interaction front end, `provider/helper/frontend.js` | an `Interaction` record between login and consent | GET, POST login, POST confirm | accounts, Redis adapter, oidc-provider | upsert and destroy are not awaited; double submission; restart between the forms | a finished interaction carries a proven login, once; nothing is left behind |
| Accounts, `provider/configurator.js`, `account.js` | none of their own | `accountByLogin`, `accountById` | LDAP storage adapter | four round trips over two connections while the directory changes; a login that selects several entries; an answer that never comes | the account is the one whose password was given; every login settles |
| Configurator, `provider/configurator.js`, `settings.js` | `config`, `settings`, `mapping`, the two key stores, and the defaults of the process | `findConfiguration`, `reduceConfiguration`, `loadMappings`, `loadKeyStores`, `initProvider` | file system, key loader, factory, oidc-provider | stats and loads in parallel; files that disappear; defaults shared and overwritten by every configuration | the first directory wins; the settings are those configured; the provider listens only when complete, or the process exits |
| Adapter factory and LDAP manager, `factory.js`, `ldapmanager.js` | connections by source name, for the process | `getAdapter`, `LdapManager` | configurator, adapters | connections survive the configuration they were opened for | a model gets the storage and the connection that are configured for it; the models of a grant share one |
| Claim mapping, `provider/mapping/*`, `splitLabeledUri.js` | the mapping, shared by all entries | `mapClaims`, `splitLabeledUri` | LDAP storage adapter | arrays and objects shared between entry, claims and mapping; claims set below claims; conversions that throw | the claims are the documented ones, entry after entry |
| Key loader, `helper/keyloader.js`, `asyncfs.js` | nothing between calls | `loadKeyFile`, `loadKeyDir` | configurator | files are read in parallel and may disappear; some failures are skipped and some reject the load | every key that is still there ends up in the store of its section |
| Password grant, retired assertion handlers, option parser, key tools | none of interest | – | – | – | – |

How they meet: koa runs each request as an asynchronous function in one Node
process. Requests interleave only at `await`; they share the LDAP adapters (through
the factory), the Redis client, and what those store. `accountByLogin` and
`accountById` connect the front end and the assertion grant to the LDAP adapter;
`settings.adapter(name)` connects them to the stores. Everything starts with the
Configurator, whose defaults and connections outlive each configuration.

The hazards of the code, each at its line and with the properties that watch
it, are listed in `PROJECT.json` under `hazards`.

## Modules and the code

An action is one uninterrupted piece of JavaScript: a handler up to its next
`await` on something shared, or one callback. Awaits on pure computation
(decoding, verifying a signature) do not end an action. Data the properties do
not look at (attributes, views, messages, log lines) is left out.

**LdapConnection** — one `LDAPAdapter`. `root`, `attempt`, `wait`, `dropped` are
`rootConnection`, `connectAttempt`, `wait` and its deletion; `pending` holds the
binds without an answer, `pc`/`call`/`entry`/`out` the call each caller makes.
`FindParks` and `FindSearches` are the two branches of `raw_find`;
`ConnectDials` and `ConnectReturns` those of `connect`; `RootBindOk`,
`UserBindOk` and `BindFails` what happens when a bind is answered; `FlushDone` the
code after `Promise.all(this.wait…)`; `LoginFound`/`LoginNotFound` the middle of
`findAndBind`. The failures: `SearchErrs` and `BindFails` are those the code is told
of. `ConnectionLost` closes the root connection, or the directory falls silent on it,
and then `SearchUnanswered` leaves a search without an "end"; `BindUnanswered` is the
same for a bind. `ProcessEnds` is the `error` event of a search result, to which
`raw_find` does not listen (lines 250-256): an uncaught exception that ends the process
with every call in it. A clone made by `cloneWithConnection` is an initial state with a
root of its own.

**DirectoryLogin** — `accountByLogin` and `accountById` over one shared
`LdapConnection`, which it extends: each step is a step of the connection for
the same caller, a step on the user's own connection, or a change of the
directory. `AccountByLogin` starts `findAndBind`; `EntryFound` and `EntryNotFound`
refine `LoginFound` and `LoginNotFound` by the entries that `dir` holds at that
moment; `LoginBound` takes the connection; `BaseRead`, `BaseHidden`, `BaseErrs` and
`BaseUnanswered` are the ends of `findBase` on it; `AccountRead` is `find` with its
test for exactly one row; `LoginsEnd` is the end of the process. Entries are named by
their DN. The adapter writes a login and an id into its filters as they come
(`ldap.js:183`, `ldap.js:94`), so what they select is a relation: `ByLogin` and `ById`
give the entries each string selects, several for a wildcard, and entries of other names
where letters of another case match. `IdOf` is the id of an entry, which need not be
unique.

**GrantStore**, **MemoryStore** — the contract written in `my_adapter.js`, and the
memory adapter as its implementation: `MemoryStore` instantiates `GrantStore`
with `state <- storage` and checks `Contract!Spec`.

**RedisStore** — `hash` and `ttl` are the keys, `list` the lists `grant:<id>`.
`upsert` (a MULTI) and `consume` are single steps; `destroy` is four
(`DestroyHget`, `DestroyLrange`, `DestroyDelTokens`, `DestroyDelKey`), any of
which may fail (`DestroyFails`), and the process may end between them (`Crash`).
`owed` and `gone` are history variables for the properties.

**JwtTime**, **AssertionGrant** — the timestamp rules of `verifyJWT.js` as pure
operators, and the pipeline. `Receive` covers `parameterCheck` and
`scopeValidation`; `Verify` is `decryptAssertion` and `verifyJWT`, from whose end
`validateJWT` takes the *authn* path (`FindClient`, `LoginAccepted` or
`LoginRejected`, `Register`) or, when `cnf.kid` equals the header's kid, the
*authz* path (`FindConfKey`, `FindIssuer`, `LoadSub`); both end in `SaveAccess`,
`SaveRefresh`, `Respond`. A step that awaits a lookup or a store has a case in which that rejects (`Fail`);
`Hangs` is a lookup of a client or an account that the directory never answers, and
`ProcessEnds` the end of the process under its requests. `ByLogin` is, as in
`DirectoryLogin`, what a login selects. Clients and accounts may be removed and the
clock may tick between any two steps. An assertion is a record of the claims the code
compares; the real signer is a field of it, so that verifying a signature is an
equality.

**TokenService** — what that pipeline owes, without its stages: an account is proved
by its password for a key (`Prove`), a request asks, and in one decision
(`IssueAccess`) gets an access token for a subject its key speaks for, at a client the
token is meant for; a refresh token may follow, and the request is granted only with
all it is due, or refused, once. `AssertionGrant` instantiates it as `Service`: `proofs`
are the logins, `asked` is `Asked(r)` for the requests received, and `tokens` and
`answers` are the pipeline's. `ImplementsService` is `Service!Spec`. Lookups, key
registration, expiring dates and removals are stutters of the service.

**Interaction** — the three routes, composed with the Redis adapter:
`Store == INSTANCE RedisStore` with every record dumped and no grants. `login` does
`Store!Upsert` and answers without waiting for it (`LoginStoreFails` is the case
nobody sees); `confirm` finds, starts `Store!DestroyHget` and finishes, while the
rest of the destroy (`Destroying`) runs beside it. `Fails` is a call that rejects,
`Hangs` a lookup of the client or the account that the LDAP adapter never answers.
`content` says whose login a
record holds. No record has an expiry, so `Store!Expire` can never happen and is
not a step here.

**DirectoryLookup** — `Build` is the filter `buildFilter` returns, spelled as the array
with that meaning (`(&(a)(b))` as `["&", "a", "b"]`), `LeftOver` what its `shift()` calls
leave of the array it was given; a lookup sends the one and leaves the other in
the shared configuration. They are recursive functions over `Value`, the strings and
the arrays nested at most `Depth + 1` deep. `Conditions` is the reference
definition: the rules of the class comment, over sets of entries; `Selected` says which
entries a filter selects, and `WellFormed` which filters are none, because an `(!)`
is in them.

**Configurator**, **KeyLoader**, **Startup** — one process from `index.js` to the
listening server. `Configurator` holds what the process keeps: `defaults` is
`def.config`, which `reduceConfiguration` (`Configure`) writes to whenever a
configuration adds extras to a setting it does not have itself; `ldapConns` and
`redisConns` are the connection tables, which `GetAdapter` fills. `KeyLoader` is
`loadKeyStores`: one loader for each of the two sections, whose files each have a
step of their own (`FileStat`, `FileRead`), and whose `mergeStore` reads and writes
the store in two. `Startup` composes them: the parallel stats of `findConfiguration`
(`Stat`, `Choose`), `loadConfiguration`, the parallel reads of the mapping files
(`MapFileRead`), the keys, and the call of `listen` that nobody awaits (`PortBound`,
`PortTaken`). `Delete` removes a file at any moment; `LoadAgain` loads another
configuration into the process, as the unit tests do; `Adapter` asks for an adapter
whenever there is a configuration. `BestHit` is the reduction over the directories'
answers, `Exits` the one `catch` of `index.js`.

**ClaimMapping** — `mapClaims` with `splitLabeledUri`, one claim to a step, entry
after entry with the one mapping of the process. What JavaScript shares is kept
apart from what it copies: a claim that holds an array of the entry is a pair
of a value and a place (`Read`), and whoever reads it later reads that place
(`Current`). `Cleaned` and `Cooked` are the conversions in their order, `Assign` is
`valueAssign`, `Used` what it leaves reversed in the entry. A dotted claim is set in
the object of its base, or in the entry's own object when the base holds that
(`Holder`); the model keeps it in `target`, where the code writes it into that object.
`DocAssign`, `DocLabel`, `DocAlt` and `DocValue` are the reference definition, from
`mapping/README.md`, and for labels from the unit tests, which the code contradicts for a
plain attribute (below): `LabelsFit` sets those lookups apart. What a single separator,
replacement, JSON or suffix makes of a single value is the same operator on both sides;
the reference is for their order, the choice among alternatives, assignment, and
whatever sharing could do to them. It is applied to the `Readings` of the entry, in which some of the
lists that a claim assigns from uncopied (`Borrowed`) are reversed.

`MC*` modules give the constants small values. Operators marked *mutant* are
plausible faulty versions of the operator that follows them; each property is
known to fail when its mutant takes that operator's place.

## Runs

Passing runs:

| Run | Instance | Shows |
|---|---|---|
| `ldap_safety` | 3 callers, 2 users, `connect` also called from outside with either's credentials | `NoLostWaiter`, `SingleRootAttempt`, `LoginProven`, `RootSetOnce`: three racing calls suffice to have one that dials, one parked, and one arriving during the flush |
| `ldap_login` | 2 callers, 3 entries; a login that two of them carry and a wildcard that selects all; two share an id; two come and go; fair | `AccountProven` whatever happens between the round trips; `CallsSettleOrWedge`, `LoginsSettle`: every call settles, unless its connection is closed or silent, the adapter wedged, or the process ended by an error event |
| `memory_contract` | 5 records, 2 grants | `GrantListExact`, `ImplementsContract` |
| `redis_destroy` | 3 tokens, 2 grants, a session, 2 destroys | `GrantListCovers`, `OnlyKinRemoved`, `DestroyRemovesOwed` through overlapping destroys, failures and crashes |
| `grant_subject` | 3 requests, 2 users whose device keys share a kid | `SubjectProven`, `RelayAuthorized`, `KeysProven`: three requests are a login, a second login, by a wildcard, that overwrites its key, and a use of the first |
| `grant_answered` | 2 requests, one with every way of being refused, fair | `ImplementsService` with each lookup and store operation failing; `EveryRequestAnswered`, unless the directory never answers or the process ends |
| `interaction` | 2 requests, 2 interactions, 2 accounts, fair | `ResultProven`, `LoginAwaitsConsent`, `SpentStaysSpent`, `RequestsAnswered`, `ConfirmSpends`: a login or confirm, and a confirm of the same or the other interaction, with failing commands, a directory that hangs and a restart |
| `lookup_filters` | restrictions of up to two terms nested two deep, repeated lookups | `FilterMeans`, `LookupSelective` |
| `startup` | 3 directories with 3 configurations, 12 files of which 4 may disappear, 5 models, up to 2 loads, fair | `FirstDirectory`, `ListensComplete` (mappings and keys), `SettingsExplained`, `SourceConnected`, `GrantsTogether`, `StartsOrExits` |
| `claim_mapping` | every combination of the 8 options of one claim, beside a second claim over the same attributes; 11 entries, in any sequence | `ClaimsAsDocumented`, `FailsOnlyUnfit`: two claims that share a value, in both orders, one of them possibly set below the other; and two mappings of three claims in which the last is set in an object or list that the others share; lookups that ask a plain attribute for a label are mapped but compared with nothing |

The constants are the only bounds on the state, except `MaxNow`, the last tick
of the clock in `AssertionGrant`, and the requests of `AssertionGrant` and
`Interaction`, each of which is used once, the name and password pairs
(`Credentials`) and the entries that come and go (`Changing`) of `DirectoryLogin`, and
the disks (`Disks`), the files that may disappear (`Vanishing`) and the number of
configurations loaded (`MaxLoads`) of `Startup`. Two configurations suffice for what
one can leave to the next; the third directory has one that names a source that
does not exist and no Redis connection. `MaxAge` stands for the 1800 seconds of the
code; the instances make it smaller than `MaxNow` so that both sides of the
limit are reached. `Depth` of `DirectoryLookup` is how deep the terms of its
restrictions are nested: two, so that operators and lists stand inside operators and
lists; the proofs cover every depth. In `ClaimMapping` strings are a small alphabet with tables for
what the code computes from them (`Pieces`, `Swap`, `Parsed`), and a claim's name has
one dot at most: deeper names repeat that level. Runs with `CHECK_DEADLOCK FALSE` are those in which every
request can have been answered, or every caller lost, so that the system stops; a provider that listens, or a
process that exited, takes no further step of `Startup`.
`ldap_safety`, `redis_destroy` and `grant_subject` use symmetry (of callers, of
destroys and the tokens of one grant, of requests); no run with a liveness
property does. `redis_destroy` also leaves the history variable `gone` out of the
state's fingerprint (`VIEW`), because no guard and none of its properties but the
type invariant reads it. Every run has `opts.base` configured; that the LDAP
safety properties hold without it, where a resumed find throws, is proved.

Runs that end in a violation show what the code does against what a comment or
document of the repository says (`findings` in `PROJECT.json` quotes the lines):

| Run | What happens |
|---|---|
| `grant_nbf` | without `exp`, an old `nbf` is accepted and a recent one refused |
| `lookup_braces` | a nested restriction holds for the first lookup only |

### Other observations

Behaviour that differs from a comment or document, visible in an action of a
module but without a run of its own:

- `map_claims.js:186-190`: a `label` is looked up only in an object; over a plain
  string the string itself becomes the claim (`Fetched`), where
  `test/02_mapclaims.test.js:195-211` ("labeled mapping without labels") expects the
  claim to be absent (`DocLabel`). `ClaimsAsDocumented` and `FailsOnlyUnfit` leave
  lookups that meet this out (`LabelsFit`).
- `ldapconnection.js:250-256`: nobody listens to the `error` event of a search
  result, so a search that ends with one is an uncaught exception and ends the process
  (`ProcessEnds`); line 246 shows that a failed search was meant to reject.
- `ldap.js:183`, `ldap.js:94`: login and id are not escaped in the filter. `findByLogin`,
  `findAndBind` and `find` therefore work on whatever entries the string selects
  (`ByLogin`, `ById`); a login with a wildcard is bound as the first of them, with that
  entry's password.
- `ldapconnection.js:147`: a first bind that is refused, or never answered, leaves
  `connectAttempt` set, and every find that parked, or parks later, waits for ever
  (`Wedged`, the exception in `CallsSettleOrWedge`; `Hangs` for the requests above it),
  against `README.md:86-87`, which promises one shared
  connection for all lookups.
- `eduidRedis.js:61`: a token that is stored under a grant after `destroy` read the
  grant's list survives the destroy (`DestroyLrange`, `Upsert`), against
  `my_adapter.js:108-110`. `DestroyRemovesOwed` says what is removed: every token
  stored when the destroy began.
- `ldapconnection.js:102`: a root connection whose socket closed is kept and
  never replaced (`ConnectionLost`; no action opens another), though line 28
  calls it persistent.
- `eduidRedis.js:70`: `consume` of a destroyed id is a bare HSET and creates a
  record that `find` reports (`Consume`), against `my_adapter.js:96-97`. The routes
  of the front end never call `consume`, so `SpentStaysSpent` holds of them.
- `verifyJWT.js:61`: an assertion without `azp` passes, against
  `actions/Assertion.md:92` (`Verify` does not look at `azp`).
- `authenticate.js:66`: the confirmation record keeps the mapped `sub`, which
  the default mapping (`mapping/user.js:11`) builds with a suffix, while `loadSub`
  takes it for an account id; its own comment, line 60, asks for the id
  (`ConfRecord`, `LoadSub`).
- `ldapconnection.js:199`: the operand of `!` is tested before it is built, so
  `["!", [""]]` becomes `(!)` (`Build`), against lines 49-50. Such a filter is
  rejected by the directory; `FilterMeans` says nothing of it (`WellFormed`).
- `frontend.js:140`: a refused login ends in an error, not in the login view of
  line 141, because `accountByLogin` throws (`LoginRefused`).
- `frontend.js:122`: the record is removed only after `find` was awaited: two
  confirms that overlap both finish with the one login (`FindRecord`, `Finish`).
- `frontend.js:175`: the record is stored without an expiry, so that an abandoned
  interaction stays in Redis (`LoginAccepted`), against `eduidRedis.js:3`.
- `frontend.js:109`: `find` answers `{destroyed: true}` for a missing record,
  which is truthy, so the fresh result of line 108 is never made (`FindRecord`).
- `eduidRedis.js:35`: the client is looked up under the literal `"name"`: a model
  with a Redis connection of its own gets the connection called "name", or an
  exception (`RedisName`, `Refused`). This is why `GrantsTogether` holds.
- `configurator.js:156`: the extras and the homepage of a configuration are written
  into the defaults of the process; `SettingsExplained` says how far they reach.
- `ldapmanager.js:10`: a source keeps the options of the configuration that opened
  it first (`SourceConnected`).
- `configurator.js:56`: `listen` is not awaited: `initProvider` resolves before the
  port is bound, and a port that is taken ends the process on its own (`PortTaken`).
- A section of `certificates` with the source "file" whose path is a folder, or with
  a folder that is a file, loads nothing and says nothing (`FolderStat`, `FileStat`).
- `ldap.js:94`: `find` asks for an object class even when none is configured, and
  `findAndBind` ignores the organization's base, which `find` obeys
  (`ClassLiteral`; `LoginRows` against `AccountRows`).
- `map_claims.js:85`: `valueAssign` reverses the entry's array in place, so that
  another claim over the same attribute may be reversed (`Used`;
  `ClaimsAsDocumented` allows exactly this).
- `splitLabeledUri.js` strips only the first bracket of a label;
  `mapping/README.md` names a key `id` that the code does not read;
  `example.settings.json` spells `claimsExtra` what the code reads as `claimsExtras`.

## Fairness

Nothing makes a caller call, a user answer a form, a connection fail or a clock
tick. Nothing makes the LDAP directory answer either:
that it stays silent is a step of its own (`BindUnanswered`, `ConnectionLost`,
`BaseUnanswered`, `Hangs`), after which the call is `lost`, and the liveness properties
name that among their outcomes, as they name the end of the process. What is fair is
what the event loop and the other servers owe:

- `DirectoryLogin!LoginFairSpec`: each bind is answered, well or badly, or its caller
  is lost; each search, on the root or on a user's connection, ends, or its connection
  is closed or silent and its caller lost; a ready continuation runs.
- `Startup!FairSpec`: weak fairness of `Start`, all the steps of the process itself:
  the file system answers, and `index.js` goes on to `initProvider`. Deletions,
  further loads and adapters are not fair.
- `AssertionGrant!FairSpec`: weak fairness of each request's next step: Redis replies,
  well or with an error (ioredis queues commands and reconnects), and so does the
  directory, unless `Hangs` or `ProcessEnds` comes first; neither of these is fair.
- `Interaction!FairSpec`: the same, with oidc-provider's calls, and weak fairness of
  each destroy under way.

## Proofs

Each `*Proofs` module states an inductive invariant `IInv`, proves that the
initial states satisfy it and that every action preserves it, one lemma for
each, and derives the theorems.

- **DirectoryLoginProofs**, the adapter: `IInv` adds to the properties who owns a bind in
  flight (`PendingOwner`: at most one for each caller, of the kind its call waits
  for), that searches and flushes happen only with a root (`RootHeld`), and where
  a connection is handed out (`Stage`). Without `PendingOwner` a bind answered late
  could hand a user's connection to somebody else.
- **DirectoryLoginProofs**, the logins: `StepImplements` shows every step of the
  composition to be a step of `LdapConnection` or none of it, hence
  `LoginImplementsConnection`: all that is proved of the adapter holds inside
  the composition, and its inductive invariant is reused. `StageInv` says what each
  stage of a call may rely on: from `LoginBound` on, the entry bound is the one
  whose password was given, and one that the login selects (`ByLogin`, any relation).
  It needs `IdleClean` (an idle caller has no entry left
  over) and `ConnReal` (a connection that is handed out is somebody's).
- **DirectoryLookupProofs**: the restriction is any sequence of terms, nested to any
  `Depth`, over any literals. A function over nested values satisfies its equation
  because the equation, applied to any function, settles the values of level 0, then
  those of level 1, and so on (`NestedDefined`, `BuildDefined`, `SelectedDefined`, …:
  iterated up to the deepest level it has a solution, and the function is one).
  Lemmas about such functions go by induction over the levels (`LevelsFromBelow`, from
  the library's theorem that the naturals are well-founded). `MeaningRight` is the main
  one: what is built of a value has the meaning of the value, one case for each form
  (`MeansString`, `MeansJoined`, `MeansNot`, `MeansList`); the operands that are left
  out are exactly those without a condition (`BuildJoins`, `FilledKeeps`), and one
  operand standing for itself changes nothing (`JoinedMeans`). `BuildKeepsMeaning`
  states it for every array, `MeaningKept` for every filter that is sent. `IInv` says
  what erosion cannot touch: the strings of the restriction stay in their places
  (`StringsStay`), and the latest lookup put its key, its class and those strings under
  one `&` (`Demands`), none of which an `&` can lose (`AndSelects`); hence
  `LookupsSelect`. `FlatRestrictionKept` is the other side of the `lookup_braces`
  finding: a restriction written with strings alone applies whole to every lookup.
- **StartupProofs**: `IInv` has one part for each question. `SearchInv`: a directory
  answered "none" stays without the file, and the chosen one has only such
  directories before it. `MapInv`: the mappings no longer being read are there.
  `KeyInv`: how far a loader is (`Loading`): what it read is from its section's files,
  and every file that still exists is in it or has yet to be read; this survives
  deletions (`Dwindled`) and any order of the reads, because the two sections have
  different stores. `ConnInv`: every open connection is one that some configuration
  describes. `DefaultsInv`: the defaults hold what was shipped and what earlier
  configurations left, without which `SettingsExplained` is not inductive.
  `GrantsTogether` needs no invariant: without a connection called "name" there is one
  name left to choose in any state.
- **MemoryStoreProofs**: `GrantListExact`, and with it the refinement of the
  contract: `destroy` by list is destroy by grant only because the lists are
  exact.
- **RedisStoreProofs**: `IInv` says what a suspended destroy has read
  (`ReadsOwn`: its grant, its tokens) and where the records it owes are, stage by
  stage (`OwedTracked`: on the list, among the tokens read, deleted).
- **AssertionGrantProofs**: one predicate per request (`ReqInv`: what each stage
  of either path may rely on) and one for the confirmation keys (`KeysProven`);
  a step moves one request and lets the shared sets grow, which disturbs no other
  (`OthersKeep`). `GrantImplementsService` shows each action to be one of
  `TokenService` or a stutter. What a request asks for is fixed when it is received
  (`AskedNow`), and the token saved at the end is still one decision: by `Entitled`,
  account, key and client are then what the service demands at once, although the code
  checked them in up to four earlier steps; and `Issued` and `Bundled` give that it is
  the request's only access token and that nobody is answered twice. `TokenBundle`,
  which the refinement covers, is also proved on its own. On the dates:
  `TimelyWithoutGaps` and `OnlyDatedExpire` say at which moments `JwtTime` lets an
  assertion pass, for any limit (without `iat` and `exp`, for ever: the `grant_nbf`
  finding in general); `TokensTimely` carries this to the tokens, through `Dated`, which
  a request keeps from `Verify` on.
- **InteractionProofs**: a record holds a login proven in its interaction
  (`ContentProven`), and a destroy under way belongs to a confirm that found its
  answer and removes at most that interaction's record (`ConfirmPath`). The
  adapter enters through three lemmas on what its operations do to the store
  (`UpsertFacts`, `HgetFacts`, `DestroyFacts`). `RoutesImplementStore` shows every step
  of the routes, restarts included, to be one of `RedisStore` or none, so that what
  RedisStoreProofs proves of the adapter holds under the front end.
- **ClaimMappingProofs**: the mapping is any sequence of claims, each with any
  alternatives, and the entry any entry. The pure part comes first. `AssignDocumented`
  shows `valueAssign`, which reverses two lists and pairs them from the front, to be the
  documented assignment from the end, for lists of every length (`NthPlace` and
  `PickedList` do the same for `filter`). Then the *twins*: the same alternative applied
  to the entry and to a reading of it, with some lists reversed, yields values of one
  kind at one place (`FetchedTwins`, `CookedTwins`, `FoundTwins`), so that the
  alternative chosen, the throw and the absence of a value do not depend on the order
  of a shared list, only the value does. `PutTurned` and `UsedReading` show that mapping
  a claim turns a reading into another one (reversing twice is `Flip`), and `MapKept` that
  the lists of keys come back as they were. `IInv` keeps `source` among the readings,
  and describes `target` up to the claim that is next: everything in it is a claim's
  value as some reading gave it, or an object made for a claim below (`Owned`); what was
  mapped is set (`PlainSet`), and a dotted claim as long as its base is not set again
  (`DottedSet`); and no claim so far was unfit (`Bad`). `Owned` says what a dotted
  claim finds under its base, hence where it is set, without which `DottedSet` is not
  inductive.
  `ClaimValue` is the documented value with labels read as the code reads them, which
  `IInv` needs for every lookup; `DocumentedIs` shows it to be `DocValue` wherever
  `LabelsFit`. From `IInv` follow `ClaimsAsDocumented`, `FailsOnlyUnfit`, and two
  statements no run needs: `MappingKept` and `PlainAttributesKept`. The latter is about
  plain attributes only: in the labeled URIs the code sets dotted claims
  (`map_claims.js:41-49`), which this model keeps in `target`.

The assumptions are those the modules name: `DNAssumption` (the service DN is no
user's), `StoreAssumption` and its like (ids and grants are different from "none"),
`GrantAssumption` (the types of the tables, among them that a client's redirect
URIs are an array), `SubAssumption` (no mapping gives an account the id of
another account as its `sub`), `InteractionAssumption`, `DirectoryAssumption` (the types
of the directory's tables), `DiskAssumption` (folders contain files that are
named), `StartupAssumption` (the search path is a sequence of files that are named;
two models never share a name in lower case, which would share a mapping),
`MappingAssumption` (names of claims differ, as those of an object do, and so do the keys
of one assignment), `EntryAssumption` (an attribute is a string or a list of strings) and
`TableAssumption` (the types of the tables of `ClaimMapping`). `LookupAssumption` gives the types of `DirectoryLookup`'s
constants, and says that no literal is empty or an operator. `LabelAssumption` is used
by no proof; it marks where that model ends (see below). `SubAssumption` is a
condition on the configuration: without it `SubjectProven` is false, because
`loadSub` takes the mapped `sub` for an account id.

Model-checked only: everything about liveness (`CallsSettleOrWedge`,
`LoginsSettle`, `EveryRequestAnswered`, `RequestsAnswered`, `ConfirmSpends`,
`StartsOrExits`), which this prover does not reach. `RestrictionKept`, which the
`lookup_braces` run refutes, is proved only for restrictions without arrays. Every
other invariant and action property that a passing run checks is a theorem.

## What is not modelled

- What oidc-provider, koa, ldapjs and ioredis do inside; they appear as the
  answers the code can get. ioredis executes commands of one client in the order
  in which they are issued, which `RedisStore` and `Interaction` rely on.
- More than one process on one Redis. The commands of two processes interleave
  no more than those of two calls do, but configuration and LDAP state are
  per process.
- The views, logging, option parsing, the key tools, the password grant (a fixed
  example user) and the assertion handlers no longer in the pipeline.
- Functions without callers: `mergeClaims`, `loadClaimset`.
- `registerAssertionValidator` and `getAssertionValidators` (nobody calls the first),
  `getAcr` (always null), the mounting of routes and views.
- In `KeyLoader`, node-jose's import: a table says which keys a file yields. In
  `ClaimMapping`, empty strings, and names with two dots or more. A claim that takes
  the labeled URIs as a whole can have another claim set in them; the model does not
  write that into the entry, so no mapping may read it back under its label
  (`LabelAssumption`). No built-in mapping sets anything there.
- Requests during the start: the server listens only at its end.

## Plan

Done, in this order: the LDAP connection, the stores, the assertion grant, the
front end, the filters; then the logins over the connection, the start of the
process with its factory and key loader, the claim mapping; the proofs of these;
`TokenService` with the proof that the assertion grant implements it; and the proofs
about the filters. What remains
worth doing:

1. A weakened storage contract, in which `destroy` is not atomic, that `RedisStore`
   implements, so that `Interaction` could be composed with the contract alone.
2. The assertion grant over `DirectoryLogin` in place of an atomic login.
