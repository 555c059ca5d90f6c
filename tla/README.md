# A TLA+ model of libauth

libauth is a Go library for role-based access control: users hold roles, roles
grant permissions and may inherit from one parent role, and an `Enforcer`
answers whether a user may do something. Around it are `net/http` guards and two
token formats. This directory holds a model of the library, the TLC
configurations that check it on small instances, and proofs, checked by TLAPS,
of its main properties for instances of every size.

Paths below are relative to the root of the repository.

## 1. Inventory

| Component | State | Operations | Interacts with |
|---|---|---|---|
| `model/` | none: `Permission`, `User`, `Role` values | `Matches`, `Valid`, `String`, `ParsePermission`, text (un)marshalling, clones | everything |
| `authz/authz.go`, `grantedSet` | index resource → set of actions | `add`, `has`, `flatten` | filled by `computeAndCache`, asked by every check |
| `store/` | users and roles by name, under one mutex | create, get, update, delete and list of each | called by the Enforcer; an application may bring its own `Store` |
| `authz/`, `Enforcer` | three memos under `cacheMu`: `cache` (user → granted set), `directRoles` (user → roles), `roleHolders` (role → users) | 12 methods that write (users.go, roles.go), 8 that read and may memoize (check.go), `RolesFor` and getters | store calls outside the lock; goroutines of the application |
| `middleware/` | the user in the request's context | `Require`, `RequireAll`, `RequireAny`, `RequireRole` | Enforcer, once to identify and once for each permission or role to check |
| `jwt/` | key and options of a signer or verifier | `Sign`, `Verify`, claim encoding | the identity of a request |
| `branca/` | key; one package-level integer, `base62Digit` | `Encode`, `Decode` with a ttl, base62 | the identity of a request |
| root package | none | aliases and forwarding functions | |
| `_examples/` | | four programs | `customstore` reloads a store from disk |

**What is hard here.** The Enforcer memoizes three things that it keeps in step
with the store by hand, method by method. A method is a sequence of store calls
and short critical sections; nothing makes it atomic, so

* a reader may compute from what it read before a write and publish after it;
* two writers may read the same object and both write it back whole;
* a check (`validateInheritance`) may be out of date when the write it guards
  happens;
* a store call may fail when half of the method is done;
* the process may restart over a store that persists, with empty memos;
* and walks over the role graph run while it is changed, into cycles too.

The token packages are sequential except for one thing: concurrent calls of
`branca.Decode` add their digits through the same package-level integer. What
else is hard about them lies at boundaries: dates that are cut to seconds on the
way through JSON or the header, a second 0 that reads as "absent", leeways and
clocks that are off, a timestamp of 32 bits, and the order in which an
unauthenticated token is taken apart.

**What makes each part correct.** For `grantedSet`: it answers as
`Permission.Matches` over what was granted. For the store: whole objects, by
value. For the Enforcer: an answer is the one the store's current content gives
(no stale grant, no missed grant, nothing left of a deleted user); the reverse
index leads to exactly the holders; inheritance has no cycle, no dangling parent
and bounded depth; every call returns. For the middleware: the guarded handler
runs only for a user that was authorized at some moment of the request, and a
refusal has its reason. For the
tokens: what is decoded is what was encoded, and only within its time window.

## 2. Modules

```
Permission ── GrantedSet ── MCGrantedSet, GrantedSetProofs
     │
MemoryStore ── Enforcer ── MCEnforcer, EnforcerProofs
                   │
          ConcurrentEnforcer ── MCConcurrentEnforcer
                   │
                   ├── SequentialCalls ── MCSequentialCalls
                   └── OverlappedReads ── MCOverlappedReads
                               │
                           Middleware ── MCMiddleware

EnforcerProofs ── ConcurrentEnforcerProofs ── OneWriterProofs ── SequentialCallsProofs
                                             (and OverlappedReads)  (and SequentialCalls)
                                                   │
                                            MiddlewareProofs
                                            (and Middleware)

Jwt ── MCJwt, JwtProofs         Branca ── MCBranca, BrancaProofs
```

**Permission** (`model/permission.go`). A text is the sequence of its colon-free
segments, so splitting at a colon and joining with one are sequence operations
and the ambiguity of `a:b:c` is visible. `Matches`, `Valid`, `String`, `Parses`
and `ParsePermission` are operators.

**GrantedSet** (`authz/authz.go`). The index as a function from resources to sets
of actions; `Add` is `grantedSet.add`. A history variable remembers what was
granted.

**MemoryStore** (`store/`). `users` and `roles` map names to records or `Nil`. One
operator per writing method, with the existence test of the code. Cloning in
and out is what value semantics means in TLA+. Lists of roles and permissions
are sets: nothing in `authz/` depends on their order, and the methods that
append test for duplicates first.

**Enforcer** (`authz/`). One action per method, all its store writes, index updates
and evictions included. A call that returns an error without touching anything
is a stuttering step, so the action is disabled; `DeleteUser`, which evicts
before it asks the store, is enabled for unknown users too. The reading methods
appear as their memoizing halves: `FillGrantedSet` (a miss in `Check`,
`HasPermission`, `HasAnyPermission`, `HasAllPermissions`, `PermissionsFor`) and
`FillDirectRoles` (a miss in `HasRole`, `HasAnyRole`, `HasAllRoles`). Their
answers are the operators `GrantsTo` and `HoldsRole`. `ResolveRoles` is the
least parent-closed set and `ValidateInheritance` a chain of ancestors: what the
worklist and the walk of the code compute; that they do is checked by the
refinement below. `Restart` is `New(WithStore(s))` over the store of the previous process.

`CreateUser` does not look whether the roles it is given exist. `LateRoles` says
for which roles the application makes use of that; with `LateRoles = {}` the
application creates roles before it names them.

**ConcurrentEnforcer** (`authz/`). The same methods, split where other goroutines
can run: a step is one store call (atomic under the store's mutex) or one
critical section of `cacheMu`. `Program` says of each method which of its steps
follows which, in the order of the code; the frame of a call holds the step it
is at (`pc`) and what it has read (the copy it will write back, the work list,
the permissions collected). `After` skips the validation of a role without a
parent, as `validateInheritance` does. Loops over holders, children and
ancestors take one turn per step, in any order where the code ranges over a
map. `SetParent` asks for the parent twice, once itself (`findParent`) and once
in `validateInheritance` (`getParent`). With `Flaky` every store call may instead return an error and the call
ends there; the failed store call changed nothing.

**SequentialCalls**. A history variable `settled` is the shared state when last no
call was under way. Over it, `Atomic == INSTANCE Enforcer` is the abstract
specification. `SSpec` states no fairness: it is about what the goroutine's calls do,
not about whether they return.

**OverlappedReads**. History variables over `ConcurrentEnforcer` that follow each
memoized entry to the call that published it: `overlapped` are the goroutines
whose current `Check` or `HasRole` ran at the same time as a write, `lateSets` and
`lateRoles` the users for whom such a call published an entry that nothing has
evicted or replaced since.

**Middleware** (`middleware/`). Requests are goroutines of `ConcurrentEnforcer`. A
request arrives for a handler behind a stack of guards. A guard identifies the
user (from the context if an outer guard left it there, else from the store),
then asks the Enforcer for one permission or role after the other. Such a call is
`Check` or `HasRole` of `ConcurrentEnforcer`, taken step by step: the look into the
memo (`SetFound`, and `Confirm` for the `GetUser` that follows a hit), the store reads
(`CallGoesOn`, `UserGone`), the publication (`SetComputed`, `RolesKnown`). Between any
two steps other requests go on and other goroutines call the Enforcer
(`Elsewhere`). With `Flaky` a store call may fail and the guard answers as the code
does: 500 from `identify`, `RequireAny` and `RequireRole`, 403 from `pass`. A history
variable `seen` collects, since the request arrived, which needs the store said the
user meets (`held`) or does not (`lacked`), whether it was `absent`, whether a store
call of the request `failed`, and whether one of its checks is `excused`: it
overlapped a write, used an entry published by a check that did, or was about a
user that inherits permissions.

**Jwt** (`jwt/`). The state is the clock and what was issued. `Sign` is the only
action that changes anything; `Verify` is an operator, as in the code it has no
effect, and it is asked in every state, of every issued token and of tokens that
no signer made (`Foreign`: other algorithms, types, keys, a `crit` header,
parts that cannot be decoded). Its branches are in the order of the code: a header that is
no text is refused first, the signature is decoded only after algorithm, type
and `crit`, and the payload only after the signature has been verified. A
payload is the JSON object as a function on the names of its members, so
`MarshalJSON` and `UnmarshalJSON` really convert: `omitempty` leaves members out,
dates become whole seconds and come back as such, an audience of one is a string
and one of several a list, extra claims are merged in and taken out again by
name. The clock counts fractions of a second (`Second` of them), starts before
1970 and passes it. A verifier has a clock of its own that is off by `skew`
(`WithNow`). A signature is symbolic: it verifies under the key that made it.
The two algorithms differ in their names and in the sizes of the keys they accept
(`ValidKey`). The option setters are the records in `SignerOptions` and
`VerifierOptions`; `jti` is written and read back but nothing depends on it, and it
is left out.

**Branca** (`branca/`). `Encode` seals a payload with the current second in the header and
writes the bytes as one number in the alphabet's base. `Decode` is split where
goroutines can meet: one step sets `base62Digit` and one adds it, per character;
the end of the text, the frame check and the decryption are one step (`Open`),
since they touch nothing shared; the age check, which reads the clock
(`CheckAge`), and the consumer's `UnmarshalBinary` with the return (`Unmarshal`)
are steps of their own, and time passes between them.
What is read from `base62Digit` is whatever was set last, by whichever call. A byte
has `Base` values and the alphabet `Radix` characters; the timestamp is one byte,
so that its limit is reached. The box of a token is one byte that opens under
the key and header it was sealed with. History: `sealed` remembers when and what
each `Encode` sealed, `alone` whether another `Decode` overlapped, `old` which tokens
were too old already when `Decode` was called.

`PROJECT.json` maps every definition to the lines it models.

## 3. Runs that pass

| Run | Instance | Question |
|---|---|---|
| `GrantedSet` | 10 patterns, 25 requests | Does the index agree with `Matches` and `flatten` after every order of adds? Do plain permissions survive their text form? |
| `EnforcerCore` | 2 users, 3 roles, 1 valid and 1 invalid permission, depth cap 2, 1 restart | Do index, memos and inheritance stay right under every sequence of calls? |
| `OneWriter` | 1 user, 2 roles; one goroutine writes, one reads | What holds when the application serializes its writers? |
| `StoreFailures` | 2 users, 2 roles, one goroutine, failing store | What does a call that stops half way leave intact? |
| `Termination` | 3 roles, 2 goroutines re-parenting, failing store | Does every call return? |
| `SequentialCalls` | 2 users, 2 roles, one goroutine, roles named before they are created | Do the step-by-step methods implement the atomic ones? What do late roles do to the memos? |
| `Guards` | 1 user, 1 role, 2 permissions; requests for three stacks of guards, one goroutine that changes the user; failing store | Who gets through stacked guards while everything changes, and who is refused for which reason? |
| `Jwt` | 3 signers, 13 verifiers, 26 requests, 9 foreign tokens, dates within a few seconds of 1970 in half seconds | Who accepts what, when, and what does it read? |
| `Branca` | 3 byte values, 4 characters, 2 goroutines, 2 tokens, a clock past the last timestamp | What may be accepted whatever the goroutines do to each other, and what must be? |

`EnforcerCore` checks, in each of its states:

* `HoldersSound`: the index names only holders, so `DeleteRole` never stops half
  way at an unknown user;
* `HasRoleExact`: `HasRole`, which on a hit does not ask the store, answers what
  the store says, for deleted and re-created users and after a restart too;
* `NoGhostEntries`: nothing memoized survives its user;
* `Acyclic` and `NoDanglingParent`: no order of creating, updating, re-parenting
  and deleting roles breaks inheritance;
* `IndexCompleteUntilRestart`: the index leads to every holder and a deleted role is
  detached everywhere, as long as the Enforcer is the one that built the store;
* `CacheExactUntilRestart`: likewise the memoized set of a user none of whose roles
  has a parent is the effective one, and no user's memoized set lacks a grant
  made to the user or to a role it holds directly.

`OneWriter` shows that with writers serialized, concurrent readers do no harm to
the index (`IndexExactBetweenWrites`), and never replace a newer list of direct
roles by an older one (`DirectRolesExactBetweenWrites`). Lost updates, cycles and
dangling parents take two writers: a run with one says nothing of them, and with
two they do happen (`LostUpdate`, `CycleRace`, `DanglingRace`, section 4). It does not claim that `cache` is exact: it is
not (section 4, `StaleFill`), nor that the entry of a user without direct roles
is: `setDirectRoles` deletes such an entry, and a late reader may then publish
the old list (`StaleHasRole.cfg`). This is why
`DirectRolesExactBetweenWrites` speaks of users with roles. How far the damage
goes is the subject of `OnlyOverlappedReadsStale`: between two writing calls every
memoized entry is right, and belongs to a user that exists, unless the very call
that published it overlapped a write, and the entry has been neither evicted nor
replaced since. So a check that starts after a write returned, and misses,
answers and memoizes what that write left, and an application that keeps checks
from overlapping writes has exact memos (inheritance left aside).

`StoreFailures` shows that no failure, at whichever store call, leaves the index
naming a user that does not hold the role, a wrong list of direct roles, a cycle
or a dangling parent. Completeness of the index is lost (`FailedDeleteUser`).

`Termination` checks the type invariant of the frames, which bounds the depth of
the walk, and that every call returns. It starts two `SetParent` calls that race
into a cycle, so `resolveRoles` and `validateInheritance` do meet one.

`SequentialCalls` checks `ImplementsEnforcer`: every completed call of a single
goroutine is one action of `Enforcer` or changes nothing. It connects the
proofs about `Enforcer` to the code's own order of steps, and is itself proved
for instances of every size (`AloneImplementsEnforcer`, section 5). The same run lets users
name roles that do not exist yet. `CreateRole` evicts nobody, so a memoized set may
lack what the new role grants (`StaleLateRole.cfg`); `LateRolesOnlyLag` says that
this is all: it never holds more than the store grants.

`Guards` checks that a handler runs only for a user that held, during the request
and according to the store rather than a memo, what each guard asks for
(`ServedWasAuthorized`); that 401 is answered only if the user was absent at some
moment and 403 only if needs of the guard were not met at some moment
(`AnswersJustified`); and that every request is answered (`RequestsAnswered`). The
properties speak of "some moment" because that is what the guards give:
`RequireAll` asks for its permissions one by one, each check reads the store several
times, and the store changes all the while. What they do not claim:

* A check that overlaps a write may use and leave behind what was true before it
  (`StaleFill`), so requests with such a check, or with one that met such an entry, are
  excused. What remains is the promise an application relies on: a request that
  arrives after a revocation has returned is judged by what the revocation left,
  unless a check that ran at the same time as a write got in between.
* A memo of inherited permissions may be stale for good (`StaleInherited`); the
  instance has a single role, and so no parents.
* A writing call that a failing store stops before it evicts leaves a stale entry
  (`FailedDeleteUser.cfg`, `FailedDeleteRole.cfg`). The writer of this run changes the user
  only, where this does not happen. `AllWrites.cfg` has all changes, to the role
  too, over a store that works.
* A 403 after a store call of the request failed needs no other reason in
  `AnswersJustified`, and nothing is said of 500. Both disagree with what tests and
  the README say, see `GuardStatus.cfg` and `FailureStatus.cfg` in section 4.

One request runs at a time here. `ConcurrentGuards.cfg` has two at once, each of
which may use, and race with, what the other one memoizes; it passes as well, and
`GuardsCorrect` (section 5) is about any number.

`Jwt` checks that no token is accepted outside its window as the caller asked for
it (`AcceptedInWindow`: not after the expiry plus leeway; before `NotBefore` or
`IssuedAt` by less than a second more than the leeway, because these are cut to
whole seconds) and the converse, that none is refused inside it by a verifier of
the same key whose pins fit (`LiveTokenAccepted`: up to a second before the
expiry plus leeway, for the same reason). Both are stated against what `Sign`
documents, not against the encoded claims. `ClaimsSurvive`: what a verifier
reads is what was signed, with defaults. `UnsignedPayloadIgnored` compares two
runs of `Verify` on tokens that differ in their payload only, payloads that cannot be
decoded included: unless the token was signed with the verifier's key, the
answer is the same. Dates in second 0
of 1970 are excepted, see section 4.

`Branca` checks that whatever `Decode` hands out was sealed by `Encode` under that
key and was not older than the ttl when `Decode` was called (`AcceptedWasSealed`; the
age is checked before the consumer unmarshals, so a slow consumer may get it when it is); this holds under the race on
`base62Digit` too, because a number that was put together wrongly is still
authenticated. `DecodeAloneExact`: a call that no other one overlaps always
delivers a genuine token's payload, up to a second before its age reaches the
ttl. `BTypeOK`: no timestamp wraps around.

**Bounds.** Two users tell "this user" from "another one", three roles give a
chain with a middle. A second permission is only needed to be rejected: the
Enforcer treats permissions alike except for `Valid` and `Matches`, and
`Matches` is the subject of `GrantedSet`. A depth cap of 2 over three roles is
reached in `EnforcerCore` and, without cycles, never passed; in `Termination`, where two
writers build cycles, the walk does run into its cap of 3. Under concurrency, each known hazard takes at most two
goroutines. In `Guards` the goroutine of the requests handles one after the other, so a later
one meets what an earlier one memoized. Counters are bounded by `MaxRestarts`, `MaxIssued` and `MaxTokens`, and the
clocks by `MaxClock`. One issued JWT is enough since `Verify` looks at one token and no
state of its own; two Branca tokens are needed for one to be taken for the
other. Three byte values and four characters keep numbers small while bytes and
characters do not line up, as with 256 and 62; two units per second are enough
to tell a cut date from an exact one. Symmetry in users and
roles is used where the menu of calls and the initial store treat all names
alike, and never for the liveness run.

**Fairness.** `CSpec` has weak fairness of each goroutine's steps and none of
`Start`: a goroutine inside a call keeps running. `CSafety` is the same without
fairness; the invariants are proved of it. `MSpec` has the same for the steps of
each request, those of its checks included, and nothing for arrivals, failures or the
other goroutines. `Jwt` and `Branca` state no liveness and no fairness. No step of a call waits for another call; the only blocking is on the two mutexes, which Go hands over to a
waiter, and no step holds both.

**Deadlock** is checked in all runs and none occurs.

**Mutants.** Each property of each passing run comes with a faulty variant of
one definition (next to the definition, named `...Mutant`) under which TLC finds
it violated: forgotten evictions, a forgotten index update, an ancestor walk
that is skipped or has no cap, a publication without the second look at the
entry, an edit that starts from an empty list.

## 4. Where code and documentation disagree

These runs check what a comment of the repository says, and TLC finds it violated.

| Run | Says | Shows |
|---|---|---|
| `StaleInherited` | `authz/authz.go:19`, mutations invalidate the affected entries | A change to a role evicts direct holders only. A user that holds a child of the role keeps the old answer. |
| `StaleFill` | `authz/authz.go:15`, safe for concurrent use | A check reads the role, `RevokePermission` runs to its end, the check publishes what it read. |
| `DecodeRace` | `branca/branca.go:77`, safe for concurrent use | Two calls of `Decode` at the same time: one adds the digit that the other one has just set, and a genuine token is refused or, in a small enough space of tokens, taken for another one. |

Configurations kept for reference, each violated as well. Run them with
`tlc -config <name>.cfg` on the module named.

| Configuration | Module | Says | Shows |
|---|---|---|---|
| `LostUpdate` | `MCConcurrentEnforcer` | `authz/authz.go:15`, safe for concurrent use | Two `AssignRole` calls on one user; one of the roles is gone. |
| `CycleRace` | `MCConcurrentEnforcer` | the same; `authz/validate.go:8` rejects cycles | Two `SetParent` calls validate before either writes. |
| `DanglingRace` | `MCConcurrentEnforcer` | the same; `authz/validate.go:32`, a dangling ancestor "can only come from external store edits" | `SetParent` to a role that is being deleted. |
| `StaleHasRole`, `GhostUser` | `MCConcurrentEnforcer` | the same | As `StaleFill`, for `directRoles` and for a deleted user. |
| `FailedDeleteUser` | `MCConcurrentEnforcer` | `authz/users.go:22`, consistent even if the store fails | The user stays in the store but is gone from the index, and later changes to its roles do not evict it. |
| `FailedDeleteRole` | `MCConcurrentEnforcer` | `authz/authz.go:19` | `DeleteRole` stops after the first holder, which keeps its memoized set. |
| `GuardStatus` | `MCMiddleware` | the repository's README, line 73, and `middleware_test.go:146`: an unknown user gets 401 | If the user is deleted between identification and check, `RequireAny` and `RequireRole` answer 500. |
| `FailureStatus` | `MCMiddleware` | `middleware_test.go:171`, of a store that fails in `identify`: a store failure surfaces as 500 | If it fails in the check of `Require` or `RequireAll`, the answer is 403. |
| `DepthCap` | `MCEnforcer` | `authz/validate.go:8`, chains deeper than `maxDepth` are rejected | The walk counts ancestors, not the descendants of the role that is re-parented. |
| `StaleLateRole` | `MCEnforcer` | `authz/authz.go:19` | A role is created after a user that names it was cached. |
| `DetachAfterRestart` | `MCEnforcer` | `authz/roles.go:55`, `DeleteRole` detaches the role from every user | `roleHolders` starts empty over an existing store, and the users keep the role's name. |
| `StaleAfterRestart` | `MCEnforcer` | `authz/authz.go:19` | The same, for evictions. |
| `JwtEpoch` | `MCJwt` | `jwt/jwt.go:10`, `Sign` refuses claims without `exp` | An expiry in second 0 of 1970 is accepted and encoded as none, so that the token never expires. |
| `PermissionText` | `MCGrantedSet` | `model/permission.go:1`, permissions can be serialized as they are | A resource with a colon, or `*` with an empty action, does not survive its text form. |

Two more configurations of `MCMiddleware` pass: `AllWrites` and `ConcurrentGuards`
(section 3).

## 5. Proofs

All theorems hold for every value of the constants: every set of users, roles,
permissions, goroutines, requests, tokens and keys, every depth cap, clock and
leeway, and any number of restarts.

| Module | Theorem | Statement |
|---|---|---|
| `EnforcerProofs` | `TypeCorrect` | `Spec => []TypeOK` |
| | `MemoCorrect` | `Spec => [](HoldersSound /\ NoGhostEntries /\ HasRoleExact)` |
| | `InheritanceCorrect` | `Spec => [](Acyclic /\ NoDanglingParent)` |
| | `CascadeCorrect` | if `LateRoles = {}`, `Spec => []IndexCompleteUntilRestart` |
| | `CacheCorrect` | if `LateRoles = {}`, `Spec => []CacheExactUntilRestart` |
| `GrantedSetProofs` | `TypeCorrect` | `Spec => []TypeOK` |
| | `GrantedSetCorrect` | `Spec => [](FlattenExact /\ HasAgreesWithMatches)` |
| | `PlainTextCorrect` | `Spec => []PlainPermissionsRoundTrip` |
| `ConcurrentEnforcerProofs` | `CTypeCorrect` | `CSpec => []CTypeOK` |
| `OneWriterProofs` | `OneWriterIndexSound` | one writer: `CSpec => []IndexSoundBetweenWrites` |
| | `OneWriterInheritance` | one writer: `CSpec /\ Acyclic /\ NoDanglingParent => [](Acyclic /\ NoDanglingParent)` |
| | `OneWriterDirectRoles` | one writer, `~Flaky`: `CSpec => []DirectRolesExactBetweenWrites` |
| | `AloneDirectRoles` | one goroutine: `CSpec => []DirectRolesExactBetweenWrites` |
| | `OneWriterIndexExact` | one writer, `~Flaky`, `LateRoles = {}`, `StartsDetached`: `CSpec => []IndexExactBetweenWrites` |
| | `OneWriterLateEntries` | the same: `OSpec => []OnlyOverlappedReadsStale` |
| `SequentialCallsProofs` | `AloneSetsOnlyLag` | one goroutine, `~Flaky`: `SSpec => []LateRolesOnlyLag` |
| | `AloneImplementsEnforcer` | one goroutine, `~Flaky`, an empty store: `SSpec => ImplementsEnforcer` |
| `MiddlewareProofs` | `MTypeCorrect` | `MSpec => []MTypeOK` |
| | `GuardsCorrect` | one writer, `~Flaky`, `LateRoles = {}`, `StartsDetached`: `MSpec => [](ServedWasAuthorized /\ AnswersJustified)` |
| `JwtProofs` | `JTypeCorrect` | `JSpec => []JTypeOK` |
| | `ClaimsCorrect` | `JSpec => []ClaimsSurvive` |
| | `WindowCorrect` | `JSpec => []AcceptedInWindow` |
| | `LiveTokenCorrect` | `JSpec => []LiveTokenAccepted` |
| | `UnsignedPayloadCorrect` | `JSpec => []UnsignedPayloadIgnored` |
| `BrancaProofs` | `BTypeCorrect` | `BSpec => []BTypeOK` |
| | `AcceptedCorrect` | `BSpec => []AcceptedWasSealed` |
| | `DecodeAloneCorrect` | `BSpec => []DecodeAloneExact` |

*Assumptions.* Those of the modules: `Nil` is none of the values it stands beside
(in the store, in frames, in requests and in tokens), the depth cap is a positive
number, the menus hold calls of the Enforcer's methods, permissions and roles
are different things, a byte and the alphabet have more than one value, leeways
are not negative. What a
theorem needs beyond that is a hypothesis of it. TLC evaluates the assumptions in
every run.

**Enforcer.**

*Memos.* `HasRoleExact` is not inductive: that the entry of a re-created user is
right depends on nothing being left of the old one, and the index on which
`DeleteRole` relies must be sound for its loop to go through. `MemoInv` joins
types, `HoldersSound`, `NoGhostEntries` and the exactness of `directRoles`, and
is inductive. It does not need completeness of the index, and so survives
restarts.

*Inheritance.* `Acyclic` says that no non-empty set of roles holds a parent of each
of its members. `ValidatedChain` takes from the walk of `validateInheritance` a
chain of ancestors without the role itself, closed under parents; `ReparentClosed`
shows that any set closed under parents, with the head of the chain in it and
the role outside, keeps every set from being closed, and `ReparentAcyclic` is
the case of the chain. No induction over the length of the chain is needed.
`NoDanglingParent` enters `InheritanceInv` for `DeleteRole`: a role
created later under a deleted name must not find children waiting.

*Cascade and cache.* Within one process the index is complete (`IndexComplete`),
so `DeleteRole` and evictions reach every holder. For the cache, `ResolveHeld`
says that the roles of a user without inherited roles resolve to themselves;
`EntryKept` that an entry stays right when neither the user nor a role it holds
changes; `HoldersEvicted` that otherwise the entry was evicted; `FilledExact` that a
new entry is right. Each action is one of the last three cases.

**Goroutines.** `CTypeCorrect` needs to know more of a frame than its type: which
user or role is at hand, what kind of things is on the work list at which step,
and that the walk is no deeper than the cap (`FramesOK`). It holds for any
number of goroutines, making any calls, over a store that may fail.

The other theorems say what remains true when the application serializes its
writers: goroutine `w` makes any calls, the others only `Check` and `HasRole`
(`OnlyWriter(w)`). They are stated between two writing calls, and proved from
invariants that hold at every step of one, relative to the step `w` is at:

* `Copies`: the copy of the user in `w`'s frame is the stored user with the one
  edit of the call, until it is written, and the stored user afterwards;
* `SoundBut`: the index names only holders, except for the user and role between
  `updateUser` and `revokeHolder`. Since a failing store ends a call only at a store
  step, this exception never outlives a call, and `OneWriterIndexSound` needs no
  hypothesis on the store;
* `Indexed` (`CompleteBut`, `DetachedBut`): the index is complete except for the
  roles still on the work list of `grantHolder`, and while `DeleteRole` runs every
  user that holds the role is on its work list or at hand;
* `Assigned`: a role that `AssignRole` has looked up is still there when it writes.
  This and `CascadeDetaches` need that no user names a role that does not exist:
  `LateRoles = {}` (users are created with roles that exist at that moment) and
  `StartsDetached` (so were those of the initial store) say so;
* `DirectRolesBut`: the memoized direct roles of a user with roles are those of
  the store, except between `updateUser` and `setDirectRoles`. What readers hold in
  their frames does not matter: they publish only where there is no entry, and a
  writer always leaves one for a user with roles. A store that fails breaks
  this: `DeleteUser` evicts, the store refuses, and the user is there without an
  entry, which a reader that read the user several writes ago may fill. So
  `OneWriterDirectRoles` asks for `~Flaky`; for a failing store, `AloneDirectRoles`
  shows the same for one goroutine alone (the instance of `StoreFailures`), whose
  checks hold a copy of the user that is the stored one (`ReadCopy`);
* `RoleCopy`: for the validation and the write it guards, a set of roles that is
  closed under parents with the walk at its edge and without the role itself:
  what `ReparentClosed` asks for when the role is written; for `DeleteRole`, each
  child of the role is on the work list. It holds at each step, so a store that
  fails there does no harm.

For the memoized entries themselves (`OneWriterLateEntries`):

* `Window` and `EntryWindow` name, for each user, the steps of the writing call
  between a write that makes an entry wrong and the eviction or replacement that
  makes up for it. `Visits` says that `DeleteRole` evicts at its end everyone it
  named at its start and never meets a user or child that is gone, and
  `KeepsGoing` that a call does not return from such a step, so that a window
  closes. This needs `~Flaky`;
* `CacheEntryStep` and `RolesEntryStep` classify what any step of any call does to
  one entry (evicts it, leaves it in a window, leaves it with its sources,
  publishes it, ...); everything else is by these cases;
* `ReadsFresh`: a check that no write has overlapped holds a copy of the user that
  is the stored one, and has collected exactly what the roles it has left behind
  grant (`FreshRead`). As soon as a write overlaps it, nothing is said of it;
* `SetRight` and `EntryRight`: outside its window, an entry that is not late is right.
  `LateRoles = {}` and `StartsDetached` are needed because `CreateRole` evicts nobody.
  Without them, and for one goroutine alone, `SetLags` replaces equality by
  inclusion: a role that is created late only adds to what a user may do
  (`RoleCreatedAdds`), which is `AloneSetsOnlyLag`.

*The refinement* (`AloneImplementsEnforcer`). `settled` is what the goroutine found
when its call started. `SoFar` says, for each method and each of its steps, which
part of the atomic action is done: the shared state as a function of `settled`
and of the frame, and what the frame has read of `settled`. For `DeleteRole`, for
instance, the users already detached are those off the work list, and a user
that does not hold the role is evicted (`Spared`) once a child it holds has been
written back. There is one lemma per method (`...Stepped`): a step that goes on
leads to the next clause of `SoFar`, and one that returns has done all of the
atomic action or none of it (`Settles`, `Ends`). For the walk of
`validateInheritance`, `SoFar` carries the chain of ancestors that
`ValidateInheritance` asks for, and for `resolveRoles` a set between the user's roles
and the least parent-closed set, whose edge is the work list; so the loops of
the code compute what the operators of `Enforcer` define, for roles of any number
and any depth. The hypotheses are those of the abstract specification: `Enforcer` starts
from an empty store and has no failing store. `SoFar` was checked by TLC before it was proved. With
this theorem, what is proved of `Enforcer` holds of the methods as they are
written, for an application that makes one call at a time.

No invariant of `OneWriterProofs` mentions the number of readers, users or roles.
With two writers they are false: `LostUpdate.cfg`, `CycleRace.cfg` and `DanglingRace.cfg` are the
counterexamples.

**Middleware.** The guards' calls are those of `OverlappedReads`: `GuardInv` ties a
request's position to the frame of its call (which user, which operation, a
set found in the cache), and with it every step of `MNext` is a step of `OSpec` or
leaves its variables alone, so that the invariants of `OneWriterProofs` hold behind
the guards. Goroutine `w` is the only one that writes; requests and all others
read. `ExactAnswers` is where they are used: the end of a call that is not excused
answers what the store says at that moment. If the call computed, it was not
overlapped and its copy is the store's (`ReadsFresh`); if it found an entry, either the
entry is right (`OnlyOverlappedReadsStale`, the window of a writing call being an
overlap) or it is late, an excuse. `SeenInv` then connects a request's position with its
history: the guards it has passed are met by what it was seen to hold, and so are
the needs the current guard has ticked off; what the current guard was refused it was
seen to lack. The hypotheses are those of `OneWriterLateEntries`: nothing is assumed of
the answers, and the excuses are in the properties, where they can be read.

**Tokens.** `IssuedInv` says of each issued token that it is what `Compact` makes of the
claims that `Defaults` gives to what was asked for; the theorems are then facts of
arithmetic about cutting dates to seconds and adding leeways, and of the JSON
object's members. For `UnsignedPayloadCorrect` the branches of `Verify` before the
signature are compared one by one.

For Branca, `SealedInv` is about what was sealed, and `DecodeInv` says that a decoder
that is alone has read the number of the digits so far and finds in `base62Digit`
the digit it set. That the change of base is undone by the way back
(`DecodeAloneCorrect`) is an induction over numbers, for which the library's
theorems take an operator that the provers cannot instantiate. It is done with
sets instead of operators, which is first-order: `StrongInduction` for a set of
numbers, from the least-number principle, and `RecursionExists` for the functions
`Digits`, `Bytes` and `Accumulated`, which are defined by recursion. So the theorem covers a
byte of 256 values and 62 characters. The box of a token being one byte, there
are at most `Base` tokens.

**Only model-checked.** Liveness (`CallsReturn`, `RequestsAnswered`), which is out of
the prover's reach. The guards over a failing store: `GuardsCorrect` has `~Flaky`. That the instances are not vacuous (a late entry, a race and
each violation of section 4 do occur) is what the runs show and no theorem says.
Nothing is proved of two concurrent writers beyond `CTypeCorrect`: the other
properties do not hold for them.

## 6. Not modelled

* The cryptographic primitives: HMAC, Ed25519, XChaCha20-Poly1305 and their nonces
  are symbolic and never fail or collide. Base64 and JSON syntax are inverse to
  their decoders; a text that they reject is "malformed".
* In `jwt/`: `jti`, and the texts of errors.
* In `branca/`: the size check of `New`; failures of the random source and of
  `MarshalBinary`, which return before anything happens; what Go's race on
  `base62Digit` may do to the integer's memory beyond a wrong digit (on texts that
  begin with the digit 0 the first calls of a process might crash).
* Response bodies, `OnError`, and applications that call `WithUser` themselves.
* Error values and messages; the order of lists; `RolesFor`, `ListUsers` and the
  other methods that only read and memoize nothing.
* A store that fails after it has applied a write, and edits of the store behind
  the Enforcer's back.
* Data races inside a critical section of the Enforcer: there are none to model,
  all three memos are accessed under `cacheMu` and the store's maps under its mutex.
* The root package: type aliases and functions that forward to the packages
  above, without state.
* `_examples/`: demonstrations of the API, not part of the library. What their
  stores and identity functions make the library do (a restart over a store that
  persists, a failing store, an identity that is refused) is in the models.

## 7. Plan

Done: all packages of the library; proofs of every invariant and action property
that the passing runs check, and of the refinement (the step-by-step methods over
`Enforcer`); for the guards, over a store that does not fail. What could follow:

1. A bound on the depth of the roles under a role that is re-parented, should
   `validateInheritance` come to count them (`DepthCap`): `DepthBounded` as an
   invariant of `Enforcer`.
2. A model of the memos that evicts the users of descendants too, should the code
   come to do so (`StaleInherited`): `CheckExact` would then follow from the index
   being complete, and the guards' properties would need no excuse for inherited permissions.
   The excuse for overlapping checks would go if `computeAndCache` saw that an
   eviction had happened since it started to read.
3. Liveness by hand: a variant for each loop, from which `CallsReturn` follows by an
   argument on paper.
