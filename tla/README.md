# Formal model of mock-pontes

mock-pontes is a stand-in for the Pontes interface between DLT platforms and central bank
money: an HTTP server (Node, h3) that keeps cash wallets, settles payments between them,
and implements the hash-linked (XvP) and free-of-delivery (PFoD) protocols. This directory
holds TLA+ modules of its core, TLC configurations that check them on small instances, and
TLAPS proofs of what they guarantee for every instance. Paths below are
relative to the repository root (`src/...` is the program, `docs/...` its documents).

    tlc -config MCSettlement.cfg MCSettlement        # one run; MCXvp, MCPfod, ... likewise
    tlapm SettlementProofs.tla                       # the proofs of one module

## The system

| Component | State | Operations | Hard behaviour |
|---|---|---|---|
| Wallets and store (`src/state/dcw.ts`, `memory-store.ts`, `mock-store.ts`) | wallets, drafts, transactions, daily sequences | create, debit, credit, draft update, next id, reset | a debit and its credit are two updates; reset at any time |
| Workflow engine (`src/workflows/workflow.ts` and its subclasses) | none of its own | create, approve, cancel, execute | checks made at creation and used at approval; many users on one draft |
| Cash routes (`src/routes/funding.ts`, `transfers.ts`, `direct-rtgs.ts`, `bridge-payments.ts`, `wallets.ts`) | none | one POST each | side effects before a refusal (a wallet opened, a number drawn) |
| XvP (`src/workflows/xvp.ts`, `xvp-lock.ts`, `src/routes/xvp.ts`) | XVP drafts, a promise chain per id | init, get, payment query, pay | an await in the middle of a payment; expiry on first observation; two secrets that must exclude each other |
| PFoD (`src/routes/pfod.ts`, `src/workflows/pfod.ts`) | PFOD drafts, two per trade | deliver, receive | matching of independently submitted legs, resubmission, lazy expiry |
| Persistence (`src/cache/*`, `MemoryStore.persist*`, `hydrate`) | four keys in a cache | write-through, load | keys written one by one; retries; crash in between |
| Users and enrolment (`src/auth/users-repository.ts`, `enrollment-routes.ts`, `csr-handler.ts`) | declared users, stored users | CSR, token, refresh, removal | check, await, act; a load that fails; UUIDs made anew at a restart |
| Business window (`src/state/business-window.ts`, `src/admin`) | the four times of a day | read, partial update, reset | touching and empty windows, midnight, partial updates |
| Runtime PKI (`src/auth/runtime-pki.ts`) | authority and token key in the cache | start: read, reuse, complete or generate | processes that start together; retried writes |
| Request authentication and validation (`src/app.ts`, `src/auth/*-middleware.ts`, `src/http/*`) | none of their own | a chain of checks for each request | order and coverage of the checks; what changes while a body is awaited |
| User interface, API documents, logging | none | -- | -- |

**How they interact.** One Node process serves all requests. A request passes the checks
`buildApp` mounts, waits for its body at the first check that reads it, and then runs through
the rest of the checks and its handler without another wait. The exceptions are the XvP
payments, which wait for the lock of their id and for `onPaymentAdmitted`, the creation of a
wallet in one step, which reads its body in the handler, and the enrolment handlers, which
wait for a signature. All workflows share the one `MemoryStore`: the routes call a workflow,
which calls the store's checked operations, and every change of the store is written through
to the cache, if there is one, without being waited for. Several processes may serve behind
one Redis: they share the keys of the runtime PKI, read once at the start, and each writes
its own copy of everything else.

**What makes each correct.** Wallets: no balance below zero, and no cash made or lost.
Workflow engine: a draft settles once, by someone other than its initiator and entitled to
debit. XvP: the execution key leaves exactly when the cash moved and the cancellation key
only when it never will. PFoD: a submission pays at most once and with its counterpart.
Persistence: a restart finds a state the program was in. Users: an identity is one person for
the life of the data. Business window: every minute is in one window, and nothing runs
outside of its own. Runtime PKI: what one process issued is good at every other. Chain of
checks: whoever is served is who the token and the certificate say, and a refusal tells
nothing about the checks behind it.

## The modules

| Module | Models | Notes |
|---|---|---|
| `Dcw` | `src/state/dcw.ts`, wallet part of `memory-store.ts` | pure operators on a map of wallets, shared by the three below |
| `CashLedger` | nothing: the abstract specification | open an account, post a transaction, reset |
| `Settlement` | `workflow.ts`, its subclasses, the cash routes | refines `CashLedger` |
| `Xvp` | `xvp.ts`, `xvp-lock.ts`, `routes/xvp.ts` | its steps are `CashLedger` steps from any initial wallets |
| `Pfod` | `routes/pfod.ts`, `workflows/pfod.ts` | the same |
| `Persistence` | `MemoryStore.persist*` and `hydrate`, `src/cache/redis.ts`, `common.ts`, the start of `src/index.ts` | the store reduced to transfers of one unit |
| `Enrollment` | `src/auth/users-repository.ts`, the handlers of `enrollment-routes.ts`, `middleware.ts` | users, certificates, tokens over restarts |
| `BusinessWindow` | `src/state/business-window.ts`, `src/admin` | the day and the clock |
| `Gateway` | the chain of `src/app.ts`: `src/auth/*-middleware.ts`, `src/http/*` | one request; extends `BusinessWindow` |
| `Replicas` | `src/auth/runtime-pki.ts`, the order of `src/index.ts` | several processes over one Redis |
| `SettlementProofs`, `SettlementLedgerProofs`, `XvpProofs`, `PfodProofs`, `PersistenceProofs`, `EnrollmentProofs`, `GatewayProofs`, `ReplicasProofs` | -- | TLAPS |
| `MCSettlement`, `MCXvp`, `MCPfod`, `MCPersistence`, `MCEnrollment`, `MCGateway`, `MCReplicas` | -- | instances for TLC |

### Dcw

A wallet is its owner, its managing central bank, where the wall clock stands with respect
to its validity window, and its balance. `isBlocked`, powers of attorney and whitelisted
operators are set by no handler and keep their defaults. Balances are naturals counting the
smallest unit; the code keeps decimal strings. The empty alias `""` is a value of its own
(`NoAlias`): `requireDebitWallet` and `requireCreditWallet` do not look it up.

### Settlement

`wallet`, `draft`, `minted` and `transactions` are the four maps of `MemoryStore`. One
action per handler: `CreateFunding` (which opens an unknown wallet before its conditions can
refuse, and keeps the number it drew), `CreateDefunding`, `CreateTransfer`,
`CreateDirectRtgs`; `ApproveFunding`, `ApproveDefunding`, `ApproveMovement` (transfer and
direct RTGS), `ApproveLosesCredit` for the approval whose credit throws after the debit;
`Cancel`; `Execute` and `ExecuteLosesCredit` for the bridge payments; `CreateWallet`,
`ValidityChanges` (the wall clock) and `Reset`. A handler runs to its end in one step; what
interleaves is the requests of different users. A request refused without a change is no
step. A draft's identifier is its type and its number; the day, part of the identifier in
the code, is one day.

### Xvp

Each call of `init` adds an agreement to `terms` (amount, buyer, seller's wallet, deadline)
and stands for its secrets and payment id; `xvp[id]` says which agreement the id holds.
`terms` is not state of the code: it records what the payment goes on with after the await
(the local `rec`). `queue[id]` is the promise chain of `InProcessXvpLock`: a call takes its
place when it arrives and starts when it is first. A payment is two steps, `Admit` and then
`Settle` or `Fail`, with the lock held in between; `init`, the reset and the clock do not
take the lock and may come in between. The hook that is awaited returns at once in
production, which leaves one turn of the microtask queue; the class accepts a hook that
takes its time, and the model does too, so that its interleavings include the production
ones. The wall clock moves to any reading, backwards too.

### Pfod

A leg is stored under its trade and side. Submissions are numbered (`legs`) so that the
properties can tell a resubmitted leg from the one it replaced. `tryMatch` is `Settles` or
`Waits` on the legs as `storeLeg` left them.

### Persistence

`mem` is what the process serves, `stored` the four keys of Redis. A handler is a list of
changes; each sends the whole map under its key at once (`put` takes its snapshot before the
first await) and the handler does not wait. `sent` are the commands of the present
connection, executed in order; `fresh` and `failed` the commands that wait for a connection,
the first for their first attempt, the second for their retry. `Break` fails every command
in flight, whether Redis executed it or not; a second failure of one command ends the process,
as does a connect that fails. `fresh` goes out in order and `failed` in any order and
at any time after the reconnect: `reconnect()` waits for the quit of the old client, for which
the code sets no bound, before it looks at the new one.

The store is the least that tells the mixes apart: drafts are transfers of one unit from one
payer to one payee, told apart by the number of their creation, and the wallets are the lists
of the creations debited and credited. The order of writes is that of `approve`
(wallets after the debit, wallets after the credit, drafts, transactions), `create`
(sequences, drafts) and `reset` (all four). PFoD writes the transaction before the drafts;
that order is not modelled, nor is node-redis' own queue of commands made while it reconnects
by itself. Two ghosts say when a write may be lost: `keyOf` is the key of every command of this
process, and `overtaken` becomes true when a retry goes out behind a newer command of its key.

### Enrollment

A certificate request is `SendCsr` (the user is looked up) and, after the signature is awaited,
`FinishCsr` or `FailCsr`. Certificate `e` is the one request `e` was answered with: each
is new, so `FINGERPRINT_ALREADY_MAPPED` cannot occur. `sent` are the writes under way on the
users' own connection, which does not break in this module; each is the whole map. A token is
its claims; the refresh grant copies them, so one value stands for all the tokens refreshed
from one, and expiry is left out. `acted` records the calls that the certificate check let
through, `csr` what each client was answered and whether that was taken back since
(`REMOVED` by the administrator, `LOST` by a crash or a failed read): neither is state of the
code. A restart either reads what Redis holds (`Restart`) or fails to and serves without
users (`RestartWithoutUsers`), as the repository does: the error is logged, and the next
write replaces what is stored.
`updateUserMetadata` is called by no handler.

### BusinessWindow

A time of day, a string `HH:mm` in the code that is compared as a string, is a natural up to
`LastTime`. `day` holds the four times, `now` the clock, which ticks and may be moved (summer
time). The current window is never stored: `CurrentWindow` derives it, with the bounds and the
successor it announces. `AdminUpdate` merges some of the times with the stored ones and tests
the order of the result; `AdminReset` goes back to the default day. Both look at the admin
token first.

### Gateway

One request, from `Arrive` to its answer; the rest of the system reaches it only through the day
and the certificates users are bound to, which `DayChanges`, `Enrol` and `Remove` change whenever
it waits. A check is an operator `...Fails` with a cause of its own, `ArrivalChecks` and
`BodyChecks` are the orders in which `buildApp` mounts them, before and after the first read of
the body, and the first that fails answers. `RefusalOf` gives the status and error code each
refusal ends as, after the normalisation of bodies. A token, a certificate, a signature and a
body stand for what the checks find in them: whether a token verifies, whether the client
authority signed a certificate, which errors a schema reports. `AllOperations` has one operation
of each kind the routes tell apart; what they declare (schemas, non-repudiation, windows, profiles)
is the section "What the routes declare". The ghost `seen` keeps what was so at some moment of
the request's life: the window open since its whole request had arrived, and its user bound to
the certificate of the connection.

### Replicas

A process starts (`Start`), reads the bundle of keys (`ReadBundle`), writes it when it had to
generate or complete it (`PersistBundle`), loads the users (`LoadUsers`, which may fail
unnoticed) and serves. Each attempt of a read or write may fail (`AttemptFails`), a write also
after it reached Redis; the last one ends the process. Keys are numbers in the order of their
generation; `LegacyCa` is the authority of a bundle written before bundles had a token key. The
ghost `raced` becomes true when a process writes over a bundle it neither read nor wrote. The
processes' copies of the users diverge, each writing its own over the others'; what is stated
is the worth of what was issued.

## The runs

| Run | Expect | Shows |
|---|---|---|
| `MCSettlement` | pass | `TypeOK`, `SettledOnce`, `FourEyes`, `DebitsAuthorised`, `TransfersObeyManagers`, `FinalDraftsStay`, and that the engine implements `CashLedger` |
| `MCSettlementEmptyAlias` | pass | with empty credited aliases cash may be lost but never made: `CashNeverCreated` |
| `MCSettlementLostCredit` | violation | with empty credited aliases cash is lost (finding 1) |
| `MCXvp` | pass | `CancellationMeansUnpaid`, `ExecutionMeansPaid`, `ReportsTellAttempts`, `PaidAsAgreed`, `TerminalStatuses` |
| `MCXvpReuse` | pass | with ids that are used again: `CancellationMeansUnpaid`, ledger steps, and every call is answered |
| `MCPfod` | pass | `LegsPayOnce`, `ReceiptsMatchPayments`, `SettledTogether`, `ExpiredStaysUnpaid`, ledger steps |
| `MCPfodExpiry` | violation | a settled leg expires (finding 2) |
| `MCPersistence` | pass | cut by crashes, on a connection that holds: `SettledMeansMoved`, `TransactionsOfSettled`, `DraftsNotReplaced`; also over connections that break: `LostOnlyIfOvertaken`, `NoWriteDropped`, `CashNeverCreated` |
| `MCPersistenceReorder` | violation | a late retry replaces a newer write (finding 3) |
| `MCEnrollment` | pass | `FingerprintsAgree`, `AnsweredIsBound`, `ActsOverOwnCertificate`, `NothingForgotten`, `StoredUsersSurvive` |
| `MCGateway` | pass | `WindowsPartitionDay`, `AnnouncedWindowComes`, `ExecutedWasOpen`, `ExecutedWasBound`, `NoOthersCertificateSigns`, `RefusalsKeepTheOrder` |
| `MCReplicas` | pass | `IssuedStaysValid`, and every start ends (`EveryStartEnds`) |

**Bounds.** Settlement: two wallets, two central banks, three users of two entities (two of
one, so that the entitled approver may or may not be the initiator), two amounts, one of the
wallets under the issuance alias, two drafts between two resets (`MaxMinted`), a one-step payment while fewer than two transactions are
on record (`MaxTransactions`): enough for a
draft that overtakes another on the same wallet, for a number minted again after a reset,
and for a wallet paying itself. XvP: one id, three calls, two amounts (one above the balance), a deadline and one
clock reading past it; every call is a payment or any query, so that a payment with one call
before and one behind it at the lock occurs; `MCXvpReuse` has two agreements on the id and
two calls. `MaxInits` bounds agreements, `MaxTime` clock readings. The
initial wallets hold what earlier funding put there. PFoD: two trades and five submissions,
so that one trade can be settled, its legs replaced, and settled again, with the other under
way; the window is shorter than the range of the clock. Persistence: without breaks two
drafts, one reset and two crashes (`MaxCreated`, `MaxEra`, `MaxCrashes`), so that a crash can
cut the writes of a reset and another those of the creation after it; with breaks
(`OneDraftOverBreaks`) one draft and two of them (`MaxBreaks`), the number at which a command
fails twice, the second with at most five commands unanswered: one more than an approval sends, so
a retry can meet a newer command of its key. Enrollment: two
names, three requests (two that race for a name and one after a removal), one removal, two
crashes and one failed read (`MaxRemovals`, `MaxCrashes`, `MaxFailures`), and as many UUIDs
(`MaxUuids`) as these draw. Gateway: a day of four minutes, the least in which the default
day has each window, five updates that move each time and of which some are refused in some
states, two users, one of whom has a second certificate, and, of all tokens, connections and bodies, one
for each way to pass or fail a check and for each pair of checks that could be confused
(`MCTokens`, `MCConnections`, `MCBodies`); after an answer nothing happens until the next request
(`AnswersAreFinal`), since the properties speak of an answer and of what came before it.
Replicas: three processes, four starts, two attempts (`MaxAttempts`, 12 in the code), five
keys: two first starts that race, or one that races with a completion, and a later start.
`MaxStarts` and `MaxKeys` are bounds. Symmetry is used on users of one
entity, wallets, central banks, calls, trades and enrolment requests, and never in a run with a
liveness property.

**Deadlock.** `Settlement` and `Gateway` cannot stop and are checked for it. The other runs end
when the bounded calls, crashes, starts or requests are used up, hence `CHECK_DEADLOCK FALSE` there.

**Fairness.** `MCXvpReuse` assumes weak fairness of the progress
of each call at the lock, which is what the event loop gives -- the continuation of a
settled promise is a microtask that always runs -- and the hook returns. `MCReplicas` assumes
it of `StartGoesOn`: an attempt ends with a result or an error, and the start goes on; that
it ends follows because `withRetries` counts its attempts. No fairness is
assumed of requests, of the clock, of crashes or of the administrator.

`ExecutionMeansPaid` is checked only where an id is used once: after a second `init` the
record that a suspended payment marks SETTLED is the second agreement's.

**Assumption about ids.** XvP ids and the ids of one-step payments are chosen by clients and
share a map with the numbers the store draws (`src/state/memory-store.ts:252`). The modules keep
them apart, as if no client chose an id of that form.

## The proofs

Each module of proofs has one inductive invariant, `IInv`, shown to hold at the start
(`InitIInv`) and to be kept by each action (`NextIInv`, or a lemma for each action); `Invariance` is
the conclusion and the theorems follow from it.

`SettlementProofs` proves for every choice of the constants (under
`DcwAssumption` and `SettlementAssumption`) that `Settlement` keeps `TypeOK`,
`SettledOnce`, `FourEyes`, `DebitsAuthorised`, `TransfersObeyManagers`,
`PendingWalletsExist`, and that its steps obey `FinalDraftsStay`. The properties are not inductive alone:
`SettledOnce` needs that a number not yet drawn has no draft (`FreshIds`), else a new draft
could overwrite a settled one; the approvals need that funding drafts name the issuance
wallet as debited and defunding drafts as credited (`DraftShape`); `TransfersObeyManagers` needs
`PendingWalletsExist`, since the manager rule says nothing of a wallet that is missing, and
that no wallet is created over another. `Invariance` has one step per action, each a lemma.

`SettlementLedgerProofs` compares `Settlement` with `CashLedger`, first whatever aliases requests name.
`OnlyLostCreditsDiverge`: every step is one of the ledger, changes nothing it sees, or is a debit
whose credit throws (`LosesCredit`). Beyond `IInv` this needs that an absent wallet holds nothing, so
that opening one creates no cash (`WInv`). `NoCashCreated` (`CashNeverCreated`) follows: `Replayed(a)` is a
recursive function of the record, and that it has the value meant for every record would need induction over data.
The proof goes around that: it shows of *every* function that satisfies the recursion (`IsReplay`)
that it bounds the balance, and that one exists (`Replays`), both of which each step keeps since a longer record only extends the
function (`ReplayGrows`). If no request leaves the credited alias empty (`NamesCreditedWallet`), no draft
does either (`CreditedNamed`) and no credit is lost (`NoneLost`): then `Settlement` implements
`CashLedger` (`Refinement`), and each balance is what the record replays to
(`BalancesAreReplayed`). Finding 1 is a run in which this assumption fails; the code does not
enforce it, so only these two theorems and `ValueConserved` make it.

Conservation of value is about the sum over all wallets (`CashHeld`, a recursive function of a set
of wallets), set against what funding brought in less what defunding took out. The issuance wallet is
virtual: funding debits no wallet and defunding credits none, and that is decided by the type of a
transaction, not by the alias it names (`From` and `To` give `NoAlias` then), since nothing keeps a client
from opening a wallet under that alias. So the replay of `NoAlias` is what was defunded less what was
funded. `ValueConserved` states it (`ConservationOfValue`, under the same assumption);
without the assumption `CashCovered` says that the wallets never hold more together than was issued.
Both assume that there are finitely many wallets, which a sum needs. As before, the proof speaks of *every* function that satisfies the recursion
(`Booked`): what a payment does to each balance it does to the sum (`CashMoves`), and there is
only one such sum (`OneSum`). These two need an induction over a finite set. The library's takes
an operator as a parameter, so `SubsetInduction` is stated of a *set* of sets instead, and
proved from a smallest counterexample. The difference
of the books then stays 0 (`BooksBalance`) or never rises above it (`BooksCover`): only a lost credit
changes it, by what was debited.

`GatewayProofs` proves the six properties `MCGateway` checks, for every length of a day and every set of
updates, users, certificates, tokens, connections and bodies. `IInv` says, for each phase of the request
and each cause of an answer, what the checks before it left true (`PastArrival`, `PastBody`,
`PastWindow`, `PastAll`): that the request is within its token and over the certificate of its
user (`Cleared`), that its body is well formed and signed, by no certificate but that of the connection (`WellFormed`), that the window was
open, and that the profile suffices. What the token, the connection and the body are does not change, and what the
others change shows only in `seen`, which grows: that is why what was so once is all that can be
promised of an answer. For the day it says it is ordered (`Ordered`); the two window properties are then arithmetic
(`NamesOfDay`, `MinuteLater`).

`ReplicasProofs` proves `IssuedStaysValid`, with `ServedIsStored` and `TypeOK`, for any number of
processes, users, attempts and keys. Its `IInv` says that a process past its write holds what
Redis holds (`PersistedIsStored`), which a second write keeps only if its writer read what it
replaces, hence `raced`; and, for the case of a race, that the legacy authority is either
everywhere or nowhere (`LegacyKept`).

`XvpProofs` has four invariants, each adding to the one before, for every set of ids, calls, wallets and terms.
The first proves `CancellationMeansUnpaid` and `TypeOK`, ids used again and resets included. This `IInv` says that the calls in the queue of an id wait
for it, each once, and that only the head can be past the lock (`LockInOrder`); that a record
and a payment agree with the agreement they are of, and nothing is known of one not made yet
(`RecordsAgreed`, `PaymentsAgreed`, `FutureUntouched`, `UnsettledUnpaid`). The core is
`CancelledForGood`: once the cancellation key of an agreement is out, the agreement is unpaid, its
record, if it is still there, has expired, and no admitted payment can touch either. It is kept
because nobody is past the lock while the query is answered (`NobodyPast`) and an agreement has its
record under one id only (`OneRecordEach`).

`PInv` adds what the payments leave behind, ids used again still included, and gives
`PaidAsAgreed` (`SettledAsAgreed`) and `LedgerSteps` (`LedgerRefinement`). A payment that was admitted is of an unpaid agreement, and
the record its id holds by now still waits for one (`AdmittedPayments`): since
`init` replaces a record while the payment hangs at its await, that may be another agreement's record. From
it follow one payer and one transaction for each agreement (`OnePayer`, `OneTransaction`), on its
terms (`TransactionsAgreed`), its record saying so (`RecordsPaid`). An earlier `PaidAsAgreed`
said that the debited wallet belongs to the agreement's buyer; the proof did not go through, because it is not
so: whether the wallet is the buyer's is looked at when the payment arrives, and while it
waits a reset may free the alias for another owner, whose call it then has to be. What holds is that
the caller owns the wallet that is debited.

`RInv` adds what is reported of attempts: as long as a record is not marked, all payments of its agreement
are still under way (`AttemptsMarked`), hence `BurnedIsFinal`: what is reported BURNED saw no payment and admits none
any more. `OInv` adds, and only its theorems assume, that no id is initialised twice
(`~ ReuseIds`, the setting of `MCXvp`): what is SETTLED, or whose execution key is out, was paid, and
what is marked but not SETTLED failed (`Once`). It gives `ExecutionMeansPaid`,
`ReportsTellAttempts` and `TerminalStatuses`. Without the assumption TLC finds all three violated under `MCXvpReuse.cfg`: `init` replaces a SETTLED
record, and the suspended payment of the first agreement marks the record of the second.

The lock by itself keeps what `xvp-lock.ts` promises: a call that waits has a place in the queue of its id
(`NobodyForgotten`), a later call does nothing before an earlier one for the id is answered
(`StrictlyFifo`), and the head of a queue is never a call that was answered already, thrown out or not
(`NeverLockedForGood`). That is the safety `EveryCallAnswered` rests on; that the head
goes on is its fairness.

`PfodProofs` proves `LegsPayOnce`, `ReceiptsMatchPayments`, `SettledTogether`,
`ExpiredStaysUnpaid`, `LedgerSteps` and `TypeOK`. A submission stores its leg before it looks for a match, so the
parts of `IInv` are stated of any map of legs: legs and receipts are numbered without
reuse (`Numbered`, `RefsMade`), a pending leg is unpaid, a settled one paid by the receipt it
names (`PendingUnpaid`, `SettledPaid`, `PaidByReceipt`), and the two legs of a trade are settled together
(`Together`). A settlement is a new posting of the ledger (`LedgerRefinement`) because no transaction on
record names the number of a delivery that is still pending.

`EnrollmentProofs` proves `FingerprintsAgree`, `AnsweredIsBound`, `ActsOverOwnCertificate`,
`NothingForgotten`, `StoredUsersSurvive` and `TypeOK` for any finite set of names. Its `IInv` says that
the map that is served, Redis, and each write under way hold a certificate only under the name it
was given to (`OwnedMaps`); that no write undoes an enrolment an earlier write or Redis holds
(`WritesKeep`); and that the last write is what is served (`LastIsServed`).

`PersistenceProofs` proves `SettledMeansMoved`, `TransactionsOfSettled`, `DraftsNotReplaced`,
`LostOnlyIfOvertaken`, `NoWriteDropped`, `CashNeverCreated` and `TypeOK` for any funds and any
number of drafts, resets, breaks and crashes. Its `IInv` has three parts. Every snapshot, in memory, in Redis or
on its way, fits its key (`AllFit`), which is enough for `CashNeverCreated`. Of the
commands (`CommandsOK`): each is on its way once and those of a key are in order unless a retry was
overtaken (`SentOnce`, `FreshLast`, `FailedOnce`); the newest of a key, while it is unanswered, carries
what is served (`NewestIsServed`); and once it is answered Redis holds that, and no older one is about
to replace it (`StoredIsServed`). Of the stores (`StoresOK`), as long as the connection holds: each
prefix of the commands sent leaves a store a process may start from (`Good`: drafts are
numbered once and at or before the sequence, what is settled has moved, what is not has no
transaction), since a crash may cut after any of them. A handler issues several commands at
once, so its lemma follows the chain of stores they leave (`Chain`). The newest command of a key
exists because `<` is well-founded on a bounded set of numbers (`LargestExists`).

Only model-checked are the liveness properties `EveryCallAnswered` and `EveryStartEnds` (liveness is out of
the prover's reach). Every other property of the passing runs has a theorem. The properties of
the three runs that expect a violation are false of the code; of these only `ConservationOfValue` has
a theorem, `ValueConserved`, under the assumption that the run does not meet. The type invariants are proved; of the proved ones only that of
`Settlement` takes part in a run.

## Findings

1. `requireCreditWallet` does not look up an empty alias. A direct-RTGS request may leave
   the credited alias out; the debit then commits and the credit throws
   (`src/workflows/workflow.ts:341`, `src/routes/direct-rtgs.ts:193`).
   `docs/DOMAIN-MODEL.md:145-147` says such a request is refused.
2. A settled PFoD leg becomes `EXPIRED` when its counterpart is submitted again after its
   window (`src/routes/pfod.ts:107`); the comment at line 32 says unmatched legs expire.
3. A command that is retried may be executed after a newer write of the same key
   (`src/cache/redis.ts:112`), which is lost without an error; `src/cache/common.ts:18-21`
   says no lost write is ignored.
Met while modelling, and not given a run of their own:

- `init` replaces a `SETTLED` or `EXPIRED` record (`src/workflows/xvp.ts:169`), which
  `docs/DOMAIN-MODEL.md:469-472` calls terminal; `TerminalStatuses` holds only where ids are
  used once.
- `docs/ENDPOINT-COVERAGE.md:345-350` says the PFoD payment debits the seller; the code debits
  the receiving side (`src/routes/pfod.ts:126`).
- The four keys are written one by one (`src/state/memory-store.ts:95`): a restart may serve a
  pending draft that is paid already, where `docs/DOMAIN-MODEL.md:497-499` speaks of a
  whole-store snapshot.
- A failure to read the users at the start is swallowed (`src/auth/users-repository.ts:219`)
  and the next enrolment replaces what was stored; `src/index.ts:34-36` says the mock must
  not start then. `RestartWithoutUsers` is that start.
- Restored users draw new UUIDs (`src/auth/users-repository.ts:226`, line 67) though the stored
  record has one; `README.md:252-253` says enrolled users persist across restarts.
- A removal is answered before it is written (`src/auth/users-repository.ts:275`): a crash in
  between brings the user back.
- Two processes that start at once over an empty Redis both generate keys, and the one that
  writes first serves with keys no one else has; the comment at
  `src/auth/runtime-pki.ts:13-20` says every replica and every restart share one key.
- A process reads the users once and writes its whole map (`src/auth/users-repository.ts:200-203`),
  so two processes overwrite each other's enrolments; `charts/mock-pontes/README.md:52-54`
  says a shared Redis makes the enrolled users consistent.
- The refresh grant (`src/auth/enrollment-routes.ts:205-214`) takes the central bank from the path and not from
  the refresh token, and lets a user through who has been removed since; the check of each API
  call refuses them.
- A payment that waits for the lock of its XvP may be executed after its window has closed:
  `ExecutedWasOpen` says the window was open when it began to wait or later.
- `src/http/request-validation.ts:280-284` says the body is validated after the auth and NRO
  checks; `src/app.ts:141-149` mounts it before NRO.
- `src/auth/profile-authorization-middleware.ts:69` and line 77 speak of POST and PUT; the code
  looks at no method.
- A `signerPEM` that is no certificate is compared with nothing
  (`src/auth/nro-middleware.ts:434-439`; the comment at line 437 leaves it to the next check), and the signature check
  verifies under a bare public key too (line 241, as `tests/nro.test.ts:30-32` says): a request signed
  under any key passes, while the comment at lines 441-442 says that the signer must be the
  certificate presented. `NoOthersCertificateSigns` therefore says only that no *certificate* but the
  sender's signs; a body's `BareKey` is such a key.
- Four eyes are compared by UUID (`src/workflows/workflow.ts:204`). A restart gives each restored
  user a new one, the drafts keep the old one, and tokens of before the restart stay valid: a user may approve after it what
  they created before it. `FourEyes` is about UUIDs and does not see this.
- A wallet may be opened under the alias of the issuance wallet (`src/routes/wallets.ts:290-313`, or by funding it,
  `src/routes/funding.ts:147-155`). Funding never debits it and defunding never credits it; transfers do both.
- A crash between the two writes of an enrolment leaves a name that is refused as "already
  enrolled" without having a certificate (`src/auth/enrollment-routes.ts:303`).

## Not modelled

- Cryptography and encodings (`xvp-commitment.ts`, `csr-handler.ts`, `test-keys.ts`): secrets,
  keys, certificates and signatures are values.
- Decimal formatting and float arithmetic of amounts (`dcw.ts`): TLC has no floats; amounts are
  naturals, and the cents a float loses on large amounts are out of sight.
- The contents of schemas and the formatting of errors: a body stands for the kinds of errors
  found in it.
- Reads that change nothing and the scoping of lists (`routes/*` GET), the user interface, the
  served API documents, logging.
- Expiry of keys and of tokens, and the in-memory cache, which loses everything by design.
- `src/scripts`, tests, deployment files.

## Plan

1. A composition of the workflows over the one map of drafts, with the ids clients choose, and the
   ids of one-step payments (the two hazards no property covers that a model can reach).
2. Proofs that the composition of 1 keeps what the modules prove apart.
