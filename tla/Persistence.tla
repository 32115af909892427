----------------------------- MODULE Persistence -----------------------------
(***************************************************************************)
(* The write-through of MemoryStore to Redis (persist* and hydrate of       *)
(* src/state/memory-store.ts, src/cache/redis.ts, the exit of src/cache/    *)
(* common.ts and the start of src/index.ts).                                *)
(*                                                                          *)
(* Every change of a map sends the whole map under the map's key, without   *)
(* waiting for it.  The commands of one connection are executed in order.   *)
(* When the connection breaks, each command that has no reply yet fails by  *)
(* itself, executed or not, and is sent once more on a new connection; a    *)
(* second failure stops the process.  A restart reads the four keys.        *)
(*                                                                          *)
(* The store is abstracted to transfers of one unit from a payer to a payee: *)
(* a draft is told apart by the number of its creation, and the wallets by   *)
(* the drafts whose debit and credit they contain.                          *)
(***************************************************************************)
EXTENDS Naturals, Sequences

CONSTANTS
    Funds,       \* what the payer's wallet is funded with
    MaxCreated,  \* bound: drafts created
    MaxEra,      \* bound: resets
    MaxBreaks,   \* bound: connections that break
    MaxCrashes   \* bound: crashes of the process

ASSUME PersistenceAssumption ==
    /\ Funds \in Nat
    /\ MaxCreated \in Nat
    /\ MaxEra \in Nat
    /\ MaxBreaks \in Nat
    /\ MaxCrashes \in Nat

VARIABLES
    up,       \* the process serves requests
    mem,      \* the maps of MemoryStore
    stored,   \* the keys of Redis
    link,     \* client.isReady
    sent,     \* commands sent on the connection and not replied to
    fresh,    \* first attempts that wait for a connection, in order
    failed,   \* commands that failed once and wait to be sent again
    unwritten,\* the numbers of the commands Redis has not executed yet
    keyOf,    \* ghost: the key of each command of this process
    overtaken,\* ghost: a retry went out behind a newer command of its key
    count     \* drafts created, breaks and crashes so far

vars == <<up, mem, stored, link, sent, fresh, failed, unwritten, keyOf, overtaken, count>>

-----------------------------------------------------------------------------

Keys == {"wallets", "drafts", "transactions", "sequences"}

Numbers == 1 .. MaxCreated

Wallets == [open : BOOLEAN, era : 0 .. MaxEra,
            debited : Seq(Numbers), credited : Seq(Numbers)]

NoWallets(era) == [open |-> FALSE, era |-> era, debited |-> <<>>, credited |-> <<>>]

\* n tells the creation, era the number of resets before it.
Drafts == [n : Numbers \cup {0}, era : 0 .. MaxEra,
           status : {"ABSENT", "PENDING_APPROVAL", "SETTLED", "CANCELED"}]

NoDraft == [n |-> 0, era |-> 0, status |-> "ABSENT"]

EmptyStore == [wallets |-> NoWallets(0), drafts |-> [id \in Numbers |-> NoDraft],
               transactions |-> <<>>, sequences |-> 0]

\* What a key can hold.
Contents(k) ==
    CASE k = "wallets"      -> Wallets
      [] k = "drafts"       -> [Numbers -> Drafts]
      [] k = "transactions" -> Seq(Numbers)
      [] k = "sequences"    -> 0 .. MaxCreated

IsStore(s) == s = [k \in Keys |-> s[k]] /\ \A k \in Keys : s[k] \in Contents(k)

\* A command SET key value: its number, and which attempt it is.
Setting(k) == [key : {k}, value : Contents(k), n : Nat \ {0}, attempt : {1, 2}]

Commands == Setting("wallets") \cup Setting("drafts") \cup Setting("transactions") \cup Setting("sequences")

\* Every record the process and Redis hold is one the store can hold; no command is
\* sent a third time.
TypeOK ==
    /\ up \in BOOLEAN
    /\ IsStore(mem) /\ IsStore(stored)
    /\ link \in BOOLEAN
    /\ sent \in Seq(Commands)
    /\ fresh \in Seq(Commands)
    /\ failed \subseteq Commands
    /\ \A c \in failed : c.attempt = 1
    /\ keyOf \in Seq(Keys)
    /\ unwritten \subseteq DOMAIN keyOf
    /\ overtaken \in BOOLEAN
    /\ count \in [created : 0 .. MaxCreated, breaks : 0 .. MaxBreaks, crashes : 0 .. MaxCrashes]

Init ==
    /\ up = TRUE
    /\ mem = EmptyStore
    /\ stored = EmptyStore
    /\ link = TRUE
    /\ sent = <<>>
    /\ fresh = <<>>
    /\ failed = {}
    /\ unwritten = {}
    /\ keyOf = <<>>
    /\ overtaken = FALSE
    /\ count = [created |-> 0, breaks |-> 0, crashes |-> 0]

-----------------------------------------------------------------------------
\* Handlers: a sequence of changes <<key, value>>, each written through at once.

Last(changes, k) == CHOOSE i \in DOMAIN changes :
                        /\ changes[i][1] = k
                        /\ \A j \in DOMAIN changes : changes[j][1] = k => j <= i

After(changes) ==
    [k \in Keys |-> IF \E i \in DOMAIN changes : changes[i][1] = k
                      THEN changes[Last(changes, k)][2]
                      ELSE mem[k]]

\* put on a ready client sends at once; otherwise the command waits for connect().
Persist(changes) ==
    LET new == [i \in DOMAIN changes |->
                   [key |-> changes[i][1], value |-> changes[i][2],
                    n |-> Len(keyOf) + i, attempt |-> 1]]
    IN  IF link /\ fresh = <<>>
          THEN sent' = sent \o new /\ UNCHANGED fresh
          ELSE fresh' = fresh \o new /\ UNCHANGED sent

Handle(changes, created) ==
    /\ up
    /\ mem' = After(changes)
    /\ Persist(changes)
    /\ keyOf' = keyOf \o [i \in DOMAIN changes |-> changes[i][1]]
    /\ unwritten' = unwritten \cup {Len(keyOf) + i : i \in DOMAIN changes}
    /\ count' = [count EXCEPT !.created = @ + created]
    /\ UNCHANGED <<stored, link, failed, up, overtaken>>

WithStatus(id, status) == [mem.drafts EXCEPT ![id].status = status]

\* A wallet is opened and funded: no draft of this module is involved.
Fund ==
    /\ ~ mem.wallets.open
    /\ Handle(<< <<"wallets", [mem.wallets EXCEPT !.open = TRUE]>> >>, 0)

NewDrafts(id) ==
    [mem.drafts EXCEPT ![id] = [n |-> count.created + 1, era |-> mem.wallets.era,
                                status |-> "PENDING_APPROVAL"]]

\* Mutant: the sequence is written after the draft.
CreateUnnumbered ==
    LET id == mem.sequences + 1
    IN  /\ count.created < MaxCreated
        /\ Handle(<< <<"drafts", NewDrafts(id)>>, <<"sequences", id>> >>, 1)

\* nextId, then addDraft.
Create ==
    LET id == mem.sequences + 1
    IN  /\ count.created < MaxCreated
        /\ Handle(<< <<"sequences", id>>, <<"drafts", NewDrafts(id)>> >>, 1)

Covered == mem.wallets.open /\ Len(mem.wallets.debited) < Funds

AfterDebit(n) == [mem.wallets EXCEPT !.debited = Append(@, n)]

AfterCredit(n) == [AfterDebit(n) EXCEPT !.credited = Append(@, n)]

\* Mutants: the wallets after the credit are written before those after the debit
\* alone; the draft is written before the wallets; the transaction before the draft.
CreditFirst(n) == << <<"wallets", [mem.wallets EXCEPT !.credited = Append(@, n)]>>,
                     <<"wallets", AfterCredit(n)>> >>

ApproveDraftFirst(id) ==
    LET n == mem.drafts[id].n
    IN  /\ mem.drafts[id].status = "PENDING_APPROVAL"
        /\ Covered
        /\ Handle(<< <<"drafts", WithStatus(id, "SETTLED")>>,
                     <<"wallets", AfterDebit(n)>>, <<"wallets", AfterCredit(n)>>,
                     <<"transactions", Append(mem.transactions, n)>> >>, 0)

ApproveTransactionFirst(id) ==
    LET n == mem.drafts[id].n
    IN  /\ mem.drafts[id].status = "PENDING_APPROVAL"
        /\ Covered
        /\ Handle(<< <<"wallets", AfterDebit(n)>>, <<"wallets", AfterCredit(n)>>,
                     <<"transactions", Append(mem.transactions, n)>>,
                     <<"drafts", WithStatus(id, "SETTLED")>> >>, 0)

\* A checked debit, then the credit: two writes of one key.
Moved(n) == << <<"wallets", AfterDebit(n)>>, <<"wallets", AfterCredit(n)>> >>

Approve(id) ==
    LET n == mem.drafts[id].n
    IN  /\ mem.drafts[id].status = "PENDING_APPROVAL"
        /\ Covered
        /\ Handle(Moved(n) \o << <<"drafts", WithStatus(id, "SETTLED")>>,
                                 <<"transactions", Append(mem.transactions, n)>> >>, 0)

Cancel(id) ==
    /\ mem.drafts[id].status = "PENDING_APPROVAL"
    /\ Handle(<< <<"drafts", WithStatus(id, "CANCELED")>> >>, 0)

Reset ==
    /\ mem.wallets.era < MaxEra
    /\ Handle(<< <<"wallets", NoWallets(mem.wallets.era + 1)>>,
                 <<"drafts", EmptyStore.drafts>>,
                 <<"transactions", EmptyStore.transactions>>,
                 <<"sequences", EmptyStore.sequences>> >>, 0)

-----------------------------------------------------------------------------
\* The connection.

\* The ith command is the last of the first j that sets key k.
SetsLast(i, k, j) == sent[i].key = k /\ \A h \in i + 1 .. j : sent[h].key # k

\* Redis after the first j of the commands sent.
Executed(j) ==
    [k \in Keys |-> IF \E i \in 1 .. j : SetsLast(i, k, j)
                      THEN sent[CHOOSE i \in 1 .. j : SetsLast(i, k, j)].value
                      ELSE stored[k]]

NumbersOf(commands) == {commands[i].n : i \in DOMAIN commands}

\* Redis executes a command and the reply arrives.
Execute ==
    /\ sent # <<>>
    /\ stored' = Executed(1)
    /\ unwritten' = unwritten \ {Head(sent).n}
    /\ sent' = Tail(sent)
    /\ UNCHANGED <<up, mem, link, fresh, failed, keyOf, overtaken, count>>

\* The process is gone, and with it the commands that had not reached Redis.
Stop(j) ==
    /\ stored' = Executed(j)
    /\ up' = FALSE
    /\ mem' = EmptyStore
    /\ link' = FALSE
    /\ sent' = <<>>
    /\ fresh' = <<>>
    /\ failed' = {}
    /\ unwritten' = {}
    /\ keyOf' = <<>>
    /\ overtaken' = FALSE

\* Mutant: a command that fails twice is forgotten.
BreakForgetting ==
    \E j \in 0 .. Len(sent) :
        /\ up /\ link
        /\ count.breaks < MaxBreaks
        /\ stored' = Executed(j)
        /\ unwritten' = unwritten \ {sent[i].n : i \in 1 .. j}
        /\ failed' = failed \cup {sent[i] : i \in {k \in DOMAIN sent : sent[k].attempt = 1}}
        /\ sent' = <<>>
        /\ link' = FALSE
        /\ count' = [count EXCEPT !.breaks = @ + 1]
        /\ UNCHANGED <<up, mem, fresh, keyOf, overtaken>>

\* The connection breaks: Redis has executed the first j commands, and none of
\* those in flight gets its reply.  A second failure is fatal.
Break ==
    \E j \in 0 .. Len(sent) :
        /\ up /\ link
        /\ count.breaks < MaxBreaks
        /\ count' = [count EXCEPT !.breaks = @ + 1]
        /\ IF \E i \in DOMAIN sent : sent[i].attempt = 2
             THEN Stop(j)
             ELSE /\ stored' = Executed(j)
                  /\ unwritten' = unwritten \ {sent[i].n : i \in 1 .. j}
                  /\ failed' = failed \cup {sent[i] : i \in DOMAIN sent}
                  /\ sent' = <<>>
                  /\ link' = FALSE
                  /\ UNCHANGED <<up, mem, fresh, keyOf, overtaken>>

\* One connect() is shared by all that wait for it.
Connect ==
    /\ up /\ ~ link
    /\ link' = TRUE
    /\ UNCHANGED <<up, mem, stored, sent, fresh, failed, unwritten, keyOf, overtaken, count>>

ConnectFails ==
    /\ up /\ ~ link
    /\ fresh # <<>> \/ failed # {}
    /\ Stop(0)
    /\ UNCHANGED count

\* What waited for the connection goes out: first attempts in order, the retry of a
\* failed command whenever its own reconnect() -- which quits the old client first
\* -- comes back, before or after newer commands.
SendFresh ==
    /\ link
    /\ fresh # <<>>
    /\ sent' = Append(sent, Head(fresh))
    /\ fresh' = Tail(fresh)
    /\ UNCHANGED <<up, mem, stored, link, failed, unwritten, keyOf, overtaken, count>>

\* A newer command of the key is neither waiting for its first attempt nor to be
\* sent again after c.
GoesBehindNewer(c) ==
    \E n \in c.n + 1 .. Len(keyOf) :
        /\ keyOf[n] = c.key
        /\ n \notin NumbersOf(fresh) \cup {d.n : d \in failed}

Resend(c) ==
    /\ link
    /\ sent' = Append(sent, [c EXCEPT !.attempt = 2])
    /\ failed' = failed \ {c}
    /\ overtaken' = (overtaken \/ GoesBehindNewer(c))
    /\ UNCHANGED <<up, mem, stored, link, fresh, unwritten, keyOf, count>>

-----------------------------------------------------------------------------
\* Crash and restart.

Crash ==
    /\ up
    /\ count.crashes < MaxCrashes
    /\ \E j \in 0 .. Len(sent) : Stop(j)
    /\ count' = [count EXCEPT !.crashes = @ + 1]

\* Mutant: the sequences are not read back.
HydrateButSequences == [stored EXCEPT !.sequences = 0]

Hydrated == stored

\* The process starts only when it reaches Redis.
Restart ==
    /\ ~ up
    /\ up' = TRUE
    /\ link' = TRUE
    /\ mem' = Hydrated
    /\ UNCHANGED <<stored, sent, fresh, failed, unwritten, keyOf, overtaken, count>>

Next ==
    \/ Fund
    \/ Create
    \/ \E id \in Numbers : Approve(id) \/ Cancel(id)
    \/ Reset
    \/ Execute
    \/ Break
    \/ Connect
    \/ ConnectFails
    \/ SendFresh
    \/ \E c \in failed : Resend(c)
    \/ Crash
    \/ Restart

Spec == Init /\ [][Next]_vars

-----------------------------------------------------------------------------
\* Properties.

Occurs(n, s) == \E i \in DOMAIN s : s[i] = n

\* The connection has held since the data were empty.
Unbroken == count.breaks = 0

\* A restart never draws a number again that a stored draft has: no creation
\* replaces another draft, wherever the crash cut the writes of nextId, addDraft
\* and the reset, as long as the connection holds.
DraftsNotReplaced ==
    [][\A id \in Numbers :
          Unbroken /\ mem.drafts[id] # NoDraft /\ mem'.drafts[id] # NoDraft =>
              mem'.drafts[id].n = mem.drafts[id].n]_vars

\* Wherever a crash cuts the writes of an approval, Redis never holds a SETTLED
\* draft whose payment is not in the wallets it holds, unless these were wiped
\* since.  (A retry may put the snapshot of the debit alone back for a while.)
SettledMeansMoved ==
    Unbroken => \A id \in Numbers :
        LET d == stored.drafts[id]
        IN  d.status = "SETTLED" /\ d.era = stored.wallets.era =>
                /\ Occurs(d.n, stored.wallets.debited)
                /\ Occurs(d.n, stored.wallets.credited)

\* Redis never holds the transaction of a draft that is still pending or was
\* cancelled, although a crash may leave the draft to be approved again.
TransactionsOfSettled ==
    Unbroken => \A id \in Numbers :
        stored.drafts[id].status \in {"PENDING_APPROVAL", "CANCELED"} =>
            ~ Occurs(stored.drafts[id].n, stored.transactions)

Quiet == up /\ sent = <<>> /\ fresh = <<>> /\ failed = {}

\* When every command has been replied to, Redis holds what the process serves
\* (issue #46, common.ts 19-24).
NothingLost == Quiet => stored = mem

\* It does, whatever broke, was executed twice or was sent again, unless a retry
\* went out behind a newer command of its own key.
LostOnlyIfOvertaken == ~ overtaken => NothingLost

\* No command is forgotten while the process runs on: it is executed at least once
\* or still on its way, whatever the connection does.
NoWriteDropped ==
    unwritten \subseteq NumbersOf(sent) \cup NumbersOf(fresh) \cup {c.n : c \in failed}

\* Whichever snapshot of the wallets a crash or a late retry leaves in Redis, and
\* however often a draft is approved again because of it, no cash is made.
CashNeverCreated ==
    \A s \in {mem, stored} : Len(s.wallets.credited) <= Len(s.wallets.debited)
=============================================================================
