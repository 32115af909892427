-------------------------------- MODULE Dcw --------------------------------
(***************************************************************************)
(* The dedicated cash wallet (DCW): the record every money movement acts    *)
(* on, and the pure operations of src/state/dcw.ts and src/state/           *)
(* memory-store.ts on a map of wallets.                                     *)
(*                                                                          *)
(* Amounts are naturals counting the smallest unit (a cent): the code keeps *)
(* decimal strings with two digits and goes through a float, which is exact *)
(* for the balances a model can hold.  The validity window validFrom ..     *)
(* validTo is kept as the side of the window the wall clock is on.  No      *)
(* handler sets isBlocked, poaGrantees or whitelistedOperators, and none    *)
(* locks a balance, so those fields keep the defaults of createDcw.         *)
(***************************************************************************)
EXTENDS Naturals

CONSTANTS
    Aliases,   \* the wallet aliases that may come to exist
    Entities,  \* the BICs of the participating entities
    NCBs,      \* the national central banks that manage wallets
    NoAlias,   \* the empty alias "" a request body may carry
    NoEntity,  \* no BIC: an unauthenticated caller, an absent wallet
    NoNCB      \* no manager: an absent wallet

ASSUME DcwAssumption ==
    /\ NoAlias \notin Aliases
    /\ NoEntity \notin Entities
    /\ NoNCB \notin NCBs

-----------------------------------------------------------------------------

Validities == {"NOT_YET_VALID", "VALID", "EXPIRED"}

Dcws == [owner    : Entities \cup {NoEntity},
         manager  : NCBs \cup {NoNCB},
         validity : Validities,
         balance  : Nat]

\* The alias is no key of the store's map.
NoDcw == [owner |-> NoEntity, manager |-> NoNCB, validity |-> "VALID", balance |-> 0]

WalletMaps == [Aliases -> Dcws]

NoWallets == [a \in Aliases |-> NoDcw]

\* The store holds a wallet under this alias: never for the empty one.
HasWallet(wallets, a) == a \in Aliases /\ wallets[a].owner # NoEntity

\* A request that names the empty alias escapes the existence asserts.
NamedWalletExists(wallets, a) == a = NoAlias \/ HasWallet(wallets, a)

-----------------------------------------------------------------------------

\* A new wallet: zero balance, and only its owner may debit it.
CreateDcw(wallets, a, owner, manager, validity) ==
    [wallets EXCEPT ![a] = [owner    |-> owner,
                            manager  |-> manager,
                            validity |-> validity,
                            balance  |-> 0]]

\* Mutant: anyone debits a valid wallet.
AnyoneCanDebit(wallets, a, caller) ==
    /\ HasWallet(wallets, a)
    /\ wallets[a].validity = "VALID"

\* Debit rights now: the wallet is inside its validity window and the caller
\* belongs to the owning entity.
CanDebit(wallets, a, caller) ==
    /\ HasWallet(wallets, a)
    /\ wallets[a].validity = "VALID"
    /\ caller = wallets[a].owner

\* Mutant: the balance is not compared with the amount.
CanOverdraw(wallets, a, amount, caller) == CanDebit(wallets, a, caller)

\* Everything a checked debit asks before it changes the balance.
CanDebitAmount(wallets, a, amount, caller) ==
    /\ CanDebit(wallets, a, caller)
    /\ amount <= wallets[a].balance

Debited(wallets, a, amount) == [wallets EXCEPT ![a].balance = @ - amount]

Credited(wallets, a, amount) == [wallets EXCEPT ![a].balance = @ + amount]

\* Mutant: the credit adds to the balance read before the debit.
MovedFromStale(wallets, from, to, amount) ==
    [Debited(wallets, from, amount) EXCEPT ![to].balance = wallets[to].balance + amount]

\* The debit commits before the credit reads the map, so a wallet that pays
\* itself ends with the balance it had.
Moved(wallets, from, to, amount) == Credited(Debited(wallets, from, amount), to, amount)

\* The wall clock reaches validFrom or passes validTo of a wallet.
LaterValidities(v) ==
    CASE v = "NOT_YET_VALID" -> {"VALID", "EXPIRED"}
      [] v = "VALID"         -> {"EXPIRED"}
      [] v = "EXPIRED"       -> {}
=============================================================================
