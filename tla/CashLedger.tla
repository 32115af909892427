----------------------------- MODULE CashLedger -----------------------------
(***************************************************************************)
(* What the cash ledger promises, whatever workflow moves the money:        *)
(*   - cash moves only by a posting that the ledger records, and a posting  *)
(*     moves exactly its amount between the two accounts it names;          *)
(*   - the debited account is open and holds the amount, the credited one   *)
(*     is open; only a funding debits none and only a defunding credits     *)
(*     none, whichever accounts they name: the issuance wallet is virtual;  *)
(*   - an instruction is posted at most once;                               *)
(*   - only the administrator's reset takes anything back.                  *)
(* It says nothing of who may post.  The workflow modules implement it.     *)
(***************************************************************************)
EXTENDS Naturals, Sequences

CONSTANTS
    Accounts,  \* the wallet aliases
    NoRef      \* the reference of a posting that settles no stored instruction

VARIABLES
    open,      \* the accounts that exist
    balance,   \* the available balance of each
    posted     \* the postings so far, oldest first

ledgerVars == <<open, balance, posted>>

Init ==
    /\ open = {}
    /\ balance = [a \in Accounts |-> 0]
    /\ posted = <<>>

Open(a) ==
    /\ a \notin open
    /\ open' = open \cup {a}
    /\ UNCHANGED <<balance, posted>>

Debits(p)  == p.type # "FUNDING"

Credits(p) == p.type # "DEFUNDING"

AfterDebit(b, p) ==
    IF Debits(p) THEN [b EXCEPT ![p.debited] = @ - p.amount] ELSE b

AfterCredit(b, p) ==
    IF Credits(p) THEN [b EXCEPT ![p.credited] = @ + p.amount] ELSE b

Covered(p) == Debits(p) => p.debited \in open /\ p.amount <= balance[p.debited]

NotPostedYet(ref) == ref = NoRef \/ \A i \in DOMAIN posted : posted[i].ref # ref

Post(p) ==
    /\ Covered(p)
    /\ Credits(p) => p.credited \in open
    /\ NotPostedYet(p.ref)
    /\ posted' = Append(posted, p)
    /\ balance' = AfterCredit(AfterDebit(balance, p), p)
    /\ UNCHANGED open

Reset ==
    /\ open' = {}
    /\ balance' = [a \in Accounts |-> 0]
    /\ posted' = <<>>

\* The posting of a step is the last one it leaves on record.
Next ==
    \/ \E a \in Accounts : Open(a)
    \/ posted' # <<>> /\ Post(posted'[Len(posted')])
    \/ Reset

Spec == Init /\ [][Next]_ledgerVars
=============================================================================
