-------------------------------- MODULE Wallet ------------------------------
(***************************************************************************)
(* What the wallets promise a store or a customer, without the jobs, the   *)
(* reads before a write, the transfers at Stripe and the failures: the     *)
(* escrow of an order is credited once, to its store; a withdrawal that    *)
(* was asked for is paid or refused once, at the amount that was asked;    *)
(* and nothing but a fine takes more than there is.                        *)
(***************************************************************************)
EXTENDS Integers

CONSTANTS Escrow, Request, Account, OwnerOf, Share, Opening, Amount, Fine, NoRequest

VARIABLES
  escrow,     \* HELD, or RELEASED to the balance of its store
  request,    \* what was asked for, of which account, and what became of it
  balance

walletVars == <<escrow, request, balance>>

WalletInit ==
  /\ escrow = [e \in Escrow |-> "HELD"]
  /\ request = [r \in Request |-> NoRequest]
  /\ balance = Opening

Credit(e) ==
  /\ escrow[e] = "HELD"
  /\ escrow' = [escrow EXCEPT ![e] = "RELEASED"]
  /\ balance' = [balance EXCEPT ![OwnerOf[e]] = @ + Share[e]]
  /\ UNCHANGED request

Ask(r, a, n) ==
  /\ request[r] = NoRequest
  /\ n <= balance[a]
  /\ request' = [request EXCEPT ![r] = [status |-> "PENDING", account |-> a,
                                        amount |-> n]]
  /\ UNCHANGED <<escrow, balance>>

Refuse(r) ==
  /\ request[r].status = "PENDING"
  /\ request' = [request EXCEPT ![r].status = "REJECTED"]
  /\ UNCHANGED <<escrow, balance>>

Withdraw(r) ==
  LET a == request[r].account
      n == request[r].amount IN
  /\ request[r].status = "PENDING"
  /\ n <= balance[a]
  /\ request' = [request EXCEPT ![r].status = "COMPLETED"]
  /\ balance' = [balance EXCEPT ![a] = @ - n]
  /\ UNCHANGED escrow

PayOut(a, n) ==
  /\ n <= balance[a]
  /\ balance' = [balance EXCEPT ![a] = @ - n]
  /\ UNCHANGED <<escrow, request>>

TakeFine(a) ==
  /\ balance' = [balance EXCEPT ![a] = @ - Fine]
  /\ UNCHANGED <<escrow, request>>

WalletNext ==
  \/ \E e \in Escrow : Credit(e)
  \/ \E r \in Request : \/ \E a \in Account, n \in Amount : Ask(r, a, n)
                        \/ Refuse(r) \/ Withdraw(r)
  \/ \E a \in Account : TakeFine(a) \/ \E n \in Amount : PayOut(a, n)

WalletSpec == WalletInit /\ [][WalletNext]_walletVars
=============================================================================
