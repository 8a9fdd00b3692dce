---------------------------- MODULE AgentTreasury ----------------------------
(***************************************************************************)
(* The Arc settlement vault: AgentTreasury.sol, one clone per owner.       *)
(*                                                                         *)
(* Every external function is an action; a call that reverts is a          *)
(* stuttering step, so the `require's are guards.  Amounts are whole USDC  *)
(* units and the balance is the token's balance of the vault.  The token   *)
(* makes no callback into the vault, so the reentrancy guard has no state  *)
(* here; a messenger that is set is Circle's.                              *)
(***************************************************************************)
EXTENDS Integers, Sequences

CONSTANTS
  RequestId,   \* request ids, as GenLayer knows them
  Recipient,   \* addresses that can be paid
  Account,     \* addresses that may call the vault
  Owner,       \* the wallet that created the vault
  Self,        \* the vault's own address; may or may not be a Recipient
  Amount,      \* amounts that can be paid, deposited, withdrawn or reserved
  Fee,         \* CCTP fees Circle may quote
  MaxHeld      \* bound on what the vault is ever funded with

ASSUME VaultAssumption ==
  /\ Owner \in Account
  /\ Amount \subseteq Nat
  /\ Fee \subseteq Nat
  /\ MaxHeld \in Nat

VARIABLES
  executed,        \* executed[requestId]
  balance,         \* token.balanceOf(address(this))
  feeReserve,
  feeReserveCap,
  paused,
  executor,
  messenger_set,   \* tokenMessenger # address(0)
  settled          \* history: the settlements made for each request

vaultVars == <<executed, balance, feeReserve, feeReserveCap, paused,
               executor, messenger_set, settled>>

controls == <<paused, executor, messenger_set>>

Settlement == [route : {"direct", "cctp"}, recipient : Recipient, amount : Nat]

TypeOK ==
  /\ executed \in [RequestId -> BOOLEAN]
  /\ balance \in Nat
  /\ feeReserve \in Nat
  /\ feeReserveCap \in Nat
  /\ paused \in BOOLEAN
  /\ executor \in Account
  /\ messenger_set \in BOOLEAN
  /\ settled \in [RequestId -> Seq(Settlement)]

-----------------------------------------------------------------------------
(* AgentTreasuryFactory.createTreasury clones and initializes in one        *)
(* transaction: nobody sees a clone without its owner.  The factory of a    *)
(* chain without CCTP passes the zero messenger.                            *)
Init ==
  /\ executed = [r \in RequestId |-> FALSE]
  /\ balance = 0
  /\ feeReserve = 0
  /\ feeReserveCap = 0
  /\ paused = FALSE
  /\ executor \in Account
  /\ messenger_set \in BOOLEAN
  /\ settled = [r \in RequestId |-> <<>>]

availableBalance == IF balance > feeReserve THEN balance - feeReserve ELSE 0

(* What an ERC-20 transfer leaves in the vault: all of it if it pays itself. *)
AfterTransfer(recipient, amount) ==
  IF recipient = Self THEN balance ELSE balance - amount

Settle(route, r, recipient, amount) ==
  settled' = [settled EXCEPT
                ![r] = Append(@, [route |-> route, recipient |-> recipient,
                                  amount |-> amount])]

(* Mutants: no replay protection; no look at the balance.                   *)
CanPayAgain(sender, r, amount) ==
  /\ sender = executor /\ ~paused /\ amount > 0
  /\ availableBalance >= amount

CanPayUncovered(sender, r, amount) ==
  sender = executor /\ ~paused /\ amount > 0 /\ ~executed[r]

CanPay(sender, r, amount) ==
  /\ sender = executor
  /\ ~paused
  /\ amount > 0
  /\ ~executed[r]
  /\ availableBalance >= amount

payout(sender, r, recipient, amount) ==
  /\ CanPay(sender, r, amount)
  /\ executed' = [executed EXCEPT ![r] = TRUE]
  /\ balance' = AfterTransfer(recipient, amount)
  /\ Settle("direct", r, recipient, amount)
  /\ UNCHANGED <<feeReserve, feeReserveCap, controls>>

(* Mutant: the fee is not compared with the reserve.                        *)
CanPayAnyFee(sender, r, amount, maxFee) == CanPay(sender, r, amount) /\ messenger_set

CanPayCrossChain(sender, r, amount, maxFee) ==
  /\ CanPay(sender, r, amount)
  /\ messenger_set
  /\ feeReserve >= maxFee

(* Mutant: the fee is burned without leaving the reserve.                   *)
BurnKeepsReserve(sender, r, recipient, amount, maxFee) ==
  /\ CanPayCrossChain(sender, r, amount, maxFee)
  /\ executed' = [executed EXCEPT ![r] = TRUE]
  /\ balance' = balance - (amount + maxFee)
  /\ Settle("cctp", r, recipient, amount)
  /\ UNCHANGED <<feeReserve, feeReserveCap, controls>>

(* The burn takes the principal and the fee; the fee comes out of the       *)
(* reserve.                                                                 *)
payoutCrossChain(sender, r, recipient, amount, maxFee) ==
  /\ CanPayCrossChain(sender, r, amount, maxFee)
  /\ executed' = [executed EXCEPT ![r] = TRUE]
  /\ feeReserve' = feeReserve - maxFee
  /\ balance' = balance - (amount + maxFee)
  /\ Settle("cctp", r, recipient, amount)
  /\ UNCHANGED <<feeReserveCap, controls>>

(* Mutant: a withdrawal into the reserve does not shrink it.                *)
WithdrawKeepsReserve(sender, recipient, amount) ==
  /\ sender = Owner /\ amount > 0 /\ balance >= amount
  /\ balance' = AfterTransfer(recipient, amount)
  /\ UNCHANGED <<executed, feeReserve, feeReserveCap, controls, settled>>

withdraw(sender, recipient, amount) ==
  /\ sender = Owner
  /\ amount > 0
  /\ balance >= amount
  /\ feeReserve' = IF feeReserve > balance - amount THEN balance - amount
                                                    ELSE feeReserve
  /\ balance' = AfterTransfer(recipient, amount)
  /\ UNCHANGED <<executed, feeReserveCap, controls, settled>>

fundFeeReserve(sender, amount) ==
  /\ sender = Owner
  /\ amount > 0
  /\ feeReserve + amount <= feeReserveCap
  /\ availableBalance >= amount
  /\ feeReserve' = feeReserve + amount
  /\ UNCHANGED <<executed, balance, feeReserveCap, controls, settled>>

releaseFeeReserve(sender, amount) ==
  /\ sender = Owner
  /\ amount > 0
  /\ feeReserve >= amount
  /\ feeReserve' = feeReserve - amount
  /\ UNCHANGED <<executed, balance, feeReserveCap, controls, settled>>

(* Mutant: the bound may be lowered below the reserve.                      *)
CapBelowReserve(sender, cap) ==
  /\ sender = Owner
  /\ feeReserveCap' = cap
  /\ UNCHANGED <<executed, balance, feeReserve, controls, settled>>

setFeeReserveCap(sender, cap) ==
  /\ sender = Owner
  /\ cap >= feeReserve
  /\ feeReserveCap' = cap
  /\ UNCHANGED <<executed, balance, feeReserve, controls, settled>>

setExecutor(sender, newExecutor) ==
  /\ sender = Owner
  /\ executor' = newExecutor
  /\ UNCHANGED <<executed, balance, feeReserve, feeReserveCap, paused,
                 messenger_set, settled>>

setTokenMessenger(sender, set) ==
  /\ sender = Owner
  /\ messenger_set' = set
  /\ UNCHANGED <<executed, balance, feeReserve, feeReserveCap, paused,
                 executor, settled>>

setPaused(sender, flag) ==
  /\ sender = Owner
  /\ paused' = flag
  /\ UNCHANGED <<executed, balance, feeReserve, feeReserveCap, executor,
                 messenger_set, settled>>

(* Funding is an ERC-20 transfer or a CCTP mint from outside: no code of    *)
(* the vault runs.                                                          *)
deposit(amount) ==
  /\ balance + amount <= MaxHeld
  /\ balance' = balance + amount
  /\ UNCHANGED <<executed, feeReserve, feeReserveCap, controls, settled>>

-----------------------------------------------------------------------------
PayStep(sender) ==
  \E r \in RequestId, recipient \in Recipient, amount \in Amount :
    \/ payout(sender, r, recipient, amount)
    \/ \E maxFee \in Fee : payoutCrossChain(sender, r, recipient, amount, maxFee)

AmountStep(sender) ==
  \E amount \in Amount :
    \/ \E recipient \in Recipient : withdraw(sender, recipient, amount)
    \/ fundFeeReserve(sender, amount)
    \/ releaseFeeReserve(sender, amount)
    \/ setFeeReserveCap(sender, amount)

ControlStep(sender) ==
  \/ \E newExecutor \in Account : setExecutor(sender, newExecutor)
  \/ \E set \in BOOLEAN : setTokenMessenger(sender, set)
  \/ \E flag \in BOOLEAN : setPaused(sender, flag)

Next ==
  \/ \E sender \in Account : PayStep(sender)
  \/ \E sender \in Account : AmountStep(sender)
  \/ \E sender \in Account : ControlStep(sender)
  \/ \E amount \in Amount : deposit(amount)

Spec == Init /\ [][Next]_vaultVars

-----------------------------------------------------------------------------
(* AgentTreasury.sol:50 -- a request is never settled twice, be it twice on *)
(* this chain, twice through CCTP or once on each path, across pauses,      *)
(* executor rotations and refills.                                          *)
SettledOnce ==
  \A r \in RequestId : Len(settled[r]) = IF executed[r] THEN 1 ELSE 0

(* AgentTreasury.sol:205 -- the accounting never reserves more than the     *)
(* vault holds, after any mix of withdrawals, burns and reserve changes.    *)
FeeReserveBacked == feeReserve <= balance

(* AgentTreasury.sol:55 -- the reserve stays under its bound, although the  *)
(* bound may be lowered and the reserve shrunk by a withdrawal.             *)
ReserveWithinCap == feeReserve <= feeReserveCap

(* What a settlement takes out of the available balance.                    *)
Principal(paid) ==
  IF paid.route = "direct" /\ paid.recipient = Self THEN 0 ELSE paid.amount

(* A settlement never touches the money earmarked for the fees of others:   *)
(* it lowers what is available for principal by its principal, no more, and *)
(* a CCTP fee is drawn from the reserve alone.                              *)
PrincipalSeparate ==
  \A r \in RequestId : settled'[r] # settled[r] =>
    balance' - feeReserve'
      = (balance - feeReserve) - Principal(settled'[r][Len(settled'[r])])

PrincipalFromAvailable == [][PrincipalSeparate]_vaultVars
=============================================================================
