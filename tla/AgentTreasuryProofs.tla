------------------------- MODULE AgentTreasuryProofs -------------------------
(***************************************************************************)
(* The vault keeps its promises for any requests, amounts, fees and caps.  *)
(* The invariants are proved together: that a reserve stays backed under a *)
(* burn needs the types, and under a payment needs that it was backed.     *)
(***************************************************************************)
EXTENDS AgentTreasury, TLAPS

VaultInv == TypeOK /\ SettledOnce /\ FeeReserveBacked /\ ReserveWithinCap

(* The vault starts empty, with nothing settled and nothing reserved.       *)
LEMMA VaultInit == Init => VaultInv
<1> SUFFICES ASSUME Init PROVE VaultInv
  OBVIOUS
<1>1. /\ executed \in [RequestId -> BOOLEAN]
      /\ settled \in [RequestId -> Seq(Settlement)]
  BY DEF Init
<1>2. SettledOnce
  BY DEF Init, SettledOnce
<1>3. balance \in Nat /\ feeReserve \in Nat /\ feeReserveCap \in Nat
      /\ feeReserve <= balance /\ feeReserve <= feeReserveCap
  BY DEF Init
<1>4. paused \in BOOLEAN /\ executor \in Account /\ messenger_set \in BOOLEAN
  BY DEF Init
<1> QED
  BY <1>1, <1>2, <1>3, <1>4
     DEF VaultInv, TypeOK, FeeReserveBacked, ReserveWithinCap

(* Recording a settlement of an unsettled request makes it settled once.    *)
LEMMA SettleOnce ==
  ASSUME NEW r \in RequestId, NEW recipient \in Recipient, NEW amount \in Nat,
         NEW route \in {"direct", "cctp"},
         settled \in [RequestId -> Seq(Settlement)],
         executed \in [RequestId -> BOOLEAN],
         SettledOnce, ~executed[r],
         executed' = [executed EXCEPT ![r] = TRUE],
         Settle(route, r, recipient, amount)
  PROVE  /\ settled' \in [RequestId -> Seq(Settlement)]
         /\ executed' \in [RequestId -> BOOLEAN]
         /\ SettledOnce'
<1> DEFINE paid == [route |-> route, recipient |-> recipient, amount |-> amount]
<1>1. paid \in Settlement
  BY DEF Settlement
<1>2. settled' = [settled EXCEPT ![r] = Append(settled[r], paid)]
  BY DEF Settle
<1>3. settled[r] \in Seq(Settlement) /\ Len(settled[r]) = 0
  BY DEF SettledOnce
<1> HIDE DEF paid
<1>4. /\ Append(settled[r], paid) \in Seq(Settlement)
      /\ Len(Append(settled[r], paid)) = 1
      /\ Append(settled[r], paid)[1] = paid
  BY <1>1, <1>3
<1>5. settled' \in [RequestId -> Seq(Settlement)]
  BY <1>2, <1>4
<1>6. settled'[r] = Append(settled[r], paid)
      /\ \A s \in RequestId \ {r} : settled'[s] = settled[s]
  BY <1>2
<1>7. SettledOnce'
  BY <1>4, <1>6 DEF SettledOnce
<1> QED
  BY <1>5, <1>7

(* The only entry a settlement adds is the last one of its request.         *)
LEMMA SettledRecord ==
  ASSUME NEW r \in RequestId, NEW recipient, NEW amount, NEW route,
         settled \in [RequestId -> Seq(Settlement)],
         Settle(route, r, recipient, amount),
         NEW s \in RequestId, settled'[s] # settled[s]
  PROVE  settled'[s][Len(settled'[s])]
           = [route |-> route, recipient |-> recipient, amount |-> amount]
<1> DEFINE paid == [route |-> route, recipient |-> recipient, amount |-> amount]
<1>1. settled' = [settled EXCEPT ![r] = Append(settled[r], paid)]
  BY DEF Settle
<1> HIDE DEF paid
<1>2. settled'[s] = Append(settled[s], paid)
  BY <1>1
<1>3. settled[s] \in Seq(Settlement)
  OBVIOUS
<1>4. settled'[s][Len(settled'[s])] = paid
  BY <1>2, <1>3
<1> QED
  BY <1>4 DEF paid

(* A settlement on this chain keeps the invariant.                          *)
LEMMA VaultPayout ==
  ASSUME VaultInv, NEW sender \in Account, NEW r \in RequestId,
         NEW recipient \in Recipient, NEW amount \in Amount,
         payout(sender, r, recipient, amount)
  PROVE  VaultInv'
<1>1. amount \in Nat /\ "direct" \in {"direct", "cctp"}
  BY VaultAssumption
<1>2. /\ settled' \in [RequestId -> Seq(Settlement)]
      /\ executed' \in [RequestId -> BOOLEAN]
      /\ SettledOnce'
  <2>1. /\ ~executed[r]
        /\ executed' = [executed EXCEPT ![r] = TRUE]
        /\ Settle("direct", r, recipient, amount)
    BY DEF payout, CanPay
  <2>2. /\ settled \in [RequestId -> Seq(Settlement)]
        /\ executed \in [RequestId -> BOOLEAN]
        /\ SettledOnce
    BY DEF VaultInv, TypeOK
  <2> QED
    BY <1>1, <2>1, <2>2, SettleOnce
<1>3. balance' \in Nat /\ feeReserve' <= balance'
  BY <1>1 DEF VaultInv, TypeOK, FeeReserveBacked, payout, CanPay,
              availableBalance, AfterTransfer
<1> QED
  BY <1>2, <1>3 DEF VaultInv, TypeOK, FeeReserveBacked, ReserveWithinCap,
                    payout, controls

(* A burn through CCTP keeps the invariant: the reserve pays the fee.       *)
LEMMA VaultPayoutCrossChain ==
  ASSUME VaultInv, NEW sender \in Account, NEW r \in RequestId,
         NEW recipient \in Recipient, NEW amount \in Amount, NEW maxFee \in Fee,
         payoutCrossChain(sender, r, recipient, amount, maxFee)
  PROVE  VaultInv'
<1>1. amount \in Nat /\ maxFee \in Nat /\ "cctp" \in {"direct", "cctp"}
  BY VaultAssumption
<1>2. /\ settled' \in [RequestId -> Seq(Settlement)]
      /\ executed' \in [RequestId -> BOOLEAN]
      /\ SettledOnce'
  <2>1. /\ ~executed[r]
        /\ executed' = [executed EXCEPT ![r] = TRUE]
        /\ Settle("cctp", r, recipient, amount)
    BY DEF payoutCrossChain, CanPayCrossChain, CanPay
  <2>2. /\ settled \in [RequestId -> Seq(Settlement)]
        /\ executed \in [RequestId -> BOOLEAN]
        /\ SettledOnce
    BY DEF VaultInv, TypeOK
  <2> QED
    BY <1>1, <2>1, <2>2, SettleOnce
<1>3. /\ balance' \in Nat /\ feeReserve' \in Nat
      /\ feeReserve' <= balance' /\ feeReserve' <= feeReserve
  BY <1>1 DEF VaultInv, TypeOK, FeeReserveBacked, payoutCrossChain,
              CanPayCrossChain, CanPay, availableBalance
<1>4. feeReserve' <= feeReserveCap' /\ feeReserveCap' \in Nat
  BY <1>3 DEF VaultInv, TypeOK, ReserveWithinCap, payoutCrossChain
<1> QED
  BY <1>2, <1>3, <1>4 DEF VaultInv, TypeOK, FeeReserveBacked,
                          ReserveWithinCap, payoutCrossChain, controls

(* The owner's money handling keeps the invariant; a withdrawal does so by  *)
(* shrinking the reserve to what remains.                                   *)
LEMMA VaultAmount ==
  ASSUME VaultInv, NEW sender \in Account, AmountStep(sender)
  PROVE  VaultInv'
<1> USE VaultAssumption DEF VaultInv, TypeOK, SettledOnce, FeeReserveBacked,
                            ReserveWithinCap, controls
<1>1. ASSUME NEW amount \in Amount, NEW recipient \in Recipient,
             withdraw(sender, recipient, amount)
      PROVE  VaultInv'
  BY <1>1 DEF withdraw, AfterTransfer
<1>2. ASSUME NEW amount \in Amount, fundFeeReserve(sender, amount)
      PROVE  VaultInv'
  BY <1>2 DEF fundFeeReserve, availableBalance
<1>3. ASSUME NEW amount \in Amount, releaseFeeReserve(sender, amount)
      PROVE  VaultInv'
  BY <1>3 DEF releaseFeeReserve
<1>4. ASSUME NEW amount \in Amount, setFeeReserveCap(sender, amount)
      PROVE  VaultInv'
  BY <1>4 DEF setFeeReserveCap
<1> QED
  BY <1>1, <1>2, <1>3, <1>4 DEF AmountStep

(* Controls and deposits keep the invariant.                                *)
LEMMA VaultOther ==
  ASSUME VaultInv,
         \/ \E sender \in Account : ControlStep(sender)
         \/ \E amount \in Amount : deposit(amount)
         \/ UNCHANGED vaultVars
  PROVE  VaultInv'
<1> USE VaultAssumption DEF VaultInv, TypeOK, SettledOnce, FeeReserveBacked,
                            ReserveWithinCap
<1>1. ASSUME NEW sender \in Account, ControlStep(sender)
      PROVE  VaultInv'
  BY <1>1 DEF ControlStep, setExecutor, setTokenMessenger, setPaused
<1>2. ASSUME NEW amount \in Amount, deposit(amount)
      PROVE  VaultInv'
  BY <1>2 DEF deposit, controls
<1>3. ASSUME UNCHANGED vaultVars
      PROVE  VaultInv'
  BY <1>3 DEF vaultVars
<1> QED
  BY <1>1, <1>2, <1>3

(* Every step of the vault keeps the invariant.                             *)
LEMMA VaultStep == VaultInv /\ [Next]_vaultVars => VaultInv'
<1> SUFFICES ASSUME VaultInv, [Next]_vaultVars
             PROVE  VaultInv'
  OBVIOUS
<1>1. ASSUME NEW sender \in Account, PayStep(sender)
      PROVE  VaultInv'
  BY <1>1, VaultPayout, VaultPayoutCrossChain DEF PayStep
<1>2. ASSUME NEW sender \in Account, AmountStep(sender)
      PROVE  VaultInv'
  BY <1>2, VaultAmount
<1> QED
  BY <1>1, <1>2, VaultOther DEF Next

(* The inductive invariant of the vault.                                    *)
LEMMA VaultInvariance == Spec => []VaultInv
  BY VaultInit, VaultStep, PTL DEF Spec

(* The vault's variables keep their types; with naturals this says that the *)
(* checked subtractions of the Solidity code never revert past the requires. *)
THEOREM VaultTypeCorrect == Spec => []TypeOK
<1>1. VaultInv => TypeOK
  BY DEF VaultInv
<1> QED
  BY <1>1, VaultInvariance, PTL

(* AgentTreasury.sol:50 for every vault: no request is settled twice, on    *)
(* either path or across both.                                              *)
THEOREM RequestsSettleOnce == Spec => []SettledOnce
<1>1. VaultInv => SettledOnce
  BY DEF VaultInv
<1> QED
  BY <1>1, VaultInvariance, PTL

(* AgentTreasury.sol:205 for every vault: what is reserved is held.         *)
THEOREM ReserveIsBacked == Spec => []FeeReserveBacked
<1>1. VaultInv => FeeReserveBacked
  BY DEF VaultInv
<1> QED
  BY <1>1, VaultInvariance, PTL

(* AgentTreasury.sol:55 for every vault: the reserve is bounded by its cap. *)
THEOREM ReserveIsBounded == Spec => []ReserveWithinCap
<1>1. VaultInv => ReserveWithinCap
  BY DEF VaultInv
<1> QED
  BY <1>1, VaultInvariance, PTL

(* A settlement is paid from the available balance, fees from the reserve,  *)
(* for every vault and every quote.                                         *)
THEOREM PrincipalIsSeparate == Spec => PrincipalFromAvailable
<1>1. VaultInv /\ [Next]_vaultVars => [PrincipalSeparate]_vaultVars
  <2> SUFFICES ASSUME VaultInv, Next, NEW s \in RequestId,
                      settled'[s] # settled[s]
               PROVE  balance' - feeReserve'
                        = (balance - feeReserve)
                            - Principal(settled'[s][Len(settled'[s])])
    BY DEF PrincipalSeparate
  <2>1. /\ settled \in [RequestId -> Seq(Settlement)]
        /\ balance \in Nat /\ feeReserve \in Nat
    BY DEF VaultInv, TypeOK
  <2>2. PICK sender \in Account : PayStep(sender)
    BY DEF Next, AmountStep, ControlStep, withdraw, fundFeeReserve,
           releaseFeeReserve, setFeeReserveCap, setExecutor,
           setTokenMessenger, setPaused, deposit
  <2>3. PICK r \in RequestId, recipient \in Recipient, amount \in Amount :
          \/ payout(sender, r, recipient, amount)
          \/ \E maxFee \in Fee : payoutCrossChain(sender, r, recipient, amount, maxFee)
    BY <2>2 DEF PayStep
  <2>4. amount \in Nat
    BY VaultAssumption
  <2>5. CASE payout(sender, r, recipient, amount)
    <3>1. Settle("direct", r, recipient, amount)
      BY <2>5 DEF payout
    <3>2. settled'[s][Len(settled'[s])]
            = [route |-> "direct", recipient |-> recipient, amount |-> amount]
      BY <2>1, <3>1, SettledRecord
    <3>3. balance' = (IF recipient = Self THEN balance ELSE balance - amount)
          /\ feeReserve' = feeReserve
      BY <2>5 DEF payout, AfterTransfer
    <3> QED
      BY <2>1, <2>4, <3>2, <3>3 DEF Principal
  <2>6. ASSUME NEW maxFee \in Fee,
               payoutCrossChain(sender, r, recipient, amount, maxFee)
        PROVE  balance' - feeReserve'
                 = (balance - feeReserve) - Principal(settled'[s][Len(settled'[s])])
    <3>1. Settle("cctp", r, recipient, amount)
      BY <2>6 DEF payoutCrossChain
    <3>2. settled'[s][Len(settled'[s])]
            = [route |-> "cctp", recipient |-> recipient, amount |-> amount]
      BY <2>1, <3>1, SettledRecord
    <3>3. /\ balance' = balance - (amount + maxFee)
          /\ feeReserve' = feeReserve - maxFee
          /\ maxFee \in Nat
      BY <2>6, VaultAssumption DEF payoutCrossChain
    <3> QED
      BY <2>1, <2>4, <3>2, <3>3 DEF Principal
  <2> QED
    BY <2>3, <2>5, <2>6
<1> QED
  BY <1>1, VaultInvariance, PTL DEF Spec, PrincipalFromAvailable
=============================================================================
