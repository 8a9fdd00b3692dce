---------------------------- MODULE ConsoleProofs ----------------------------
(***************************************************************************)
(* Theorems about Console, for every choice of its constants: any number   *)
(* of accounts, chains, caps and clicks, and whatever the owner changes    *)
(* between two awaits.                                                     *)
(*                                                                         *)
(* The invariant says, for each function under way, what it has captured   *)
(* and how far it is; the properties follow from what the signature over   *)
(* the captured setup and the session's check of it have in common.        *)
(***************************************************************************)
EXTENDS Console, SequenceTheorems, FiniteSetTheorems, TLAPS

NoTask == [pc : {"idle"}]
Signature == [signer : Account, on : Setup]
Accepted == [body : Setup, signed : Signature, session : Account]
SignedLogin == [pc : {"send"}, owner : Account, nonce : Nat, signer : Account]
Challenge == [owner : Account, nonce : Nat]
LoginPost == [owner : Account, nonce : Nat, signer : Account, cookie : Challenge \cup {None}]

LoginTask == NoTask \cup [pc : {"sign"}, owner : Account, nonce : Nat] \cup SignedLogin

ObtainTask ==
  [pc : {"switch", "wallet"}, kind : {"grant"}, owner : Account, chain : GrantChain,
   amount : Amount, active : Chain]
  \cup [pc : {"switch", "wallet", "receipt"}, kind : {"vault"}, owner : Account,
        chain : VaultChain, amount : Amount, active : Chain]

(* The stages of registerDelegation, by what they have obtained so far.     *)
Stage(pcs, nonces, signatures) ==
  [pc : pcs, owner : Account, form : Form, binding : Binding, active : Chain,
   nonce : nonces, signed : signatures]

RegisterTask ==
  Stage({"nonce"}, {None}, {None}) \cup Stage({"switch", "sign"}, Nat, {None})
  \cup Stage({"post"}, Nat, Signature)

Labelling(D) == [pc : {"label", "show"}, setup : D]
FundTask(D) == [pc : {"switch", "send"}, chain : Chain, vault : D, active : Chain]

Page(V, S) == [chain : Chain, form : Form, grant : Grant \cup {None},
               vault : V \cup {None}, key : S \cup {None}]

BrowserOK ==
  /\ wallet \in [account : Account \cup {NoAccount}, chain : Chain]
  /\ jar \in [nonce : Challenge \cup {None},
              session : Account \cup {NoAccount}]
  /\ page \in Page(DOMAIN vaults, DOMAIN setups)
  /\ clicks \in 0..MaxClicks /\ changes \in 0..MaxChanges

ObtainingOK ==
  /\ obtaining \in NoTask \cup ObtainTask
  /\ obtaining.pc = "receipt" => vaults # <<>>

(* What was signed is what was captured at the click.                       *)
RegisteringOK ==
  /\ registering \in NoTask \cup RegisterTask \cup Labelling(DOMAIN setups)
  /\ registering.pc = "post" => registering.signed.on = Captured(registering)

RecordsOK ==
  /\ vaults \in Seq([owner : Account, chain : VaultChain])
  /\ setups \in Seq(Accepted)
  /\ labels \in Seq(Account \cup {NoAccount}) /\ Len(labels) = Len(setups)

(* A repeated POST carries what some login posted, with its cookie.         *)
LoginsOK ==
  /\ login \in LoginTask
  /\ challenges \subseteq Challenge /\ posted \subseteq LoginPost

ConsoleInv ==
  /\ BrowserOK /\ ObtainingOK /\ RegisteringOK
  /\ funding \in NoTask \cup FundTask(DOMAIN vaults)
  /\ RecordsOK /\ LoginsOK /\ SetupAsSigned /\ GrantHonoured

-----------------------------------------------------------------------------
(* Appending keeps what is there and adds one place behind it.              *)
LEMMA Appended ==
  ASSUME NEW S, NEW s \in Seq(S), NEW e \in S
  PROVE  /\ Append(s, e) \in Seq(S) /\ Len(s) \in Nat /\ Append(s, e) # <<>>
         /\ DOMAIN s = 1..Len(s) /\ Len(Append(s, e)) = Len(s) + 1
         /\ DOMAIN Append(s, e) = DOMAIN s \cup {Len(s) + 1}
         /\ Len(s) + 1 \notin DOMAIN s
         /\ Append(s, e)[Len(s) + 1] = e
         /\ \A i \in DOMAIN s : Append(s, e)[i] = s[i]
<1>1. Len(s) \in Nat /\ DOMAIN s = 1..Len(s)
  BY LenProperties
<1>2. /\ Append(s, e) \in Seq(S) /\ Len(Append(s, e)) = Len(s) + 1
      /\ \A i \in 1..Len(s) : Append(s, e)[i] = s[i]
      /\ Append(s, e)[Len(s) + 1] = e
  BY AppendProperties
<1>3. DOMAIN Append(s, e) = 1..(Len(s) + 1)
  BY <1>2, LenProperties
<1>4. Append(s, e) # <<>>
  BY <1>1, <1>2, EmptySeq
<1>5. QED
  BY <1>1, <1>2, <1>3, <1>4

(* Every place of a sequence holds an element.                              *)
LEMMA Elements ==
  ASSUME NEW S, NEW s \in Seq(S)
  PROVE  \A i \in DOMAIN s : s[i] \in S
<1>1. \A i \in 1..Len(s) : s[i] \in S
  BY ElementOfSeq
<1>2. QED
  BY <1>1, LenProperties

(* The number of an owner's setups is a number.                             *)
LEMMA NonceIsNumber ==
  ASSUME RecordsOK, NEW a
  PROVE  owner_nonce(a) \in Nat
<1>1. Len(setups) \in Nat /\ DOMAIN setups = 1..Len(setups)
  BY LenProperties DEF RecordsOK
<1>2. IsFiniteSet(1..Len(setups))
  BY <1>1, FS_Interval
<1>3. {i \in DOMAIN setups : setups[i].body.owner = a} \subseteq 1..Len(setups)
  BY <1>1
<1>4. IsFiniteSet({i \in DOMAIN setups : setups[i].body.owner = a})
  BY <1>2, <1>3, FS_Subset
<1>5. QED
  BY <1>4, FS_CardinalityType DEF owner_nonce

(* What is bound at the click is a grant of a delegation's chain or a vault *)
(* that has been deployed.                                                  *)
LEMMA BindingTyped ==
  ASSUME BrowserOK, RecordsOK, CanRegister
  PROVE  binding \in Binding
<1>1. DOMAIN vaults \subseteq Nat
  BY LenProperties DEF RecordsOK
<1>2. CASE vaultSettled
  BY <1>1, <1>2 DEF BrowserOK, CanRegister, binding, Binding, Page, vaultSettled
<1>3. CASE ~vaultSettled
  BY <1>3 DEF BrowserOK, CanRegister, binding, Binding, Page
<1>4. QED
  BY <1>2, <1>3

(* A binding settles on a chain of the registry.                            *)
LEMMA BindingChainTyped ==
  ASSUME NEW b \in Binding
  PROVE  BindingChain(b) \in Chain
<1>1. CASE b \in [grant : Grant]
  BY <1>1 DEF BindingChain, Grant, Chain
<1>2. CASE b \in [vault : Nat, chain : VaultChain]
  <2>1. DOMAIN b = {"vault", "chain"}
    BY <1>2
  <2>2. QED
    BY <1>2, <2>1 DEF BindingChain, Chain
<1>3. QED
  BY <1>1, <1>2 DEF Binding

-----------------------------------------------------------------------------
(* What a step that leaves its variables alone keeps.                       *)
LEMMA Frames ==
  ASSUME ConsoleInv
  PROVE  /\ UNCHANGED <<wallet, jar, page, bounds, vaults, setups>> => BrowserOK'
         /\ UNCHANGED <<obtaining, vaults>> => ObtainingOK'
         /\ UNCHANGED <<registering, setups>> => RegisteringOK'
         /\ UNCHANGED <<funding, vaults>> => (funding \in NoTask \cup FundTask(DOMAIN vaults))'
         /\ UNCHANGED <<vaults, server>> => RecordsOK'
         /\ UNCHANGED setups => SetupAsSigned' /\ GrantHonoured'
         /\ UNCHANGED <<login, logins>> => LoginsOK'
<1>1. UNCHANGED <<wallet, jar, page, bounds, vaults, setups>> => BrowserOK'
  BY DEF ConsoleInv, BrowserOK, bounds
<1>2. UNCHANGED <<obtaining, vaults>> => ObtainingOK'
  BY DEF ConsoleInv, ObtainingOK
<1>3. UNCHANGED <<registering, setups>> => RegisteringOK'
  BY DEF ConsoleInv, RegisteringOK, Captured
<1>4. UNCHANGED <<funding, vaults>> => (funding \in NoTask \cup FundTask(DOMAIN vaults))'
  BY DEF ConsoleInv
<1>5. UNCHANGED <<vaults, server>> => RecordsOK'
  BY DEF ConsoleInv, RecordsOK, server
<1>6. UNCHANGED setups => SetupAsSigned' /\ GrantHonoured'
  BY DEF ConsoleInv, SetupAsSigned, GrantHonoured
<1>7. UNCHANGED <<login, logins>> => LoginsOK'
  BY DEF ConsoleInv, LoginsOK, logins
<1>8. QED
  BY <1>1, <1>2, <1>3, <1>4, <1>5, <1>6, <1>7

(* The initial states.                                                      *)
LEMMA ConsoleInvInit == ConsoleInit => ConsoleInv
<1> SUFFICES ASSUME ConsoleInit PROVE ConsoleInv
  OBVIOUS
<1> USE DEF ConsoleInit
<1>1. BrowserOK
  BY ConsoleAssumption DEF BrowserOK, FreshPage, Page
<1>2. /\ ObtainingOK /\ RegisteringOK
      /\ funding \in NoTask \cup FundTask(DOMAIN vaults)
  BY DEF ObtainingOK, RegisteringOK, NoTask, Idle
<1>3. RecordsOK
  BY EmptySeq DEF RecordsOK
<1>4. LoginsOK
  BY DEF LoginsOK, LoginTask, NoTask, Idle
<1>5. SetupAsSigned /\ GrantHonoured
  BY DEF SetupAsSigned, GrantHonoured
<1>6. QED
  BY <1>1, <1>2, <1>3, <1>4, <1>5 DEF ConsoleInv

-----------------------------------------------------------------------------
(* The wallet and the form in the owner's hands.                            *)
LEMMA OwnersHands ==
  ASSUME ConsoleInv,
         \/ \E a \in Account \cup {NoAccount} : SwitchAccount(a)
         \/ \E c \in Chain : SwitchNetwork(c) \/ SelectChain(c)
         \/ \E f \in Form : EditForm(f)
         \/ Reload \/ ExpireCookie \/ Logout
  PROVE  ConsoleInv'
<1> USE DEF Change
<1>1. changes \in Nat /\ clicks \in Nat /\ clicks' = clicks /\ changes' \in 0..MaxChanges
  BY ConsoleAssumption
  DEF ConsoleInv, BrowserOK, SwitchAccount, SwitchNetwork, SelectChain, EditForm, Reload,
      ExpireCookie, Logout
<1>2. /\ UNCHANGED <<vaults, setups, labels, login, posted>>
      /\ challenges' \subseteq challenges
      /\ \/ UNCHANGED <<obtaining, registering, funding>>
         \/ obtaining' = Idle /\ registering' = Idle /\ funding' = Idle
  BY DEF SwitchAccount, SwitchNetwork, SelectChain, EditForm, Reload, ExpireCookie, Logout,
         server, money, tasks, logins
<1>3. BrowserOK'
  <2>1. wallet' \in [account : Account \cup {NoAccount}, chain : Chain]
    BY DEF ConsoleInv, BrowserOK, SwitchAccount, SwitchNetwork, SelectChain, EditForm,
           Reload, ExpireCookie, Logout
  <2>2. jar' \in [nonce : Challenge \cup {None},
                  session : Account \cup {NoAccount}]
    <3> DEFINE N == Challenge \cup {None}
    <3> None \in N /\ jar \in [nonce : N, session : Account \cup {NoAccount}]
      BY DEF ConsoleInv, BrowserOK
    <3> HIDE DEF N
    <3>1. jar' \in [nonce : N, session : Account \cup {NoAccount}]
      BY DEF SwitchAccount, SwitchNetwork, SelectChain, EditForm, Reload, ExpireCookie,
             Logout
    <3>2. QED
      BY <3>1 DEF N
  <2>3. page' \in Page(DOMAIN vaults, DOMAIN setups)
    BY DEF ConsoleInv, BrowserOK, SwitchAccount, SwitchNetwork, SelectChain, EditForm,
           Reload, ExpireCookie, Logout, Page, FreshPage
  <2>4. QED
    BY <1>1, <1>2, <2>1, <2>2, <2>3 DEF ConsoleInv, BrowserOK
<1>4. ObtainingOK' /\ RegisteringOK' /\ (funding \in NoTask \cup FundTask(DOMAIN vaults))'
  <2>1. CASE UNCHANGED <<obtaining, registering, funding>>
    BY <1>2, <2>1, Frames
  <2>2. CASE obtaining' = Idle /\ registering' = Idle /\ funding' = Idle
    BY <2>2 DEF Idle, NoTask, ObtainingOK, RegisteringOK
  <2>3. QED
    BY <1>2, <2>1, <2>2
<1>5. RecordsOK' /\ SetupAsSigned' /\ GrantHonoured'
  BY <1>2, Frames DEF server
<1>6. LoginsOK'
  BY <1>2 DEF ConsoleInv, LoginsOK
<1>7. QED
  BY <1>3, <1>4, <1>5, <1>6 DEF ConsoleInv

(* Login, once or again: only cookies and logins change.                    *)
LEMMA LoginSteps ==
  ASSUME ConsoleInv, ClickLogin \/ LoginStep
  PROVE  ConsoleInv'
<1>1. /\ UNCHANGED <<wallet, page, obtaining, registering, funding, vaults, setups, labels>>
      /\ clicks' \in 0..MaxClicks /\ changes' \in 0..MaxChanges
      /\ clicks \in Nat
  BY ConsoleAssumption
  DEF ClickLogin, LoginStep, SignLogin, OpenSession, AbandonLogin, RepeatLogin, Click,
      Change, tasks, money, server, bounds, ConsoleInv, BrowserOK
<1>2. /\ ObtainingOK' /\ RegisteringOK' /\ (funding \in NoTask \cup FundTask(DOMAIN vaults))'
      /\ RecordsOK' /\ SetupAsSigned' /\ GrantHonoured'
  BY <1>1, Frames DEF server
<1>3. /\ login \in LoginTask /\ challenges \subseteq Challenge /\ posted \subseteq LoginPost
      /\ jar \in [nonce : Challenge \cup {None}, session : Account \cup {NoAccount}]
  BY DEF ConsoleInv, LoginsOK, BrowserOK
<1>4. SUFFICES /\ jar' \in [nonce : Challenge \cup {None},
                          session : Account \cup {NoAccount}]
               /\ LoginsOK'
  BY <1>1, <1>2 DEF ConsoleInv, BrowserOK
<1>5. ASSUME NEW post \in LoginPost, Answer(post)
      PROVE  jar' \in [nonce : Challenge \cup {None}, session : Account \cup {NoAccount}]
  BY <1>3, <1>5 DEF Answer, LoginPost
<1>6. CASE ClickLogin
  <2>1. wallet.account \in Account
    BY <1>6 DEF ClickLogin, ConsoleInv, BrowserOK
  <2> DEFINE challenge == [owner |-> wallet.account, nonce |-> clicks]
  <2>2. challenge \in Challenge
    BY <1>1, <2>1 DEF Challenge
  <2>3. /\ jar' = [jar EXCEPT !.nonce = challenge]
        /\ challenges' = challenges \cup {challenge} /\ posted' = posted
        /\ login' = [pc |-> "sign", owner |-> wallet.account, nonce |-> clicks]
    BY <1>6 DEF ClickLogin
  <2>4. login' \in LoginTask
    BY <1>1, <2>1, <2>3 DEF LoginTask
  <2> HIDE DEF challenge
  <2>5. QED
    BY <1>3, <2>2, <2>3, <2>4 DEF LoginsOK
<1>7. CASE SignLogin
  <2>1. /\ login.pc = "sign" /\ wallet.account \in Account
        /\ login' = [pc |-> "send", owner |-> login.owner, nonce |-> login.nonce,
                     signer |-> wallet.account]
        /\ UNCHANGED <<jar, challenges, posted>>
    BY <1>7 DEF SignLogin, ConsoleInv, BrowserOK, logins
  <2>2. login.owner \in Account /\ login.nonce \in Nat
    BY <1>3, <2>1 DEF LoginTask, NoTask, SignedLogin
  <2>3. login' \in LoginTask
    BY <2>1, <2>2 DEF LoginTask, SignedLogin
  <2>4. QED
    BY <1>3, <2>1, <2>3 DEF LoginsOK
<1>8. CASE OpenSession
  <2> DEFINE post == [owner |-> login.owner, nonce |-> login.nonce,
                      signer |-> login.signer, cookie |-> jar.nonce]
  <2>1. /\ login.pc = "send" /\ login' = Idle /\ Answer(post)
        /\ posted' = posted \cup {post} /\ challenges' = challenges
    BY <1>8 DEF OpenSession
  <2>2. login \in SignedLogin
    BY <1>3, <2>1 DEF LoginTask, NoTask, SignedLogin
  <2>3. post \in LoginPost
    BY <1>3, <2>2 DEF LoginPost, SignedLogin
  <2>4. login' \in LoginTask
    BY <2>1 DEF LoginTask, NoTask, Idle
  <2> HIDE DEF post
  <2>5. QED
    BY <1>3, <1>5, <2>1, <2>3, <2>4 DEF LoginsOK
<1>9. CASE AbandonLogin
  <2>1. login' = Idle /\ UNCHANGED <<jar, challenges, posted>>
    BY <1>9 DEF AbandonLogin, logins
  <2>2. login' \in LoginTask
    BY <2>1 DEF LoginTask, NoTask, Idle
  <2>3. QED
    BY <1>3, <2>1, <2>2 DEF LoginsOK
<1>10. ASSUME NEW post \in posted, RepeatLogin(post)
       PROVE  /\ jar' \in [nonce : Challenge \cup {None},
                          session : Account \cup {NoAccount}]
              /\ LoginsOK'
  BY <1>3, <1>5, <1>10 DEF RepeatLogin, LoginsOK, logins
<1>11. QED
  BY <1>6, <1>7, <1>8, <1>9, <1>10 DEF LoginStep

-----------------------------------------------------------------------------
(* Obtaining a grant or a vault, and funding: none touches a setup.         *)
LEMMA ObtainAndFund ==
  ASSUME ConsoleInv, ClickApprove \/ ClickDeploy \/ ObtainStep \/ ClickFund \/ FundStep
  PROVE  ConsoleInv'
<1> DEFINE Vault == [owner : Account, chain : VaultChain]
<1>1. /\ UNCHANGED <<setups, labels, registering, jar, login, challenges, posted>>
      /\ clicks' \in 0..MaxClicks /\ clicks' \in Nat /\ clicks' >= clicks
      /\ changes' \in 0..MaxChanges
  BY ConsoleAssumption
  DEF ClickApprove, ClickDeploy, Obtains, ObtainStep, SwitchToObtain, ClickFund, FundStep,
      requestWeeklyUsdcDelegation, deployAgentTreasuryVault, VaultReceipt, FailObtaining,
      SwitchToFund, fundVaultWithUsdc, FailFunding, Click, tasks, money, server, bounds,
      logins, ConsoleInv, BrowserOK
<1>2. RegisteringOK' /\ SetupAsSigned' /\ GrantHonoured' /\ LoginsOK'
  BY <1>1, Frames DEF logins
<1>3. /\ vaults \in Seq(Vault) /\ DOMAIN vaults = 1..Len(vaults) /\ Len(vaults) \in Nat
      /\ page \in Page(DOMAIN vaults, DOMAIN setups)
      /\ obtaining \in NoTask \cup ObtainTask
      /\ funding \in NoTask \cup FundTask(DOMAIN vaults)
      /\ wallet \in [account : Account \cup {NoAccount}, chain : Chain]
      /\ jar' \in [nonce : Challenge \cup {None},
                   session : Account \cup {NoAccount}]
  BY <1>1, LenProperties DEF ConsoleInv, RecordsOK, BrowserOK, ObtainingOK
<1>4. CASE ClickApprove \/ ClickDeploy
  <2>1. PICK kind \in {"grant", "vault"} :
          Obtains(kind) /\ (kind = "vault" <=> vaultSettled)
    <3>1. CASE ClickApprove
      BY <3>1, "grant" # "vault" DEF ClickApprove
    <3>2. CASE ClickDeploy
      BY <3>2 DEF ClickDeploy
    <3>3. QED
      BY <1>4, <3>1, <3>2
  <2>2. /\ UNCHANGED <<wallet, vaults, funding>>
        /\ page' = [page EXCEPT !.key = None] /\ wallet.account # NoAccount
        /\ obtaining' = [pc |-> "switch", kind |-> kind, owner |-> wallet.account,
                         chain |-> page.chain, amount |-> page.form.amount,
                         active |-> wallet.chain]
    BY <2>1 DEF Obtains, money
  <2>3. page' \in Page(DOMAIN vaults', DOMAIN setups')
    BY <1>1, <1>3, <2>2 DEF Page
  <2>4. /\ wallet.account \in Account /\ wallet.chain \in Chain /\ page.chain \in Chain
        /\ page.form.amount \in Amount
        /\ kind = "vault" <=> page.chain \in VaultChain
    BY <1>3, <2>1, <2>2 DEF Page, Form, vaultSettled
  <2>5. obtaining' \in ObtainTask /\ obtaining'.pc = "switch"
    <3>1. CASE kind = "vault"
      BY <2>2, <2>4, <3>1 DEF ObtainTask
    <3>2. CASE kind = "grant"
      <4>1. page.chain \in GrantChain
        BY <2>4, <3>2 DEF Chain
      <4>2. QED
        BY <2>2, <2>4, <3>2, <4>1 DEF ObtainTask
    <3>3. QED
      BY <3>1, <3>2
  <2>6. BrowserOK' /\ ObtainingOK'
    BY <1>1, <1>3, <2>2, <2>3, <2>5 DEF BrowserOK, ObtainingOK
  <2>7. RecordsOK' /\ (funding \in NoTask \cup FundTask(DOMAIN vaults))'
    BY <1>1, <2>2, Frames DEF server
  <2>8. QED
    BY <1>2, <2>6, <2>7 DEF ConsoleInv
<1>5. CASE SwitchToObtain
  <2>1. /\ obtaining.pc = "switch" /\ obtaining \in ObtainTask
        /\ obtaining' = [obtaining EXCEPT !.pc = "wallet"]
        /\ UNCHANGED <<page, vaults, funding>>
    BY <1>3, <1>5 DEF SwitchToObtain, NoTask, money
  <2>2. obtaining.chain \in Chain
    BY <2>1 DEF ObtainTask, Chain
  <2>3. wallet' \in [account : Account \cup {NoAccount}, chain : Chain]
    BY <1>3, <1>5, <2>2 DEF SwitchToObtain, switchAndConfirmChain, ensureChain
  <2>4. obtaining' \in ObtainTask /\ obtaining'.pc = "wallet"
    BY <2>1 DEF ObtainTask
  <2>5. BrowserOK' /\ ObtainingOK'
    BY <1>1, <1>3, <2>1, <2>3, <2>4 DEF BrowserOK, ObtainingOK
  <2>6. RecordsOK' /\ (funding \in NoTask \cup FundTask(DOMAIN vaults))'
    BY <1>1, <2>1, Frames DEF server
  <2>7. QED
    BY <1>2, <2>5, <2>6 DEF ConsoleInv
<1>6. CASE requestWeeklyUsdcDelegation
  <2>1. /\ obtaining.pc = "wallet" /\ obtaining.kind = "grant" /\ obtaining' = Idle
        /\ page' = [page EXCEPT !.grant = [owner |-> obtaining.owner,
                                           chain |-> obtaining.chain,
                                           amount |-> obtaining.amount]]
        /\ UNCHANGED <<wallet, vaults, funding>>
    BY <1>6 DEF requestWeeklyUsdcDelegation, money
  <2>2. [owner |-> obtaining.owner, chain |-> obtaining.chain,
         amount |-> obtaining.amount] \in Grant
    BY <1>3, <2>1 DEF NoTask, ObtainTask, Grant
  <2>3. page' \in Page(DOMAIN vaults', DOMAIN setups')
    <3> HIDE DEF Vault
    <3>1. QED
      BY <1>1, <1>3, <2>1, <2>2 DEF Page
  <2>4. BrowserOK' /\ ObtainingOK'
    BY <1>1, <1>3, <2>1, <2>3 DEF BrowserOK, ObtainingOK, NoTask, Idle
  <2>5. RecordsOK' /\ (funding \in NoTask \cup FundTask(DOMAIN vaults))'
    BY <1>1, <2>1, Frames DEF server
  <2>6. QED
    BY <1>2, <2>4, <2>5 DEF ConsoleInv
<1>7. CASE deployAgentTreasuryVault
  <2> DEFINE new == [owner |-> wallet.account, chain |-> obtaining.chain]
  <2>1. /\ obtaining.pc = "wallet" /\ obtaining.kind = "vault"
        /\ wallet.account \in Account
        /\ vaults' = Append(vaults, new)
        /\ obtaining' = [obtaining EXCEPT !.pc = "receipt"]
        /\ UNCHANGED <<wallet, page, funding>>
    BY <1>3, <1>7 DEF deployAgentTreasuryVault
  <2>2. obtaining.chain \in VaultChain
    BY <1>3, <2>1 DEF NoTask, ObtainTask
  <2>3. new \in Vault
    BY <2>1, <2>2
  <2>4. /\ vaults' \in Seq(Vault) /\ vaults' # <<>>
        /\ DOMAIN vaults' = DOMAIN vaults \cup {Len(vaults) + 1}
    <3> HIDE DEF Vault, new
    <3>1. QED
      BY <1>3, <2>1, <2>3, Appended
  <2>5. obtaining' \in ObtainTask
    BY <1>3, <2>1 DEF NoTask, ObtainTask
  <2>6. page' \in Page(DOMAIN vaults', DOMAIN setups')
    BY <1>1, <1>3, <2>1, <2>4 DEF Page
  <2>7. BrowserOK' /\ ObtainingOK'
    BY <1>1, <1>3, <2>1, <2>4, <2>5, <2>6 DEF BrowserOK, ObtainingOK
  <2>8. RecordsOK'
    BY <1>1, <2>4 DEF RecordsOK, ConsoleInv
  <2>9. (funding \in NoTask \cup FundTask(DOMAIN vaults))'
    BY <1>3, <2>1, <2>4 DEF FundTask
  <2>10. QED
    BY <1>2, <2>7, <2>8, <2>9 DEF ConsoleInv
<1>8. CASE VaultReceipt
  <2>1. /\ obtaining.pc = "receipt" /\ obtaining' = Idle
        /\ page' = [page EXCEPT !.vault = Len(vaults), !.grant = None]
        /\ UNCHANGED <<wallet, vaults, funding>>
    BY <1>8 DEF VaultReceipt, money
  <2>2. Len(vaults) \in DOMAIN vaults
    <3>1. vaults # <<>>
      BY <2>1 DEF ConsoleInv, ObtainingOK
    <3>2. Len(vaults) > 0
      BY <1>3, <3>1, EmptySeq
    <3>3. QED
      BY <1>3, <3>2
  <2>3. page' \in Page(DOMAIN vaults', DOMAIN setups')
    BY <1>1, <1>3, <2>1, <2>2 DEF Page
  <2>4. BrowserOK' /\ ObtainingOK'
    BY <1>1, <1>3, <2>1, <2>3 DEF BrowserOK, ObtainingOK, NoTask, Idle
  <2>5. RecordsOK' /\ (funding \in NoTask \cup FundTask(DOMAIN vaults))'
    BY <1>1, <2>1, Frames DEF server
  <2>6. QED
    BY <1>2, <2>4, <2>5 DEF ConsoleInv
<1>9. CASE FailObtaining
  <2>1. obtaining' = Idle /\ UNCHANGED <<wallet, page, vaults, funding, jar, clicks, changes>>
    BY <1>9 DEF FailObtaining, money, bounds
  <2>2. BrowserOK' /\ ObtainingOK' /\ RecordsOK'
        /\ (funding \in NoTask \cup FundTask(DOMAIN vaults))'
    BY <1>1, <2>1, Frames DEF ObtainingOK, NoTask, Idle, server, bounds
  <2>3. QED
    BY <1>2, <2>2 DEF ConsoleInv
<1>10. CASE ClickFund \/ FundStep
  <2>1. /\ UNCHANGED <<page, vaults, obtaining>>
        /\ wallet' \in [account : Account \cup {NoAccount}, chain : Chain]
        /\ funding' \in NoTask \cup FundTask(DOMAIN vaults)
    <3>1. CASE ClickFund
      <4>1. /\ page.chain \in Chain /\ page.vault \in DOMAIN vaults
            /\ wallet.chain \in Chain
        BY <1>3, <3>1 DEF ClickFund, Page
      <4>2. QED
        BY <1>3, <3>1, <4>1 DEF ClickFund, FundTask, money
    <3>2. CASE SwitchToFund
      <4>1. funding.pc = "switch" /\ funding \in FundTask(DOMAIN vaults)
        BY <1>3, <3>2 DEF SwitchToFund, NoTask
      <4>2. funding' \in FundTask(DOMAIN vaults) /\ funding.chain \in Chain
        BY <3>2, <4>1 DEF SwitchToFund, FundTask
      <4>3. QED
        BY <1>3, <3>2, <4>2 DEF SwitchToFund, ensureChain, money
    <3>3. CASE fundVaultWithUsdc \/ FailFunding
      BY <1>3, <3>3 DEF fundVaultWithUsdc, FailFunding, NoTask, Idle, money
    <3>4. QED
      BY <1>10, <3>1, <3>2, <3>3 DEF FundStep
  <2>2. BrowserOK'
    BY <1>1, <1>3, <2>1 DEF BrowserOK
  <2>3. ObtainingOK' /\ RecordsOK'
    BY <1>1, <2>1, Frames DEF server
  <2>4. QED
    BY <1>2, <2>1, <2>2, <2>3 DEF ConsoleInv
<1>11. QED
  BY <1>4, <1>5, <1>6, <1>7, <1>8, <1>9, <1>10 DEF ObtainStep

-----------------------------------------------------------------------------
(* registerDelegation, stage by stage, up to the post.                      *)
LEMMA Registration ==
  ASSUME ConsoleInv,
         \/ ClickRegister \/ FetchNonce \/ SwitchToSign \/ SignSetup
         \/ FailRegistering \/ ShowKey \/ SaveLabel
  PROVE  ConsoleInv'
<1>1. /\ UNCHANGED <<vaults, setups, obtaining, funding, jar, login, challenges, posted>>
      /\ clicks' \in 0..MaxClicks /\ clicks' \in Nat /\ clicks' >= clicks
      /\ changes' \in 0..MaxChanges
  BY ConsoleAssumption
  DEF ClickRegister, FetchNonce, SwitchToSign, SignSetup, FailRegistering, ShowKey,
      SaveLabel, Register, Click, money, server, bounds, logins, ConsoleInv,
      BrowserOK
<1>2. /\ SetupAsSigned' /\ GrantHonoured' /\ LoginsOK' /\ ObtainingOK'
      /\ (funding \in NoTask \cup FundTask(DOMAIN vaults))'
  BY <1>1, Frames DEF logins
<1>3. /\ page \in Page(DOMAIN vaults, DOMAIN setups)
      /\ registering \in NoTask \cup RegisterTask \cup Labelling(DOMAIN setups)
      /\ wallet \in [account : Account \cup {NoAccount}, chain : Chain]
      /\ jar \in [nonce : Challenge \cup {None},
                  session : Account \cup {NoAccount}]
      /\ RecordsOK /\ BrowserOK
      /\ labels \in Seq(Account \cup {NoAccount}) /\ Len(labels) = Len(setups)
  BY DEF ConsoleInv, RecordsOK, BrowserOK, RegisteringOK
<1>4. CASE ClickRegister
  <2>1. /\ CanRegister /\ UNCHANGED <<wallet, page, labels>>
        /\ registering' = [pc |-> "nonce", owner |-> wallet.account, form |-> page.form,
                           binding |-> binding, active |-> wallet.chain,
                           nonce |-> None, signed |-> None]
    BY <1>4 DEF ClickRegister, server
  <2>2. binding \in Binding
    BY <1>3, <2>1, BindingTyped
  <2>3. wallet.account \in Account /\ wallet.chain \in Chain /\ page.form \in Form
    BY <1>3, <2>1 DEF CanRegister, Page
  <2>4. registering' \in Stage({"nonce"}, {None}, {None}) /\ registering'.pc # "post"
    BY <2>1, <2>2, <2>3 DEF Stage
  <2>5. RegisteringOK'
    BY <2>4 DEF RegisteringOK, RegisterTask
  <2>6. BrowserOK' /\ RecordsOK'
    BY <1>1, <1>3, <2>1, Frames DEF BrowserOK, server
  <2>7. QED
    BY <1>2, <2>5, <2>6 DEF ConsoleInv
<1>5. CASE FetchNonce
  <2>1. /\ registering.pc = "nonce" /\ UNCHANGED <<wallet, page, labels>>
        /\ registering' = [registering EXCEPT !.pc = "switch",
                                              !.nonce = owner_nonce(jar.session)]
    BY <1>5 DEF FetchNonce, Register, server
  <2>2. registering \in Stage({"nonce"}, {None}, {None})
    BY <1>3, <2>1 DEF NoTask, RegisterTask, Labelling, Stage
  <2>3. owner_nonce(jar.session) \in Nat
    BY <1>3, NonceIsNumber
  <2>4. registering' \in Stage({"switch", "sign"}, Nat, {None}) /\ registering'.pc = "switch"
    BY <2>1, <2>2, <2>3 DEF Stage
  <2>5. RegisteringOK'
    BY <2>4 DEF RegisteringOK, RegisterTask
  <2>6. BrowserOK' /\ RecordsOK'
    BY <1>1, <1>3, <2>1, Frames DEF BrowserOK, server
  <2>7. QED
    BY <1>2, <2>5, <2>6 DEF ConsoleInv
<1>6. CASE SwitchToSign
  <2>1. /\ registering.pc = "switch" /\ UNCHANGED <<page, labels>>
        /\ registering' = [registering EXCEPT !.pc = "sign"]
    BY <1>6 DEF SwitchToSign, Register, server
  <2>2. registering \in Stage({"switch", "sign"}, Nat, {None})
    BY <1>3, <2>1 DEF NoTask, RegisterTask, Labelling, Stage
  <2>3. registering' \in Stage({"switch", "sign"}, Nat, {None}) /\ registering'.pc = "sign"
    BY <2>1, <2>2 DEF Stage
  <2>4. RegisteringOK'
    BY <2>3 DEF RegisteringOK, RegisterTask
  <2>5. BindingChain(registering.binding) \in Chain
    BY <2>2, BindingChainTyped DEF Stage
  <2>6. wallet' \in [account : Account \cup {NoAccount}, chain : Chain]
    BY <1>3, <1>6, <2>5 DEF SwitchToSign, ensureChain
  <2>7. BrowserOK' /\ RecordsOK'
    BY <1>1, <1>3, <2>1, <2>6, Frames DEF BrowserOK, server
  <2>8. QED
    BY <1>2, <2>4, <2>7 DEF ConsoleInv
<1>7. CASE SignSetup
  <2> DEFINE on == Captured(registering)
             signed == [signer |-> wallet.account, on |-> on]
  <2>1. /\ registering.pc = "sign" /\ wallet.account # NoAccount
        /\ UNCHANGED <<wallet, page, labels>>
        /\ registering' = [registering EXCEPT !.pc = "post", !.signed = signed]
    BY <1>7 DEF SignSetup, Register, server
  <2>2. registering \in Stage({"switch", "sign"}, Nat, {None})
    BY <1>3, <2>1 DEF NoTask, RegisterTask, Labelling, Stage
  <2>3. on \in Setup
    BY <2>2 DEF Captured, Setup, Stage
  <2>4. signed \in Signature
    BY <1>3, <2>1, <2>3 DEF Signature
  <2>5. registering' \in Stage({"post"}, Nat, Signature) /\ registering'.signed = signed
    <3> HIDE DEF signed
    <3>1. QED
      BY <2>1, <2>2, <2>4 DEF Stage
  <2>6. Captured(registering)' = Captured(registering)
    BY <2>1, <2>2 DEF Captured, Stage
  <2>7. RegisteringOK'
    BY <2>5, <2>6 DEF RegisteringOK, RegisterTask
  <2>8. BrowserOK' /\ RecordsOK'
    BY <1>1, <1>3, <2>1, Frames DEF BrowserOK, server
  <2>9. QED
    BY <1>2, <2>7, <2>8 DEF ConsoleInv
<1>8. CASE FailRegistering
  <2>1. registering' = Idle /\ UNCHANGED <<wallet, page, labels>>
    BY <1>8 DEF FailRegistering, Register, server
  <2>2. RegisteringOK'
    BY <2>1 DEF RegisteringOK, NoTask, Idle
  <2>3. BrowserOK' /\ RecordsOK'
    BY <1>1, <1>3, <2>1, Frames DEF BrowserOK, server
  <2>4. QED
    BY <1>2, <2>2, <2>3 DEF ConsoleInv
<1>9. CASE SaveLabel
  <2>1. /\ registering.pc = "label" /\ UNCHANGED <<wallet, page>>
        /\ registering' = [registering EXCEPT !.pc = "show"]
        /\ labels' \in {labels, [labels EXCEPT ![registering.setup] = jar.session]}
    BY <1>9 DEF SaveLabel, Register
  <2>2. registering \in Labelling(DOMAIN setups)
    BY <1>3, <2>1 DEF NoTask, RegisterTask, Labelling, Stage
  <2>3. registering' \in Labelling(DOMAIN setups') /\ registering'.pc = "show"
    BY <1>1, <2>1, <2>2 DEF Labelling
  <2>4. RegisteringOK'
    BY <2>3 DEF RegisteringOK
  <2>5. labels' \in Seq(Account \cup {NoAccount}) /\ Len(labels') = Len(labels)
    <3>1. CASE labels' = labels
      BY <1>3, <3>1
    <3>2. CASE labels' = [labels EXCEPT ![registering.setup] = jar.session]
      <4>1. registering.setup \in 1..Len(labels)
        BY <1>3, <2>2, LenProperties DEF RecordsOK, Labelling
      <4>2. jar.session \in Account \cup {NoAccount}
        BY <1>3
      <4>3. QED
        BY <1>3, <3>2, <4>1, <4>2, ExceptSeq
    <3>3. QED
      BY <2>1, <3>1, <3>2
  <2>6. RecordsOK' /\ BrowserOK'
    BY <1>1, <1>3, <2>1, <2>5 DEF RecordsOK, BrowserOK
  <2>7. QED
    BY <1>2, <2>4, <2>6 DEF ConsoleInv
<1>10. CASE ShowKey
  <2>1. /\ registering.pc = "show" /\ registering' = Idle /\ UNCHANGED <<wallet, labels>>
        /\ page' = [page EXCEPT !.key = registering.setup]
    BY <1>10 DEF ShowKey, server
  <2>2. registering.setup \in DOMAIN setups
    BY <1>3, <2>1 DEF NoTask, RegisterTask, Labelling, Stage
  <2>3. page' \in Page(DOMAIN vaults', DOMAIN setups')
    BY <1>1, <1>3, <2>1, <2>2 DEF Page
  <2>4. BrowserOK' /\ RegisteringOK' /\ RecordsOK'
    BY <1>1, <1>3, <2>1, <2>3, Frames DEF BrowserOK, RegisteringOK, NoTask, Idle, server
  <2>5. QED
    BY <1>2, <2>4 DEF ConsoleInv
<1>11. QED
  BY <1>4, <1>5, <1>6, <1>7, <1>8, <1>9, <1>10

(* The post: what the server accepts was captured, signed and posted for    *)
(* the owner of the session.                                                *)
LEMMA Posting ==
  ASSUME ConsoleInv, PostSetup
  PROVE  ConsoleInv'
<1> DEFINE body == BodyOf(registering)
           new == [body |-> body, signed |-> registering.signed, session |-> jar.session]
<1>1. /\ UNCHANGED <<wallet, page, vaults, obtaining, funding, jar, login,
                     challenges, posted, clicks, changes>>
      /\ clicks \in Nat /\ registering.pc = "post"
  BY ConsoleAssumption
  DEF PostSetup, Register, money, bounds, logins, ConsoleInv, BrowserOK
<1>2. /\ LoginsOK' /\ ObtainingOK'
      /\ (funding \in NoTask \cup FundTask(DOMAIN vaults))'
  BY <1>1, Frames DEF logins
<1>3. CASE ~Accepts(body, registering.signed)
  <2>1. registering' = Idle /\ UNCHANGED <<setups, labels>>
    BY <1>3 DEF PostSetup, Register, server
  <2>2. RegisteringOK'
    BY <2>1 DEF RegisteringOK, NoTask, Idle
  <2>3. BrowserOK' /\ RecordsOK' /\ SetupAsSigned' /\ GrantHonoured'
    BY <1>1, <2>1, Frames DEF server, bounds
  <2>4. QED
    BY <1>2, <2>2, <2>3 DEF ConsoleInv
<1>4. CASE Accepts(body, registering.signed)
  <2>1. /\ setups' = Append(setups, new) /\ labels' = Append(labels, NoAccount)
        /\ registering' = [pc |-> "label", setup |-> Len(setups')]
    BY <1>4 DEF PostSetup, Register
  <2>2. registering \in Stage({"post"}, Nat, Signature)
    BY <1>1 DEF ConsoleInv, RegisteringOK, NoTask, RegisterTask, Labelling, Stage
  <2>3. body \in Setup /\ registering.signed \in Signature /\ registering.signed.on = body
    BY <1>1, <2>2 DEF BodyOf, Captured, Setup, Stage, ConsoleInv, RegisteringOK
  <2>4. /\ jar.session \in Account /\ registering.signed.signer = jar.session
        /\ registering.signed.on = [body EXCEPT !.owner = jar.session]
        /\ validateDelegationGrant(jar.session, body)
    BY <1>4 DEF Accepts, ConsoleInv, BrowserOK
  <2>5. body.owner = jar.session
    BY <2>3, <2>4 DEF Setup
  <2>6. new \in Accepted
    BY <2>3, <2>4 DEF Accepted
  <2>7. /\ setups \in Seq(Accepted) /\ Len(labels) = Len(setups)
        /\ labels \in Seq(Account \cup {NoAccount})
    BY DEF ConsoleInv, RecordsOK
  <2>8. /\ setups' \in Seq(Accepted) /\ Len(setups) \in Nat
        /\ DOMAIN setups' = DOMAIN setups \cup {Len(setups) + 1}
        /\ setups'[Len(setups) + 1] = new /\ Len(setups') = Len(setups) + 1
        /\ \A i \in DOMAIN setups : setups'[i] = setups[i]
    <3> HIDE DEF new
    <3>1. QED
      BY <2>1, <2>6, <2>7, Appended
  <2>9. /\ labels' \in Seq(Account \cup {NoAccount}) /\ Len(labels') = Len(labels) + 1
    BY <2>1, <2>7, Appended
  <2>10. RecordsOK'
    BY <1>1, <2>7, <2>8, <2>9 DEF ConsoleInv, RecordsOK
  <2>11. RegisteringOK'
    BY <2>1, <2>8 DEF RegisteringOK, Labelling
  <2>12. BrowserOK'
    BY <1>1, <2>8 DEF ConsoleInv, BrowserOK, Page
  <2>13. SetupAsSigned'
    <3>1. \A i \in DOMAIN setups :
            /\ setups[i].signed.on = setups[i].body
            /\ setups[i].signed.signer = setups[i].session
            /\ setups[i].body.owner = setups[i].session
      BY DEF ConsoleInv, SetupAsSigned
    <3>2. /\ new.signed.on = new.body /\ new.signed.signer = new.session
          /\ new.body.owner = new.session
      BY <2>3, <2>4, <2>5
    <3> HIDE DEF new
    <3>3. QED
      BY <2>8, <3>1, <3>2 DEF SetupAsSigned
  <2>14. GrantHonoured'
    BY <2>4, <2>8 DEF ConsoleInv, GrantHonoured, validateDelegationGrant
  <2>15. QED
    BY <1>2, <2>10, <2>11, <2>12, <2>13, <2>14 DEF ConsoleInv
<1>5. QED
  BY <1>3, <1>4

-----------------------------------------------------------------------------
(* The invariant is inductive.                                              *)
LEMMA ConsoleInvStep == ConsoleInv /\ [ConsoleNext]_consoleVars => ConsoleInv'
<1> SUFFICES ASSUME ConsoleInv, [ConsoleNext]_consoleVars PROVE ConsoleInv'
  OBVIOUS
<1>1. CASE OwnerStep
  BY <1>1, OwnersHands, LoginSteps, ObtainAndFund, Registration DEF OwnerStep
<1>2. CASE LoginStep
  BY <1>2, LoginSteps
<1>3. CASE ObtainStep \/ FundStep
  BY <1>3, ObtainAndFund
<1>4. CASE RegisterStep
  BY <1>4, Registration, Posting DEF RegisterStep
<1>5. CASE UNCHANGED consoleVars
  <2>1. UNCHANGED <<wallet, jar, login, page, obtaining, registering, funding, vaults,
                    setups, labels, challenges, posted, clicks, changes>>
    BY <1>5 DEF consoleVars, tasks, money, server, logins, bounds
  <2>2. QED
    BY <2>1, Frames DEF ConsoleInv, server, logins, bounds
<1>6. QED
  BY <1>1, <1>2, <1>3, <1>4, <1>5 DEF ConsoleNext

(* The invariant of the page holds throughout.                              *)
LEMMA ConsoleInvariance == ConsoleSpec => []ConsoleInv
BY ConsoleInvInit, ConsoleInvStep, PTL DEF ConsoleSpec

(* The page, the wallet, the cookies and what the server has accepted have  *)
(* their types: the vault the page names has been deployed and the key it   *)
(* shows belongs to a setup that was accepted.                              *)
THEOREM ConsoleTypeCorrect == ConsoleSpec => []ConsoleTypeOK
<1>1. ConsoleInv => ConsoleTypeOK
  <2> SUFFICES ASSUME ConsoleInv PROVE ConsoleTypeOK
    OBVIOUS
  <2>1. /\ \A i \in DOMAIN vaults : vaults[i] \in [owner : Account, chain : VaultChain]
        /\ \A i \in DOMAIN setups : setups[i] \in Accepted
        /\ \A i \in DOMAIN labels : labels[i] \in Account \cup {NoAccount}
    BY Elements DEF ConsoleInv, RecordsOK
  <2>2. labels \in [DOMAIN setups -> Account \cup {NoAccount}]
    <3>1. /\ DOMAIN labels = DOMAIN setups
          /\ labels \in [1..Len(labels) -> Account \cup {NoAccount}]
      BY LenProperties DEF ConsoleInv, RecordsOK
    <3>2. QED
      BY <2>1, <3>1, LenProperties DEF ConsoleInv, RecordsOK
  <2>3. QED
    BY <2>1, <2>2 DEF ConsoleInv, BrowserOK, ConsoleTypeOK, Page, Accepted
<1>2. QED
  BY <1>1, ConsoleInvariance, PTL

(* Every setup the server accepted was signed, as it was posted, by the     *)
(* account of the session, which becomes its owner.                         *)
THEOREM SetupsAreSigned == ConsoleSpec => []SetupAsSigned
<1>1. ConsoleInv => SetupAsSigned
  BY DEF ConsoleInv
<1>2. QED
  BY <1>1, ConsoleInvariance, PTL

(* The page posts the setup it had signed, whatever was edited meanwhile.   *)
THEOREM PostIsSigned == ConsoleSpec => []PostsWhatWasSigned
<1>1. ConsoleInv => PostsWhatWasSigned
  BY DEF ConsoleInv, RegisteringOK, PostsWhatWasSigned, BodyOf
<1>2. QED
  BY <1>1, ConsoleInvariance, PTL

(* The allowance behind every accepted delegation is the signer's own and   *)
(* exactly the cap of the policy.                                           *)
THEOREM GrantsAreHonoured == ConsoleSpec => []GrantHonoured
<1>1. ConsoleInv => GrantHonoured
  BY DEF ConsoleInv
<1>2. QED
  BY <1>1, ConsoleInvariance, PTL
=============================================================================
