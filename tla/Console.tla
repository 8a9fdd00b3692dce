------------------------------- MODULE Console -------------------------------
(***************************************************************************)
(* The owner's browser: the login that opens a session, and the setup page *)
(* on which the owner approves a delegation or deploys a vault, signs the  *)
(* setup, funds the vault and is shown the agent's key.                    *)
(*                                                                         *)
(* A click starts an asynchronous function which keeps what the page       *)
(* showed when it was clicked (a React closure).  Between two awaits the   *)
(* owner may switch the wallet's account or network, choose another chain, *)
(* edit the form, log in as somebody else in another tab or reload the     *)
(* page: SetupProgressModal covers the page but keeps the keyboard in it.  *)
(* The cookies belong to the browser, the form to the page.                *)
(*                                                                         *)
(* The server's side of setup is one step here; module Setup has its parts.*)
(***************************************************************************)
EXTENDS Naturals, Sequences, FiniteSets, SequencesExt

CONSTANTS
  Account,      \* accounts of the owner's wallet
  NoAccount,
  Agent,        \* addresses typed as the agent's
  GrantChain,   \* chains that settle through a delegation
  VaultChain,   \* chains that settle through a vault
  Served,       \* the chains on which the server accepts a delegation
  Amount,       \* weekly caps
  None,
  MaxClicks,    \* bound on the functions started
  MaxChanges    \* bound on what else the owner does meanwhile

Chain == GrantChain \cup VaultChain

ASSUME ConsoleAssumption ==
  /\ GrantChain \cap VaultChain = {} /\ Served \subseteq GrantChain
  /\ NoAccount \notin Account
  /\ MaxClicks \in Nat /\ MaxChanges \in Nat

VARIABLES
  wallet,       \* the wallet's active account and network
  jar,          \* the browser's cookies
  challenges,   \* login challenges made less than five minutes ago
  login,        \* OwnerAuthButton in another tab
  posted,       \* logins posted, each with the cookie it carried
  page,         \* the state of the setup page
  obtaining,    \* approveDelegation or deployVault under way
  registering,  \* registerDelegation under way
  funding,      \* VaultFunding's fund under way
  vaults,       \* the vaults deployed, by number
  setups,       \* the setups the server has accepted, by number
  labels,       \* agent_labels: for each setup the owner who named it
  transfers,    \* history: USDC sent to vaults
  clicks, changes

server == <<setups, labels>>
money == <<vaults, transfers>>
tasks == <<obtaining, registering, funding>>
logins == <<challenges, posted>>
bounds == <<clicks, changes>>
consoleVars == <<wallet, jar, login, page, tasks, money, server, logins, bounds>>

Grant == [owner : Account, chain : GrantChain, amount : Amount]
Form == [agent : Agent, amount : Amount]
Binding == [grant : Grant] \cup [vault : Nat, chain : VaultChain]
BindingChain(b) == IF "grant" \in DOMAIN b THEN b.grant.chain ELSE b.chain

(* What the wallet signs (ownerActions.ts) and what the page posts.         *)
Setup == [owner : Account, form : Form, binding : Binding, nonce : Nat]

Idle == [pc |-> "idle"]
Running(task) == task.pc # "idle"
vaultSettled == page.chain \in VaultChain

FreshPage(chain, form) ==
  [chain |-> chain, form |-> form, grant |-> None, vault |-> None, key |-> None]

ConsoleTypeOK ==
  /\ wallet \in [account : Account \cup {NoAccount}, chain : Chain]
  /\ jar.session \in Account \cup {NoAccount}
  /\ page.chain \in Chain /\ page.form \in Form
  /\ page.grant \in Grant \cup {None}
  /\ page.vault \in DOMAIN vaults \cup {None}
  /\ page.key \in DOMAIN setups \cup {None}
  /\ \A i \in DOMAIN vaults : vaults[i] \in [owner : Account, chain : VaultChain]
  /\ \A i \in DOMAIN setups : setups[i].body \in Setup
  /\ labels \in [DOMAIN setups -> Account \cup {NoAccount}]
  /\ clicks \in 0..MaxClicks /\ changes \in 0..MaxChanges

ConsoleInit ==
  /\ \E a \in Account, c \in Chain : wallet = [account |-> a, chain |-> c]
  /\ jar = [nonce |-> None, session |-> NoAccount]
  /\ login = Idle /\ obtaining = Idle /\ registering = Idle /\ funding = Idle
  /\ \E c \in Chain, f \in Form : page = FreshPage(c, f)
  /\ vaults = <<>> /\ setups = <<>> /\ labels = <<>>
  /\ challenges = {} /\ posted = {} /\ transfers = <<>>
  /\ clicks = 0 /\ changes = 0

Click == clicks < MaxClicks /\ clicks' = clicks + 1 /\ UNCHANGED changes
Change == changes < MaxChanges /\ changes' = changes + 1 /\ UNCHANGED clicks

-----------------------------------------------------------------------------
(* The wallet and the form in the owner's hands.                            *)
SwitchAccount(a) ==
  /\ Change /\ a # wallet.account
  /\ wallet' = [wallet EXCEPT !.account = a]
  /\ UNCHANGED <<jar, login, page, tasks, money, server, logins>>

SwitchNetwork(c) ==
  /\ Change /\ c # wallet.chain
  /\ wallet' = [wallet EXCEPT !.chain = c]
  /\ UNCHANGED <<jar, login, page, tasks, money, server, logins>>

(* Choosing a chain forgets the grant, the vault and the key.               *)
SelectChain(c) ==
  /\ Change /\ c # page.chain
  /\ page' = FreshPage(c, page.form)
  /\ UNCHANGED <<wallet, jar, login, tasks, money, server, logins>>

(* Editing the agent or the cap does not.                                   *)
EditForm(f) ==
  /\ Change /\ f # page.form
  /\ page' = [page EXCEPT !.form = f]
  /\ UNCHANGED <<wallet, jar, login, tasks, money, server, logins>>

(* What was clicked before the reload is forgotten with the page.           *)
Reload ==
  /\ Change
  /\ \E c \in Chain : page' = FreshPage(c, page.form)
  /\ obtaining' = Idle /\ registering' = Idle /\ funding' = Idle
  /\ UNCHANGED <<wallet, jar, login, money, server, logins>>

(* The session or a login challenge runs out, in the jar and at the server. *)
ExpireCookie ==
  /\ Change
  /\ \/ /\ jar' = [jar EXCEPT !.session = NoAccount]
        /\ UNCHANGED challenges
     \/ \E c \in challenges :
          /\ challenges' = challenges \ {c}
          /\ jar' = [jar EXCEPT !.nonce = IF @ = c THEN None ELSE @]
  /\ UNCHANGED <<wallet, login, posted, page, tasks, money, server>>

-----------------------------------------------------------------------------
(* Login: a challenge for the account shown, a signature of whatever        *)
(* account the wallet is on by then, and the session.  A challenge is the   *)
(* cookie that carries it: the server keeps none.                           *)
ClickLogin ==
  /\ Click /\ ~Running(login) /\ wallet.account # NoAccount
  /\ LET challenge == [owner |-> wallet.account, nonce |-> clicks]
     IN  /\ challenges' = challenges \cup {challenge}
         /\ jar' = [jar EXCEPT !.nonce = challenge]
         /\ login' = [pc |-> "sign", owner |-> wallet.account, nonce |-> clicks]
  /\ UNCHANGED <<wallet, posted, page, tasks, money, server>>

SignLogin ==
  /\ login.pc = "sign" /\ wallet.account # NoAccount
  /\ login' = [pc |-> "send", owner |-> login.owner, nonce |-> login.nonce,
               signer |-> wallet.account]
  /\ UNCHANGED <<wallet, jar, page, tasks, money, server, logins, bounds>>

(* The cookie is one the server made (its HMAC) and has not run out.        *)
verifyOwnerNonce(cookie, owner, nonce) ==
  cookie \in challenges /\ cookie = [owner |-> owner, nonce |-> nonce]

VerifyLogin(post) ==
  /\ verifyOwnerNonce(post.cookie, post.owner, post.nonce)
  /\ post.signer = post.owner

(* POST api/auth/session: an accepted login replaces both cookies.  Nothing *)
(* else is used up.                                                         *)
Answer(post) ==
  jar' = IF VerifyLogin(post) THEN [nonce |-> None, session |-> post.owner] ELSE jar

OpenSession ==
  /\ login.pc = "send" /\ login' = Idle
  /\ LET post == [owner |-> login.owner, nonce |-> login.nonce,
                  signer |-> login.signer, cookie |-> jar.nonce]
     IN  Answer(post) /\ posted' = posted \cup {post}
  /\ UNCHANGED <<wallet, challenges, page, tasks, money, server, bounds>>

(* The same POST once more: until its challenge runs out it opens a session *)
(* again, also after a logout or another account's login.                   *)
RepeatLogin(post) ==
  /\ Change /\ Answer(post)
  /\ UNCHANGED <<wallet, login, page, tasks, money, server, logins>>

AbandonLogin ==
  /\ Running(login) /\ login' = Idle
  /\ UNCHANGED <<wallet, jar, page, tasks, money, server, logins, bounds>>

Logout ==
  /\ Change /\ jar.session # NoAccount
  /\ jar' = [jar EXCEPT !.session = NoAccount]
  /\ UNCHANGED <<wallet, login, page, tasks, money, server, logins>>

-----------------------------------------------------------------------------
(* Obtaining: approveDelegation and deployVault.  The first button clears   *)
(* the key, and is disabled while either runs.                              *)
Obtains(kind) ==
  /\ Click /\ ~Running(obtaining) /\ wallet.account # NoAccount
  /\ page' = [page EXCEPT !.key = None]
  /\ obtaining' = [pc |-> "switch", kind |-> kind, owner |-> wallet.account,
                   chain |-> page.chain, amount |-> page.form.amount,
                   active |-> wallet.chain]
  /\ UNCHANGED <<wallet, jar, login, registering, funding, money, server, logins>>

ClickApprove == ~vaultSettled /\ Obtains("grant")
ClickDeploy == vaultSettled /\ Obtains("vault")

(* useEnsureChain compares with the network the page knew at the click;     *)
(* switchAndConfirmChain asks the wallet again.                             *)
ensureChain(task, chain) ==
  wallet' = [wallet EXCEPT !.chain = IF task.active = chain THEN @ ELSE chain]
switchAndConfirmChain(chain) == wallet' = [wallet EXCEPT !.chain = chain]

SwitchToObtain ==
  /\ obtaining.pc = "switch"
  /\ IF obtaining.kind = "grant" THEN switchAndConfirmChain(obtaining.chain)
     ELSE ensureChain(obtaining, obtaining.chain)
  /\ obtaining' = [obtaining EXCEPT !.pc = "wallet"]
  /\ UNCHANGED <<jar, login, page, registering, funding, money, server, logins, bounds>>

(* The permission request names its chain and the account it is from.       *)
requestWeeklyUsdcDelegation ==
  /\ obtaining.pc = "wallet" /\ obtaining.kind = "grant"
  /\ page' = [page EXCEPT !.grant = [owner |-> obtaining.owner, chain |-> obtaining.chain,
                                     amount |-> obtaining.amount]]
  /\ obtaining' = Idle
  /\ UNCHANGED <<wallet, jar, login, registering, funding, money, server, logins, bounds>>

(* The account is asked for again, and the network must be the chain's.     *)
deployAgentTreasuryVault ==
  /\ obtaining.pc = "wallet" /\ obtaining.kind = "vault"
  /\ wallet.account # NoAccount /\ wallet.chain = obtaining.chain
  /\ vaults' = Append(vaults, [owner |-> wallet.account, chain |-> obtaining.chain])
  /\ obtaining' = [obtaining EXCEPT !.pc = "receipt"]
  /\ UNCHANGED <<wallet, jar, login, page, registering, funding, transfers, server,
                 logins, bounds>>

(* Mutant: an address missing from the receipt is not noticed.              *)
ReceiptUnchecked ==
  /\ obtaining.pc = "receipt"
  /\ \E v \in {0, Len(vaults)} : page' = [page EXCEPT !.vault = v, !.grant = None]
  /\ obtaining' = Idle
  /\ UNCHANGED <<wallet, jar, login, registering, funding, money, server, logins, bounds>>

VaultReceipt ==
  /\ obtaining.pc = "receipt"
  /\ page' = [page EXCEPT !.vault = Len(vaults), !.grant = None]
  /\ obtaining' = Idle
  /\ UNCHANGED <<wallet, jar, login, registering, funding, money, server, logins, bounds>>

(* The wallet or a chain refuses, or the owner does.                        *)
FailObtaining ==
  /\ Running(obtaining) /\ obtaining' = Idle
  /\ UNCHANGED <<wallet, jar, login, page, registering, funding, money, server, logins,
                 bounds>>

-----------------------------------------------------------------------------
(* registerDelegation: everything it signs and posts is what the page       *)
(* showed at the click.  A delegation brings its own chain.                 *)
binding == IF vaultSettled THEN [vault |-> page.vault, chain |-> page.chain]
           ELSE [grant |-> page.grant]

CanRegister ==
  /\ IF vaultSettled THEN page.vault # None ELSE page.grant # None
  /\ ~Running(registering) /\ page.key = None
  /\ wallet.account # NoAccount

ClickRegister ==
  /\ Click /\ CanRegister
  /\ registering' = [pc |-> "nonce", owner |-> wallet.account, form |-> page.form,
                     binding |-> binding, active |-> wallet.chain,
                     nonce |-> None, signed |-> None]
  /\ UNCHANGED <<wallet, jar, login, page, obtaining, funding, money, server, logins>>

Register(next) ==
  /\ registering' = next
  /\ UNCHANGED <<jar, login, page, obtaining, funding, money, logins, bounds>>

owner_nonce(a) == Cardinality({i \in DOMAIN setups : setups[i].body.owner = a})

(* GET api/v1/setup answers with the nonce of the session's owner.          *)
FetchNonce ==
  /\ registering.pc = "nonce" /\ jar.session # NoAccount
  /\ Register([registering EXCEPT !.pc = "switch", !.nonce = owner_nonce(jar.session)])
  /\ UNCHANGED <<wallet, server>>

SwitchToSign ==
  /\ registering.pc = "switch"
  /\ ensureChain(registering, BindingChain(registering.binding))
  /\ Register([registering EXCEPT !.pc = "sign"])
  /\ UNCHANGED server

Captured(r) == [owner |-> r.owner, form |-> r.form, binding |-> r.binding,
                nonce |-> r.nonce]

(* A wallet refuses a domain of another network, and signs as its account.  *)
SignSetup ==
  /\ registering.pc = "sign"
  /\ wallet.account # NoAccount
  /\ wallet.chain = BindingChain(registering.binding)
  /\ Register([registering EXCEPT !.pc = "post",
                                   !.signed = [signer |-> wallet.account,
                                               on |-> Captured(registering)]])
  /\ UNCHANGED <<wallet, server>>

(* Mutant: the body is read from the page when it is posted.                *)
BodyFromPage(r) == [Captured(r) EXCEPT !.form = page.form]

BodyOf(r) == Captured(r)

(* Mutant: the allowance need not be the weekly cap.                        *)
GrantForAnyAmount(owner, body) ==
  "grant" \in DOMAIN body.binding =>
    body.binding.grant.owner = owner /\ body.binding.grant.chain \in Served

(* parseBody and validateDelegationGrant: a vault is taken as it is named.  *)
validateDelegationGrant(owner, body) ==
  "grant" \in DOMAIN body.binding =>
    /\ body.binding.grant.owner = owner
    /\ body.binding.grant.amount = body.form.amount
    /\ body.binding.grant.chain \in Served

(* Mutant: the owner is the one the body names.                             *)
AcceptsNamedOwner(body, signed) ==
  /\ jar.session # NoAccount
  /\ validateDelegationGrant(body.owner, body)
  /\ body.nonce = owner_nonce(body.owner)
  /\ signed.signer = body.owner /\ signed.on = body

(* POST api/v1/setup: the owner is the session's, not the one in the body.  *)
Accepts(body, signed) ==
  LET owner == jar.session
  IN  /\ owner # NoAccount
      /\ validateDelegationGrant(owner, body)
      /\ body.nonce = owner_nonce(owner)
      /\ signed.signer = owner /\ signed.on = [body EXCEPT !.owner = owner]

PostSetup ==
  /\ registering.pc = "post"
  /\ LET body == BodyOf(registering)
         signed == registering.signed
     IN  IF Accepts(body, signed)
         THEN /\ setups' = Append(setups, [body |-> body, signed |-> signed,
                                           session |-> jar.session])
              /\ labels' = Append(labels, NoAccount)
              /\ Register([pc |-> "label", setup |-> Len(setups')])
         ELSE /\ Register(Idle) /\ UNCHANGED server
  /\ UNCHANGED wallet

(* PUT api/owner/agent-label, if the owner gave a name: a failure is        *)
(* ignored, and the name is stored for whoever the session is of by now.    *)
SaveLabel ==
  /\ registering.pc = "label"
  /\ labels' \in {labels, [labels EXCEPT ![registering.setup] = jar.session]}
  /\ Register([registering EXCEPT !.pc = "show"])
  /\ UNCHANGED <<wallet, setups>>

ShowKey ==
  /\ registering.pc = "show"
  /\ registering' = Idle
  /\ page' = [page EXCEPT !.key = registering.setup]
  /\ UNCHANGED <<wallet, jar, login, obtaining, funding, money, server, logins, bounds>>

(* An error, or an answer that does not arrive.                             *)
FailRegistering ==
  /\ Running(registering) /\ Register(Idle)
  /\ UNCHANGED <<wallet, server>>

-----------------------------------------------------------------------------
(* VaultFunding, shown while there is a vault and the chain settles so.     *)
ClickFund ==
  /\ Click /\ vaultSettled /\ page.vault # None /\ ~Running(funding)
  /\ funding' = [pc |-> "switch", chain |-> page.chain, vault |-> page.vault,
                 active |-> wallet.chain]
  /\ UNCHANGED <<wallet, jar, login, page, obtaining, registering, money, server, logins>>

SwitchToFund ==
  /\ funding.pc = "switch"
  /\ ensureChain(funding, funding.chain)
  /\ funding' = [funding EXCEPT !.pc = "send"]
  /\ UNCHANGED <<jar, login, page, obtaining, registering, money, server, logins, bounds>>

fundVaultWithUsdc ==
  /\ funding.pc = "send"
  /\ wallet.account # NoAccount /\ wallet.chain = funding.chain
  /\ transfers' = Append(transfers, [vault |-> funding.vault, chain |-> funding.chain])
  /\ funding' = Idle
  /\ UNCHANGED <<wallet, jar, login, page, obtaining, registering, vaults, server, logins,
                 bounds>>

FailFunding ==
  /\ Running(funding) /\ funding' = Idle
  /\ UNCHANGED <<wallet, jar, login, page, obtaining, registering, money, server, logins,
                 bounds>>

-----------------------------------------------------------------------------
OwnerStep ==
  \/ \E a \in Account \cup {NoAccount} : SwitchAccount(a)
  \/ \E c \in Chain : SwitchNetwork(c) \/ SelectChain(c)
  \/ \E f \in Form : EditForm(f)
  \/ Reload \/ ExpireCookie
  \/ ClickLogin \/ Logout \/ ClickApprove \/ ClickDeploy \/ ClickRegister \/ ClickFund

LoginStep ==
  SignLogin \/ OpenSession \/ AbandonLogin \/ (\E post \in posted : RepeatLogin(post))

ObtainStep == \/ SwitchToObtain \/ requestWeeklyUsdcDelegation
              \/ deployAgentTreasuryVault \/ VaultReceipt \/ FailObtaining

RegisterStep == \/ FetchNonce \/ SwitchToSign \/ SignSetup \/ PostSetup \/ SaveLabel
                \/ ShowKey \/ FailRegistering

FundStep == SwitchToFund \/ fundVaultWithUsdc \/ FailFunding

ConsoleNext == OwnerStep \/ LoginStep \/ ObtainStep \/ RegisterStep \/ FundStep

ConsoleSpec == ConsoleInit /\ [][ConsoleNext]_consoleVars
-----------------------------------------------------------------------------
(* README.md:258 -- setup takes a session and a fresh signature: both are   *)
(* of the account that becomes the policy's owner, although the wallet and  *)
(* the session change independently while the page is at work, and a        *)
(* session may come back with a repeated login.                             *)
SetupAsSigned ==
  \A i \in DOMAIN setups :
    LET s == setups[i]
    IN  /\ s.signed.on = s.body
        /\ s.signed.signer = s.session /\ s.body.owner = s.session

(* setup/page.tsx:247-315 -- the body posted is the one whose hash was      *)
(* signed, also when the form is edited while the wallet is open.           *)
PostsWhatWasSigned ==
  registering.pc = "post" => BodyOf(registering) = registering.signed.on

(* delegationValidation.ts:75-96 -- the allowance the wallet granted is the *)
(* owner's and exactly the weekly cap of the policy, although the cap may   *)
(* be edited and the account switched after the grant.                      *)
GrantHonoured ==
  \A i \in DOMAIN setups :
    LET b == setups[i].body.binding
    IN  "grant" \in DOMAIN b =>
          /\ b.grant.owner = setups[i].signed.signer
          /\ b.grant.amount = setups[i].body.form.amount
=============================================================================
