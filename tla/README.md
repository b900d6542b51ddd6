# TLA+ models of palmy-stake

Palmy Stake lets holders of a token lock it in a staked token, earn rewards from a vault, leave
again after a cooldown, and vote (or delegate their vote) with what they staked. This directory
holds TLA+ models of those contracts and of the tasks that deploy, initialise and upgrade them,
the TLC runs that check them on small instances, and TLAPS proofs of the properties that matter
most.

Run from this directory: `tlc -workers 2 -config <name>.cfg <module>`, `tlapm <module>.tla`.

## 1. The system

The state of the system lives in contracts; one transaction is one atomic call chain, and a
failing `require`, a SafeMath underflow or a failing token transfer reverts all of it. What is
concurrent is the order of transactions of different accounts, and the time (blocks, seconds)
that passes between them. The hardhat tasks are ordinary processes: they send transactions, wait
for them, and keep what they know in files; they may die at any await, and what they sent may
be mined later or never.

| Component (`src/contracts/...`) | State | Operations | Talks to |
|---|---|---|---|
| `stake/DistributionManager.sol` (abstract) | `assets`: rate, last update, index, per-user index | `configureAssets`, `_updateAssetStateInternal`, `_updateUserAssetInternal`, `_claimRewards`, views | inherited by the staked tokens and IncentivesController |
| `stake/StakedToken.sol` (V1; `StakedOas.sol`) | receipts, supply, `stakerRewardsToClaim`, `stakersCooldowns` | `stake`, `redeem`, `cooldown`, `claimRewards`, `transfer(From)`, `configureAssets` | STAKED_TOKEN, REWARD_TOKEN, REWARDS_VAULT, governance hook |
| `lib/ERC20WithSnapshot.sol` (V1) | balance snapshots by block | the transfer hook | governance hook |
| `stake/StakedTokenV2.sol`, `StakedTokenV3.sol` | V1's, plus delegatees, voting and proposition snapshots, nonces | V1's, plus `delegate`, `delegateByType`, the same by signature, `permit` | as V1 |
| `stake-v1/.../GovernancePowerDelegationERC20.sol` | (through V2/V3) | delegation, power snapshots, binary search, `getPowerAtBlock`, `totalSupplyAt` | read by voting strategies |
| `stake/IncentivesController.sol` | unclaimed rewards per user | `handleAction`, `claimRewards` over a list of assets, optionally staking the reward | lending-pool tokens, PSM (a staked token), vault |
| `proposals/.../StakedTokenV2Rev3, Rev4, BptV2Rev2.sol` | V2's | flattened V2 code with a new distribution end | proxy |
| `lib/*Proxy*.sol`, `utils/VersionedInitializable.sol` | implementation, admin, last revision | `upgradeTo(AndCall)`, `changeAdmin`, `initialize` | all of the above |
| libraries, interfaces, mocks | none | | |

| Component (`src/...`) | State | Operations | Talks to |
|---|---|---|---|
| `tasks/migrations/`, `tasks/deployments/` | none beyond a run | `common-deployment`, `common-initialization`, `verification`, `dev-deployment`, the export, deploy and initialize tasks they run | the chain, the files, the explorer |
| `helpers/contracts-accessors.ts`, `contracts-helpers.ts` | `deployed-contracts.json` (id, network: address), `.deployments/calldata/` | `deploy`, `deployContract`, `saveDeploymentCallData`, the registrations, the getters | the chain, the factory of oasys |
| `helpers/etherscan-verification.ts` | the file of constructor arguments | `verifyContract`, `runTaskWithRetry`, `checkVerification` | the explorer |
| `helpers/constants.ts`, `misc-utils.ts`, `hardhat.config.ts` | none | the parameters of each network | |

What makes each of them correct, and what is hard:

- **Cooldown**: stake may leave only in its holder's own window. Hard because receipts are
  transferable: the receiver's cooldown becomes a weighted average, an expired or missing
  cooldown of the sender counts as "now", and an emptied account must forget its cooldown.
- **Rewards**: every second of the schedule is paid once, to whoever was staking. Hard because
  accrual is lazy (settled at the holder's next call, with the balance and supply from before
  it), the rate changes, seconds without stake and seconds after the end release nothing, and
  `claimRewards` accrues without storing.
- **Voting power**: in every block a user's power is the sum of the balances delegated to him,
  and a block that is over never changes. Hard because a user without snapshots is read by his
  balance, several writes share a block, two types of power move between different delegatees,
  and the search is a hand-written bisection.
- **Incentives**: every reward an asset releases is owed to somebody once. Hard because assets
  report balances from before a change while claims read them afresh, the list of assets is the
  caller's (an asset may be named twice or left out), and a staked claim takes three transfers.
- **Signatures**: a signature acts once, for the one who made it, until its deadline. Hard
  because three functions share one nonce per owner, and anybody may submit, early, late or twice.
- **Upgrades**: the new code finds what the old one stored. Hard because the layout of the
  storage follows from declarations in several files, some of them immutable.
- **Deployment**: the address book names contracts that exist and are the right ones, a task that
  reports success has achieved it, and whatever died or got lost can be continued. Hard because
  entries are written before, while or after the transaction is pending, nonces are used again
  after a loss, two transactions initialise one proxy, and calls of addresses without code
  succeed.

`PROJECT.json` lists each hazard at its line with the properties that would catch it.

## 2. Modules

| Module | What it is |
|---|---|
| `DistributionManager` | operators of the reward arithmetic (the contract is abstract, it has no behaviour of its own) |
| `StreamedRewards` | abstract: every second an asset streams its rate to its stakers, and only a user's claim takes from what he is owed |
| `StakedToken` | the staked token: state, one action per transaction, and the properties of one holder |
| `StakedTokenAccounting` | properties that add up over the holders, and the refinement mapping to `StreamedRewards` |
| `MCStakedToken` | symmetry for TLC |
| `Sums` | lemmas about sums over finite sets and about loops over lists, which several of the proofs add up with |
| `DistributionManagerProofs` | lemmas about the reward arithmetic: division, the growth of an index, what one settlement takes |
| `StakedTokenProofs` | theorems about `StakedToken` and the sums of `StakedTokenAccounting`, that it implements `StreamedRewards` among them |
| `IncentivesController`, `MCIncentivesController` | rewards for the holders of several lending pool tokens, and the refinement mapping to `StreamedRewards`; symmetry for TLC |
| `IncentivesControllerProofs` | theorems about `IncentivesController`, that it implements `StreamedRewards` among them |
| `Snapshots` | a history of snapshots: how a write extends it, and what a search of it must return |
| `SnapshotSearch`, `MCSnapshotSearch`, `SnapshotSearchProofs` | `_searchByBlockNumber`, one step of its loop at a time; the histories TLC tries; its correctness proved |
| `VotingPower` | abstract: power is the delegated balance in every block, and the past is fixed |
| `GovernancePower` | delegation and snapshots as the code keeps them, and the refinement mapping to `VotingPower` |
| `MCGovernancePower` | symmetry for TLC |
| `GovernancePowerProofs` | theorems about `GovernancePower`, that it implements `VotingPower` among them |
| `SignedApprovals`, `MCSignedApprovals` | allowances and signatures over `GovernancePower`; the signatures TLC tries |
| `SignedApprovalsProofs` | theorems about `SignedApprovals`, that it implements `GovernancePower` among them |
| `Networks` | the parameters of each network |
| `Verification` | the retries of the explorer verification, one round at a time |
| `UpgradeableProxy` | operators on the state of one proxy: initialise, upgrade, the slots of each revision |
| `Deployment` | the tasks as processes, the files, the chain; composes the three above |
| `DeploymentProofs` | theorems about `Deployment` |

**StakedToken.** `balance`, `totalSupply`, `stakerRewardsToClaim`, `stakersCooldowns` are the
contract's storage; `asset` is `assets[address(this)]` and `userIndex` its `users` mapping;
`token` is the ledger of the external STAKED_TOKEN, which in the deployments is the reward token
too; `now` is `block.timestamp`. Every action is a whole external call: `Stake`, `Redeem`,
`Cooldown`, `ClaimRewards`, `Transfer` (what `transfer` and `transferFrom` reach),
`ConfigureAssets`, and `AdvanceTime` for the clock. What reverts is a guard; the settlement of
rewards that starts each call is `Settle`. Three history variables, read by no action, serve the
properties: `released`, the rewards the schedule has given out, `activation`, when a holder
last called `cooldown()` himself, and `refreshed`, when he did or, since, last received stake or
receipts, which may move his cooldown on.

**IncentivesController.** `assets`, `userIndex` and `usersUnclaimedRewards` are the contract's
storage; `poolBalance` and `poolSupply` belong to the lending pool tokens, `token` to the reward
token, `psmStake` is what the staked token PSM credits. `PoolAction` is a balance change of a
pool token, which calls `handleAction` with the balance and supply from before it. `ClaimRewards`
is the whole call: the loop over the list (`SettledOver`, each asset on top of what the one
before left, so that an asset named twice is settled twice), the clipped amount, and the payment
out of the vault, to the recipient or through the controller into PSM with the extra reward.
`Initialize` approves PSM; a staked claim before it fails. The recipient is anybody the caller
names, the controller, the vault and PSM included. `outstanding` and `payouts` are history: what
the assets released and nobody has claimed, and what claims paid to each recipient.

**StreamedRewards** knows no index and no settlement. A user is `owed` an amount; `Tick`, one
second, adds his share of each asset's rate, `Move` changes stakes and rates and gives nothing,
`Claim` takes from one user. Settling lazily is right if a user cannot tell it from this. Both
contracts map to it: `owed` is what their views report (`getTotalRewardsBalance`,
`getRewardsBalance` over all assets), `stake` the balances, `rate` the `emissionPerSecond` of the
assets, and `StakedToken` has one asset, itself. The share of a second is a range: at least what
remains when both divisions of the contract (by the supply, by UNIT) round it down, at most what
they give rounded up; what a lazy settlement accrues over many seconds at once cannot be said more
exactly of one of them. Where nothing rounds, the range is the share.

**GovernancePower.** `Mint`, `Burn` and `Transfer` are what `stake`, `redeem` and `_transfer` do
to receipts, with the hook `_beforeTokenTransfer` of V3 (V2, Rev3 and Rev4 have the same hook)
run first, for both types of power; `Delegate(u, v, {t})` is `delegateByType`,
`Delegate(u, v, Types)` is `delegate`. The mapping of snapshots and its counter are a sequence.
Whether a user may redeem now is StakedToken's matter, so `Burn` allows any amount he has.
`GetPowerAtBlock` uses `ValueAt`, the result the search must have; that the loop computes it is
what `SnapshotSearch` is for. Constants `InitialStake` and `Snapshotted` say what was there when
this code was installed: nothing, or the holders of a V1 token with their balance snapshots.

**SignedApprovals** extends `GovernancePower` with `_nonces` and `_allowances`; its next-state
relation is GovernancePower's, plus the approvals, `transferFrom` and the three functions that
take a signature. What is signed is a record of the fields of the typed data that
`contracts-helpers.ts` builds; `Recovers(data, signer)` is `ecrecover` naming the signer, true of
exactly the data he signed. The users have signed `Signatures` before the run starts, so every
order of submissions, and every delay, is a behaviour. The contract compares nonce and deadline
after recovering, `permit` puts the owner's nonce into the data instead; both are there. A block
is a unit of the time deadlines are in. `accepted` is history.

**Deployment.** A task is a sequence of its awaited steps (`Program`); the process takes them one
at a time (`ProcessStep`), ends (`Finish`), throws (`Fail`) or is killed between any two
(`Kill`), and then somebody may start another, or the same again (`Start`). What outlives it are
the files (`calldata`, `db`) and the chain: `sent` are the deployer's transactions by nonce, the
first `mined` of them are mined, the rest may be lost (`LoseMempool`), after which their nonces,
and so the addresses of the contracts they would have created, are used again. A receipt is one
of the nonce the process sent last. On oasys the factory creates what was exported
(`FactoryDeploys`), at addresses registered before. `proxies` is the storage of every proxy that
was called: implementation, admin, revision, and the ten slots after `assets`, in which
`Use` leaves what the holders write there. The parameters are those of `Networks`, the steps of a
verification those of `Verification`: what the explorer answers is any answer, of a contract that
is not there only those it can give.

Operators whose comment starts with "Faulty" are used by no specification: each is a bug one
could plausibly write in the code, kept beside what it would replace, to see that a property
notices it (`mutants` in `PROJECT.json`, one for each property of a run; `IdleIgnoringEnd`, which
breaks `StakeNeverLocked`, and `DeployWithoutReceipt`, which breaks `RegisteredExists`, are second
ones).

### Left out, and why

- Overflow of `uint256` and truncation to `uint128`: no supply of the token comes near either.
  Underflow is modelled everywhere, it is what reverts.
- In `StakedToken`, `transferFrom` is `Transfer` by whoever is allowed to; allowances are
  `SignedApprovals`' matter. The vault's allowance is taken as unlimited, its balance is not.
- The governance hook `onTransfer`: an external contract the code declares trusted; every task
  sets it to the zero address.
- Forged and malformed signatures: from data that nobody signed `ecrecover` names an address that
  is no user's. Such an address has no tokens, so its delegation moves nothing; its nonce is used.
- `changeAdmin` and `upgradeTo`, which no task calls, and `StakedTokenBptV2Rev2`, which no task
  deploys. Rev3 and Rev4 appear with layout, revision and initialiser; their staking and
  delegation code is a copy of V2's.
- The distribution end that moves with the implementation at an upgrade: the models with rewards
  have one `DISTRIBUTION_END`, the one with upgrades keeps no rewards.
- The composition of `StakedToken` and `GovernancePower` in V2 and V3: they share the balances
  and nothing else; each models mint, burn and transfer with the settlement or hook of its own.
- Of the tasks: parameters given on the command line instead of the configured ones; the relay
  signer of defender; tenderly forks and the in-memory networks hardhat and coverage, where no
  state survives a run; `verify-sc` and the printing tasks; the deployers only tests call
  (of the same shape as `CreateRevision`). The signer is taken to be the configured admin where
  there is one: with any other the upgrade reverts. Reorganisations of the chain, and two
  processes at once: the entries are written by reading and rewriting one file, nothing in the
  code provides for it.
- `StakedToken` configures one asset per call of `configureAssets`; `IncentivesController` a list,
  with one rate for all of it. The emission manager reports exact supplies there; wrong reports
  are `staked_rounding`'s matter.
- Calls of `handleAction` by contracts that are no configured asset: their rate is 0, they accrue
  nothing. A pool token that lies about balances is trusted once it is configured.
- Rates or clocks beyond the bounds.
- `ClockAssumption`: `block.timestamp` is larger than cooldown plus window. The code relies on it
  (`getNextCooldownTimestamp` subtracts both from the time) and Unix time satisfies it.

## 3. Runs

| Run | Question | Bounds, and why they are enough |
|---|---|---|
| `staked_cooldown` | does stake leave only in its holder's own window, can it leave there, and is every receipt backed? | two callers and the contract as holders, amounts 0..3 with 2 tokens each (zero, partial, whole, and clipped), cooldown 2 and window 2 over 5 seconds, the last of which lies behind the window of a cooldown started in the first: a window opens and closes on both sides, a new cooldown meets one that lapsed, and receipts pass between accounts in every state. `ExitOnlyInOwnWindow` checks both ends of the window against history, not against the guard of `redeem`; nor does `StakeNeverLocked` use that guard to say when a holder may leave (`MayLeave`). The distribution is over and its rate still set, which is when an update that is not idle would underflow and lock the stake in |
| `staked_exact` | is every reward that was released owed or paid, does no call move any, and is it `StreamedRewards` that the indices implement? | rate 6 with supplies 1 and 2 (plus the contract as holder): no division rounds, so the equation is exact. Distribution ends one second before the clock does; rate 0 and back, seconds without stake, a vault with too little |
| `staked_rounding` | are payments within the schedule where divisions round? | rate 5, scale 3: most divisions round. Reports of the total stake may be one too high |
| `incentives` | is every reward owed once, whatever lists users claim over, is only a claim paid, and is it `StreamedRewards` that the indices implement? | two users, two assets, rate 2 and supplies 1 and 2 (no division rounds), two seconds of rewards, lists of two, one or no assets, one named twice included; the one recipient is the controller itself, where a payment and what a staked claim leaves behind could be mistaken for each other (the theorems hold for any recipients); a claim asks for 2 where 1, 2 or more are owed, with a vault of 2 that a staked claim with its extra 100% may empty or overrun. The end of the distribution is in the `staked_*` runs |
| `snapshot_search` | does the bisection end with the right value? | every history of 1 to 6 snapshots in 8 blocks, every block 0..9: three rounds of the loop, all cases of it |
| `power_delegation` | do the snapshots implement `VotingPower`, is the past fixed, are histories ordered? | three users (delegator, old and new delegatee), one type, two tokens, two blocks with several writes to each. That the past stays fixed over any number of blocks is a theorem |
| `power_upgrade` (violation) | is the past fixed for holders of a V1 token? | no: see below |
| `power_supply` (violation) | is `totalSupplyAt` of a past block fixed? | no: see below |
| `signed_approvals` | does every signature act at most once, in order, and always when it should; do the two types of power stay apart? | two holders, both types, one token, two blocks; five signatures: a permit and two delegations for one nonce with deadlines in the first and the second block, a delegation for the next nonce, and a permit signed by the wrong holder. Amounts and allowances of at most 1: that no allowance goes below zero is a theorem |
| `deployment` | does the address book tell the truth, do tasks achieve what they report, can every deployment be continued, does every task end? | main (zero admin), testnet, oasys (predicted addresses); the tasks that write, with and without verification; `MaxSent` = 6 transactions: a whole deployment (3) and initialisation (2) and one more to repeat or spoil a step; one kill at any step, one loss of the mempool. On oasys the factory acts at any time or never: an entry stands for a contract or for calldata that will create it (`Promised`), and a task that runs too early calls addresses without code |
| `upgrade_layout` (violation) | does the upgrade to revision 3 keep the holders' state? | no: see below |
| `reported_upgrade` (violation) | does the upgrade to revision 4 report only what happened? | no: see below |

The staked-token runs stop where clock and funds do; a state without successor does not occur,
since `cooldown`, claims of nothing or transfers remain possible. `snapshot_search` does stop
(`CHECK_DEADLOCK FALSE`): a search that has returned has no further step. So do the runs of
`Deployment`, once every transaction the bound allows is sent and mined.

**Fairness.** `SnapshotSearch` assumes `WF_vars(Next)`: the EVM runs a call to its end, so a step
of the loop that can be taken is taken. `Deployment` assumes `WF_vars(ProcessStep)`, the event
loop of node, which goes on while a promise can be resolved, and `WF_vars(Mine)`: the chain mines
what the mempool holds. Nothing makes the explorer, the factory of oasys or an operator act, nor
the node keep its mempool; so `TaskEnds` excepts the one wait without end the code has, for a
transaction that no longer exists. No user is obliged to send a transaction and no property of
the other modules needs one; `StakeNeverLocked`, `PowerNeverLocks`, `FreshSignatureActs` and
`NeverStuck` say instead that what somebody may want to do is never impossible.

### What the code does that its comments do not say

- **`totalSupplyAt`** ignores the block and returns the current supply. Its comment excuses that
  with a token that does not mint; the staked tokens mint and burn with every stake and
  redemption. `power_supply` shows the total of a past block moving.
- **`getPowerAtBlock` after an upgrade over V1.** V1 kept balance snapshots, which become the
  voting power; proposition power starts without any. A V1 holder is read by his balance, for
  every block, until his first transaction writes his first snapshot; then every earlier block
  reads 0. `power_upgrade` shows it. Installed before anybody has staked, the past is fixed
  (`PastPowerFixed`, proved).
- **The layout of revision 3.** V2, V3 and Rev3 mark "Start of Storage layout from StakedToken v1"
  and "End of Storage layout", but declare immutable what V1 stores between them. In
  `upgrade_layout` the proxy of a V1 token is upgraded by `initialize-StakedTokenV2Rev3`: the
  unclaimed rewards and cooldowns lie three slots further on, where Rev3 keeps other mappings.
  Revision 4 stores the three again, and the upgrade from V1 to it, the one
  `common-initialization` makes, keeps everything (`deployment`).
- **"Finished ... initialization"** of `initialize-StakedTokenV2Rev4`. Started before
  `initialize-StakedOas`, its transaction succeeds without doing anything: the signer is not the
  admin of the fresh proxy, the call falls through to the implementation, and that is address(0).
  `reported_upgrade` shows it. `common-initialization`, which starts both in order, reports only
  what is so, but for one case: on oasys, before the factory has created the proxy, both calls
  go to an address without code, succeed and do nothing. That is all that can be wrong with its
  report: `FinishedInitializationReal` says that then the proxy is untouched, and `NeverStuck` that
  it can still be initialised.

Remarks without a run: `common-deployment` is described as "Deployment in for Main, Kovan
networks", whose configured admin is the zero address, which its check lets pass and the
constructor of `StakedOas` refuses, after the proxy was deployed; the task reads `verify`, which
it does not declare, while `package.json` passes it; `dev-deployment` sends calldata that only an
export writes; `verify-sc` runs a task `set-DRE`, which is called `set-dre`.

## 4. Theorems

For every set of accounts, amount, rate, period and bound that satisfies the modules'
assumptions. Those the sums need are that there are finitely many accounts
(`AccountsAssumption`, and a part of `GovernanceAssumption` and `IncentivesAssumption`), and that
the incentives controller, its vault and PSM are three different addresses. Who may be named as
the recipient of a claim is not restricted.

**What the sums rest on.** `Sums` proves what the other modules add up with. A sum of the library
is a fold, a function defined recursively over the subsets of its index set: that this function
exists is proved first (`SumExists`), then what a change of one entry, a factor or a bound does to
the sum, and that a table adds up the same by rows and by columns (`SumSwap`). Induction over a
finite set is used as its least counterexample (`NoSmallestCounterexample`), a form that needs no
theorem with an operator for a parameter; the loop over a list of assets is treated alike
(`LoopExists`, `LoopStays`).

**`StakedTokenProofs`.** `IInv` is `TypeOK`, `IndicesOrdered`, `CooldownSinceActivation` and
`ClockStarted` (the clock is at or past its start, so that a cooldown of 0 is an expired one).
`CooldownSinceActivation` alone is not inductive: it needs types, and for a transfer the bounds
of `getNextCooldownTimestamp`, from a lemma that an integer average lies between what it averages
(`AverageBetween`). It holds a cooldown between `activation` and `refreshed`, the two that the
ends of the window are measured from.

- From `IInv`: `TypeCorrect`, `IndicesStayOrdered`, `CooldownHasActivation`, `NoShorterCooldown`,
  `ExitInOwnWindow`. `CallsKeepRewards` assumes exact reports of the total stake
  (`ReportErrors = {0}`); its heart is that settling at the index a view would compute leaves the
  view unchanged.
- `ReceiptsAreBacked`: receipts add up to the supply, and the contract holds a token for each.
  `StakeStaysCovered` draws the conclusion that of everything that could make `redeem` revert
  only the window is ever closed, that in each of its seconds it is not, and that a transfer of
  what one has never reverts. It is `StakeNeverLocked` without ENABLED.
- `RewardsStayWithinEmission`, where no report of the total stake is too low
  (`ReportErrors \subseteq Nat`: a supply that grows before the report is mined would give one,
  and then more is released than scheduled; the code leaves it to the emission manager, and no
  property here says anything of such reports).
  The inequality is not inductive in tokens: rounding down loses a different amount in each
  settlement. `DebtWithinEmission` counts in units of 1/UNIT instead, before any division: what
  a holder has accrued, plus his balance times the index he has not settled, plus what the
  asset has not been updated for. No step adds to this debt more than the schedule releases.
- `AllRewardsOwed`, the equation, with exact reports and where no division rounds:
  `NoRounding`, every rate is a multiple of every supply that the tokens there are allow
  (`staked_exact` is such an instance). It needs that tokens are conserved, which bounds the
  supply, and that every index is a whole number of UNITs (`IndicesWhole`).

- `RewardsAreStreamed`, with exact reports and however divisions round: the token implements
  `StreamedRewards`. A call maps to `Move` or to `Claim` because it leaves what it does not pay as
  it was in the view (`CallsKeepOwed`, the heart of `CallsKeepRewards`). A second maps to `Tick`:
  `IndexFormula` says what the view's index gains between settlements, `SecondRaisesIndex` that
  one second more raises it by the rate over the supply, rounded down or up, and
  `SecondStreams` what that does to a user's rewards, with `DivOfSum`, a quotient of a sum is
  between the sum of the quotients rounded down and rounded up. So the lower bound on what is
  owed loses no more than one rounding of each share per second, however many settlements.

**`IncentivesControllerProofs`.** `Books` is the types and `Reported`: the pool tokens' supplies
are the sums of their balances, and no user's index is ahead of his asset's. The loop over the
caller's list has a closed form: settling a list settles the set of its members (`SettledIn`,
`ListSettled`), in any order and however often each is named; `ListConfigured` says the same of
`configureAssets`.

- From `Books`: `ClaimsAreOnlyPaid` and `StakedClaimsPassThrough`, for any recipients. A claim
  paid out to the controller stays there and one to PSM is nobody's stake, so both are counted in
  `payouts`; the theorem says that staked claims add nothing to either.
- `DebtWithinReleased` is the debt above, added up over the assets. From it
  `NoMoreIsOwedThanReleased` (`RewardsWithinReleased`, for any rounding; no run states it, since
  its instance without rounding checks the equation) and `TypesKept`: `outstanding` never falls
  below zero.
- `DebtIsReleased`, with `IndicesWhole`, gives `AllReleasedIsOwed` where no division rounds:
  `NoRounding`, every rate is a multiple of every supply the balances' bound allows.

- `RewardsAreStreamed`, with no condition: the controller implements `StreamedRewards`, by the
  same lemmas, added up over the assets. Claims over a list are `Claim`, whatever it names twice or
  leaves out; a list of new rates is `Move`, so it gives nobody a reward for the time before it.

**`SnapshotSearchProofs`.** `SearchInv`: the answer lies between `lower` and `upper`, and the
snapshot at `lower` is never later than the block. `SearchTyped` and `SearchCorrect` follow, for
histories of any length. `SearchHalves`: every probe leaves at most half of the interval. That is
`SearchTerminates` up to fairness, and says how fast.

**`GovernancePowerProofs`.** A write in the current block keeps a history ordered and leaves every
earlier block alone (`WriteKeepsHistory`); from it `TypeCorrect` and `HistoriesStayOrdered`.

- `PowerStaysDelegated`: per type, a user's power is the sum of the balances delegated to him. It
  is inductive together with `Entrusted`, both ends of a delegation have a snapshot; a delegatee
  without one would be read by his balance, and what others delegated to him be lost.
  `PowerLocksNobody` follows: no subtraction of power fails. Both hold also over a V1 token.
- `RecordedPastFixed` and `SnapshottedPastFixed`, also over a V1 token. A user without snapshots is
  read by his balance in every block, which is harmless only if that balance is 0: then he is on
  record (`OnRecord`). No balance changes without leaving its holder a snapshot of every type
  (`MovesAreRecorded`), so who is on record stays there, and no transaction of anybody rewrites a
  block that is over (`RecordKept`). Over V1 everybody is on record for voting power, so its past
  is fixed; for proposition power a holder is not until his first snapshot.
- `PastRewrittenOnce` says what becomes of him: only that first snapshot rewrites his past, to 0.
  What `power_upgrade` shows is thus all that can happen, and it happens at most once per holder.
- `PastPowerFixed`, for all types, assumes that nobody had staked before (`InitialStake = 0`);
  otherwise it is false.
- `SnapshotsKeepPromise`, under that assumption: `GovernancePower` implements `VotingPower`.
  Each step maps to a step of the promise or to none: transactions change the block that is
  open, the next block copies it (`TransactionKeepsPromise`, `BlockKeepsPromise`).

**`SignedApprovalsProofs`.** `SignedInv` is the types and `AcceptedInOrder`, that an owner's nonce
counts the signatures that acted for him; without it an old signature could meet its nonce again.
From it `SignedTypeCorrect` and `SignedOnce`, for any set of signatures. `SignedImplementsPower`:
every step is one of `GovernancePower` or leaves its variables alone, so what is proved there
holds here (`SignedPastPowerFixed`, `SignedRecordedPastFixed`, `SignedPowerDelegated`,
`SignedLocksNobody`).
`SignedFreshAccepted`: a signature with its signer's nonce passes every check of its function
until its deadline, the books of power included. It is `FreshSignatureActs` without ENABLED.

**`DeploymentProofs`**, for all tasks, networks, and any number of transactions, crashes and
losses. `DeploymentInv`, true whatever tasks run in whatever order, has these parts:

| Part | What it says |
|---|---|
| `VerificationInv` | rounds made and rounds left add up to four |
| `EntriesInv` | the calldata files hold nothing or the right creation; a process about to register the proxy or the first implementation has the receipt of a transaction that creates it; an entry, once right, stays right because mined transactions are never lost |
| `ScheduleInv` | what is sent and what the task has yet to send fit the bound |
| `FactoryInv` | the factory creates only what was exported |
| `TransactionInv` | what is sent is a creation that does not revert or the call of an initialiser |
| `ProxiesInv` | every proxy is fresh, or was initialised with the network's admin and runs code that is there, with its revision and the slots that revision leaves. Code is never replaced where it once is (`CodeStays`) |
| `RestInv` | the ranges of entries, crashes and losses |

That no task can be at a step that registers without having sent and waited first is proved of
every suffix of every program (`FromReceipt`, `Remaining`). From these:

- `VerificationIsThorough`, `TypesKept`, and `InitializationContinues`:
  once everything is deployed the proxy runs revision 4, or can be initialised, or be upgraded.
- `RegisteredEntriesExist`. On oasys the entry comes before the contract, so that it is right
  rests on the calldata: `OasysInv` says that every entry has its calldata, and that every
  program writes the calldata before it predicts (`Exports`) and takes an entry from a receipt only
  after the step at which oasys is left.
- `UpgradesKeepState`, while nobody runs `initialize-StakedTokenV2Rev3`, which moves the
  mappings, as `upgrade_layout` shows.
- `DeploymentCompletes`. A task that reports success must have done it all, which follows from no
  state the chain is in: `CompleteInv` says of every number of steps `common-deployment` has left
  what is sent, mined or registered by then, and that what is not registered is still to be.
  `ExportInv` says the latter of oasys, where the task ends with the export.
- `InitializationIsReal`, in the same way: `InitializationInv` says what is done with each of the
  last seven steps of `common-initialization` to go (`Initialised`). Others may have initialised
  or upgraded the proxy before; what carries over is that it has an implementation
  (`ImplementationKept`) and that revision 4 is never replaced (`FourthKept`). On oasys the
  first call may have been void, and then so is the second, even if the factory created the
  proxy in between (`UpgradeMined`). Nothing is pending when the task ends, so it stays so.
- `TaskStepsAreFinite`: each step of a process leaves less `Work`, and only starting a task leaves
  more. It is `TaskEnds` up to fairness.

Only model-checked are the liveness properties `SearchTerminates` and `TaskEnds`, and
`StakeNeverLocked` and `FreshSignatureActs`, which are about ENABLED: neither is within TLAPS's
reach here, and each has a theorem above that proves all of it but that.

## 5. Plan

Done: the staked token with its rewards and cooldowns, voting power with its search, signed
approvals, the incentives controller, the deployment with its proxy and upgrades, and the two
abstract specifications they implement; every invariant, action property and refinement that a
passing run checks is proved, but for the two about ENABLED. What remains, in this order:

1. `StakedTokenV3`: the composition of `StakedToken` and `GovernancePower`, with an upgrade in
   the middle of a distribution, whose end then moves. Each half's theorems carry over through a
   refinement that forgets the other; `StreamedRewards` would get a `DISTRIBUTION_END` that is a
   variable.
2. `changeAdmin`, `upgradeTo` and the Bpt revision, once a task uses them.
