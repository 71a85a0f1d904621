# OptionsFi: models, checks and proofs

OptionsFi is a covered-call vault on Solana. Depositors put a tokenised stock
into a vault and get shares; each epoch a keeper sells call options on part of
the vault's assets through a request-for-quote (RFQ) router to market makers,
who pay a premium in USDC; when the epoch ends the keeper settles with the
market maker and starts the next one; depositors leave by a two-step withdrawal.

This directory holds TLA+ modules of the parts that decide who owns what and
when, the TLC configurations that check them on small instances, and proofs,
checked by TLAPS, of what holds for every instance. `PROJECT.json` relates every
definition to the lines it models.

## 1. Inventory

| Component | Where | State it keeps | Operations | Talks to |
|---|---|---|---|---|
| Vault program | `programs/vault/src/lib.rs` | one `Vault` account, a `WithdrawalRequest` per user and epoch, a whitelist; token accounts for the asset, the shares in escrow, the premium | 20-odd instructions, each atomic | SPL Token, the clock |
| RFQ router | `infra/rfq-router/index.js` | maps of market makers and of requests, in memory | WebSocket connect, quote, close; HTTP create, wait, fill; a cleanup timer | makers, keeper |
| Keeper | `infra/keeper/src/index.ts`, `onchain.ts` | in-memory strike, notional and maker's wallet per vault, `isRunning` | roll, settle, lifecycle check every 10 s, HTTP `/trigger` and `/settle` | vault program, router, price feed |
| Market makers | `infra/rfq-router/mock-mm.js`, `multi-mm.js`, `infra/rust-mm` | a socket, a wallet | quote, pay the premium on `fill` | router, vault's premium account |
| SDK | `packages/sdk/src` | a socket, active requests | RFQ client, instruction builders, formatting | router, vault program |
| Security library | `infra/security` | counters per key, event ring, mint cache | limit, log, validate | - |
| Volatility oracle | `packages/oracle/src` | price samples in a database, sampling timers | sample, estimate, price | Pyth, Yahoo, Supabase |
| Option pricing | `app/lib/options-math.ts`, `packages/sdk/src/utils/pricing.ts` | none: an estimate or a search in progress | historical and implied volatility, premiums | pages, SDK |
| Web application | `app/` | React state and effects, `localStorage`; access-code use counts, faucet cooldowns | pages, hooks, API routes | vault program, router, Supabase |
| Scripts, configuration | `scripts/`, `infra/keeper/src/setup-whitelist.ts`, `config/` | where a script stands; which accounts exist is on chain | create, reset and close vaults, clean up accounts, fill the whitelist | vault program |

What is hard in it:

* **The vault program** is a sequence of atomic instructions by many signers.
  Shares, assets and premium are converted by integer division with a virtual
  offset; three counters (`total_shares`, `pending_withdrawals`,
  `total_assets`) mirror balances of token accounts that anyone can send tokens
  to; requests of several epochs are open at once and claimed in any order;
  two parameters share one timelock. Correct means: the counters agree, nobody
  is diluted, what is owed can be paid, nothing leaves within its epoch.
* **The RFQ router** runs one JavaScript handler at a time, and what is hard is
  their order: the close event of a lost socket comes after the maker has
  reconnected; fills are repeated; quotes expire one by one; a timer forgets
  requests that a waiting handler still holds. Correct means: each request is a
  sealed auction, awarded at most once, to the best standing quote, and only
  the winner is told to pay.
* **The keeper** is a set of asynchronous procedures with awaits between every
  two steps, started by overlapping timers and by HTTP calls, over on-chain
  state it read some steps ago; it loses its memory when it restarts.
* **The market makers** are processes of their own at the other end of sockets
  that are lost, with a payment to make of several awaited steps and a memory of
  requests that a restart empties. Correct means: who is awarded a request pays
  it, once, from the right wallet into the right vault.
* **The web application** shows what it read from the chain over several awaits,
  or cached, and builds transactions from it; refreshes overlap, wallets are
  exchanged, reads fail. Correct means: nobody is shown another's withdrawal,
  what the page offers the program accepts, and an open window pays in the end.
* **The operators' scripts** send several transactions, die between two of them
  and are run again over what is left, while what an earlier run sent lands late.
  Correct means: a script that is repeated gets where it should, and no second
  vault takes over what a closed one issued.
* **The volatility oracle** estimates from rows that are few, late, twice there
  or of no variance, and combines the result with another source that may fail.
  Correct means: whatever it answers lies between its sources.
* **Option pricing** searches for a volatility by halving a bracket or by Newton's
  method, which divides by a slope that may be nothing. Correct means: what it
  finds gives the price that was asked for, and it finds what there is.
* **The RFQ client, the limiters, the registry, the sampler, the wallet history
  and the API routes** are small state machines with callbacks, timers or awaits
  between a check and its use.

`PROJECT.json` lists these hazards at their lines, with the properties that
would catch each of them, or a note where there is none yet.

## 2. The modules

| Module | Models | Role |
|---|---|---|
| `Ledger` | balances of token accounts as functions and their total | helper |
| `Numbers` | division, smallest and greatest numbers of a set, induction and recursion up to a number | lemmas |
| `ShareFund` | what the vault promises its depositors: a fund | abstract specification |
| `Vault` | the vault program | component, implements `ShareFund` |
| `VaultTimelock` | `Vault` with a history of what its authority asked for | history of `Vault` |
| `VaultSettlements` | `Vault` with the sum an epoch's settlements paid | history of `Vault` |
| `MCVault` | `Vault` without options, time and parameters, symmetry for TLC | instance |
| `MCVaultAuthority` | one of two foci of `VaultTimelock`, as the first state chooses | instance |
| `VaultProofs` | the theorems about `Vault` and `VaultTimelock`, the lemmas about `Ledger` | proofs |
| `RfqAuction` | what the router promises: a sealed auction | abstract specification |
| `RfqRouter` | the router | component, implements `RfqAuction` |
| `MCRfqRouter` | symmetry for TLC | instance |
| `Keeper` | the keeper, composed with `Vault` | component and composition |
| `MCKeeper` | symmetry for TLC | instance |
| `KeeperProofs` | the theorems about `Keeper` | proofs |
| `MarketMakers` | `mock-mm.js`, `multi-mm.js` and `rust-mm` at the router's sockets | component, composed with `RfqRouter` |
| `MCMarketMakers` | - | instance |
| `RfqProofs` | the theorems about `RfqRouter` and `MarketMakers` | proofs |
| `VaultClient` | the pages of a vault: `useVault.ts`, `vault-sdk.ts`, the earn page | component, composed with `Vault` |
| `MCVaultClient` | - | instance |
| `VaultClientProofs` | the theorems about `VaultClient` | proofs |
| `Null`, `Clock` | the value that stands for none; a clock | helpers |
| `AdmissionLimit` | what a rate limiter promises | abstract specification |
| `RateLimits` | the router's two limiters and the security library's tiers | component, implements `AdmissionLimit` |
| `RateLimitsProofs` | the theorem about `RateLimits` | proofs |
| `MintRegistry` | `mint-registry.ts` | component |
| `SecurityMonitor` | `monitoring.ts` | component |
| `RfqClient` | the SDK's `RFQClient.ts` | component |
| `WalletActivity` | `useWalletActivity.ts` | component |
| `PriceSampler` | `price-sampler.ts` | component |
| `ApiRoutes` | the routes `auth/verify`, `auth/logout`, `faucet`, `subscribe` | component |
| `PriceRoute` | the routes `price` and `nvda-volatility`, their caches and the token | component |
| `Candles` | the candles of the route `price` | algorithm, step by step |
| `VolatilityOracle` | the oracle's database, `volatility-tracker.ts`, `hybrid-volatility.ts` | component |
| `EventLog` | the logs page and the event rings of the router and the keeper | component |
| `VaultTiming` | `vault-timing.ts`, `useVaultTiming.ts` | component |
| `OptionsMath` | `options-math.ts`, the SDK's `pricing.ts` | algorithm, step by step |
| `MCServices` | one of the last thirteen, as the first state chooses | instance |
| `VaultSetup` | the accounts of an asset id: the instructions that create and close them, and the scripts | component |
| `AllVaults` | `useAllVaults` of `useVault.ts` | component |
| `MCWaits` | one of `RfqRouter`, `AllVaults` and `VaultSetup`, as the first state chooses | instance |
| `ServiceProofs` | the theorems about `ApiRoutes`, `MintRegistry`, `SecurityMonitor`, `RfqClient`, `PriceSampler`, `WalletActivity`, `VaultTiming`, `VaultSetup` and `EventLog` | proofs |
| `PricingProofs` | the theorems about `PriceRoute`, `Candles`, `OptionsMath` and `VolatilityOracle` | proofs |

### Vault

One vault. Each instruction that changes its state is one action of the same
name; an instruction that returns an error leaves no trace, so an action's guard
is the conjunction of the instruction's `require!`s, its checked arithmetic and
the token program's own refusals (a balance too small, an account that exists).
Solana runs the instructions that write one account one after another.

* The fields of the `Vault` struct are variables of the same names.
  `withdrawal_requests` is a function on the pairs of user and epoch that the
  request's address is derived from. `wallet`, `vault_token_account`,
  `share_account`, `share_escrow`, `vault_premium_account` and `outside_usdc`
  are token balances.
* `u64` keeps its width: `FitsU64` is the success of a checked operation,
  `AsU64` the truncating cast, `U64Max` a parameter.
* `virtual_offset` is set by the first deposit, as in the code.
* `Fund` is `ShareFund` with the vault's state for its own; `ImplementsFund` says that
  each step of the vault is a step of the fund or leaves it alone.
* The environment moves the clock and makes plain token transfers: shares
  between users, shares to the escrow, assets to the vault, and a market maker's
  premium (`transferPremiumToVault` in `mock-mm.js`).

Left out: `epoch_premium_per_token_bps`, which is only ever displayed; the
deprecated setters, which always fail; share tokens burned by their holders. The
whitelist exists from the start here; its creation, the share metadata and the
accounts that a close leaves behind are in `VaultSetup`.
`min_epoch_duration` is an `i64` that `initialize_vault` and
`queue_param_change` accept negative; the model takes it from `Nat`.
Authority-only instructions are actions without a caller.

### RfqRouter

Each socket is used once. `holder`, `attached` and `reachable` say which maker
authenticated on it, whether the router has handled its close event and whether
its other end is there; `makers` is the router's map. `Lose` takes the other end
away, `Close` is the router's handler, some time later. A message to a socket
that is not reachable is lost, as `ws.send` loses it; `received` is the set of
messages that arrived. A request is spread over `listed` (the map's keys),
`status`, `terms`, `quotes` and `filled`; a request removed from the map keeps
the other four, for the waits that still hold the object. `quotes` keeps each
quote's place of arrival, which breaks ties as the stable sort does.

The limit on connections per minute and the HTTP limiter of
`security-middleware.js` are in `RateLimits`, the event ring in `EventLog`. Left
out: read-only endpoints, the payloads.

`RfqAuction` is what a caller may rely on: a request is announced, makers offer
and replace offers until the deadline, it is awarded at most once, to a best
standing offer, with the quorum, or given up for good. `ImplementsAuction`
instantiates it with a refinement mapping that forgets sockets, maps, waits and
messages.

### Keeper

`Keeper` extends `Vault`: the keeper's calls are the vault's own actions, with
the amounts that the keeper computes. `task[t]` is one asynchronous procedure in
progress: where it stands between two awaits, and the local variables it will
use after the next one (the vault data it fetched, the strike, the premium, the
recipient). One action is what a procedure does from one await to the next, so
tasks interleave exactly where the code awaits. `isRunning` and `vaultStats` are
`state.isRunning` and the vault's entry of `state.vaultStats`.

* A check (`StartCheck`, `CheckSettles`, `CheckRolls`, `CheckReturns`) is
  `checkVaultLifecycle`, started by the interval although an earlier one still
  awaits. `StartRoll` is `/trigger` and the six-hourly schedule,
  `StartSettlement` is `/settle`.
* A roll goes through `roll_fetch`, `roll_quote`, `roll_record` and
  `roll_collect`; a settlement through `settle_fetch`, `settle_price`,
  `settle_pay` and `settle_advance`.
* What a procedure asks of the chain and of the price feed is one operator per
  call (`VaultRead`, `OraclePrices`, `SendExposure`, `SendCollection`,
  `SendSettlement`, `SendAdvance`), used by the step that awaits it.
* A call to the chain succeeds, fails, or succeeds and is reported as failed:
  `RollRecord` may end the roll although the exposure is recorded, `RollCollect`
  goes on either way, `SettleAdvance` may leave the memory as it was.
* The router is its answer: no fill (`RollUnfilled`), or a fill, whose reply may
  be lost (`RollFilled`, `heard`). A maker that was told to pay pays later
  (`MakerPays`).
* `Restart` forgets the tasks, `isRunning` and `vaultStats`.
* Other vaults (`OtherVaults` of them before or after) are modelled by what
  their part of a roll does to `isRunning`, and nothing else.
* `uncollected` is a history variable: premium recorded and not yet collected.

Prices and amounts are whole numbers where the code has floating-point ones, and
the fair premium is any rate of a set; `Payoff` and `NetPremium` are the integer
arithmetic of the code. The event ring is in `EventLog`. Left out: statistics, read-only
endpoints, the six-hour clock of the schedule (a roll may start at any time).

### MarketMakers

Extends `RfqRouter`: the router's `Connect`, `Quote`, `LateQuote`, `Lose` and
`Close` happen when a maker's process or the network makes them happen. `link`
is a process's socket, `known` the requests whose asset it remembers
(`rfqVaults`, `rfq_map`), `drafts` quotes that wait for their timer or task,
`sent` quotes on their way, `handled` the messages of `received` a process has
dealt with, `transfers` the premium transfers begun. A transfer that throws at any
of its calls to the RPC, or whose transaction never lands, fails for good
(`TransferFails`): `mock-mm.js` logs the exception, `rust-mm` returns the error, and
neither tries again. The two implementations
differ where the model tells `MockMakers` from the rest: `mock-mm.js` pays a
request it does not remember, into a default vault, and checks its balance
first; `rust-mm` does not pay it, and sends a quote only over the connection the
request came on. `Spend` is whatever else the wallet pays. Left out: the
pricing, and the makers' delays.

### VaultClient

Extends `Vault`: the transactions of the pages are the vault's own actions, sent
with what the page showed when they were built. One page is open at a time (`page`),
the earn page or the portfolio's window of a position, each with its own conditions
for a request and a claim (`EarnOffersClaim`, `WindowOffersClaim` and so on). A page
that is opened starts from nothing; the refreshes of the one that was left run on and
write to the cache they share, but show nothing (`mounted`). `fetch[f]` is one
`fetchData` in progress, with the wallet it began for and what its closure remembers
(`captured`); one action is what it does from one await to the next. `cache` is
`localStorage`, `shown` the state the page renders. `RequestEpochs` and `Newest` are
`getUserWithdrawalRequest`, which returns the newest request it finds, and takes an
epoch whose read fails for one without a request. A wallet without `signTransaction`
(not in `Signing`) is shown with its shares; no request is looked for, and what the
closure remembers is cached for it. A call to the RPC may fail (`MaxFaults` bounds how
often), and wallets and pages may be exchanged (`MaxSwitches`). Left out: amounts in
tokens of the asset, which follow the same pattern as the shares, metadata of the
vaults, rendering, and two pages open at once, in two tabs.

### VaultSetup

One asset id. `existing` is the set of accounts at the addresses derived from it;
Anchor's `init` refuses an account that exists, which is all that guards a second
creation. The instructions are those of lib.rs that create and close accounts; the
others of the vault appear as tokens that come and go (`holding`), since the token
program closes only an account that is empty. `script[s]` is a process and where
it stands, one step between two awaits. A transaction that is not confirmed may be
`outstanding` and land when the process has ended (`Lands`), or expire with its
blockhash. `ByHand` is what the authority does without a script.

### AllVaults

A hook of React is its state and the runs of its effects. `load[f]` is a `fetchData`
under way, and the two caches of `localStorage` are an entry per wallet and one for
the list; what is read of a vault is abstracted to whether it could be read, and
balances to the wallet they are of.

### The services

* `RateLimits`: the sliding window of `SimpleRateLimiter`, the window per maker of
  `checkRateLimit`, and the tiers of `rate-limiter.ts` with strikes, blocks and
  cleanup. `admitted`, `served` and `banned` are histories, and the state of
  `AdmissionLimit`: at most so many requests in any window (a fixed window, which
  forgets at its end, gives twice its limit), and none before a ban is over.
* `MintRegistry`: `validation[v]` is a `validateMint` that awaits the chain, with
  the entry it holds; `Detached` is what becomes of it when another object takes
  the entry's place in the map; `Outcomes` are what reading and classifying a mint may
  give. `ban` is a history.
* `SecurityMonitor`: `StackDepth` stands for the calls of `logEvent` that a stack
  has room for, which is what ends the recursion with `detectAnomalies`.
* `RfqClient`: sockets, the connection the client thinks it has, timers; requests;
  executions, whose transaction the chain processes or not. `onChain` has those it
  processed, also unsuccessfully, since the client does not look at `value.err`; and a
  `fill` message sets the status of a request without any execution.
* `WalletActivity`: a transaction is its place in the wallet's chain, so that the
  signatures after another are those with greater places. `skipped` is a history.
* `PriceSampler`: an interval timer is its number; `replaced` is a history.
* `ApiRoutes`: a request is what it read before its await. `grants` and `minted`
  are histories.
* `PriceRoute`: a price and a volatility are the times they were read at, and a token
  is a token. A request goes from query to query, each of which may need a token, and
  no call has a time in which it answers. A request whose trades cannot be had answers
  with what was cached when it began, marked stale (`TradesFail`). `answered` is a
  history: the last answer with a price.
* `VolatilityOracle`: prices stand for their logarithms, so that a return is a
  difference, and scores are hundredths, of which a source's confidence is any from 0
  to 100; the statistics are in whole numbers, exact up to the rounding of a square root. A row is placed where the query
  `order by timestamp` may return it, among rows of the same time anywhere. `NaN`
  is what the variance of a single return gives.
* `Candles`: the trades are any list the data service may answer with, each with an
  amount in parts of a dollar, and a volume is the rounded sum, which may be 0 where
  there were trades (`Volume`). The loop that fills the candles takes a step per bucket.
* `EventLog`: a refresh is a `fetchEvents` with the `lastEventTime` of its closure,
  which asks the services in turn, each at its own moment. `asked` is which of the
  two URLs are configured. The services and the page have one clock, and ids do not
  collide. Two histories say what the page passes over: `onTheWay` has the times that a
  refresh let pass between a service's answer and `setLastEventTime`, `unanswered` those
  from which a refresh asked a service that gave no answer, up to where the other
  service's events moved the page on. `RestartService` empties a ring.
* `VaultTiming`: a view is a component with its own copy of the vault data, which
  computes its countdown when it is given data or its timer fires. `Second`,
  `Minute`, `Hour` and `Day` are scaled down and keep their order and divisibility;
  `FirstMoment` places the clock before the turn of a day. The text made of the
  time left is left out.

* `OptionsMath`: volatilities are hundredths, as the code's tolerances and limits
  are, so that a search by halving ends between two neighbours; the formula of Black
  and Scholes is a table of prices, one for each volatility, of which the module
  assumes only that it does not fall. The statistics of past prices are any deviation
  of a set; how they are weighted, adjusted for term and skew and clamped is the
  code's. One action is one iteration of a search.

## 3. The runs

| Run | Bounds | Shows |
|---|---|---|
| `MCVaultShares` | 2 users (symmetric), amounts 1 and 2, 3 epochs, no options | shares accounted for, requests honourable, refinement of the fund (nobody is diluted, and nobody's shares move but by their own doing) |
| `MCVaultAuthority` | 1 user, 1 maker, u64 of 0..9, 3 epochs; either exposure, premiums of 0 and 2 and settlements with a clock to 1, or 1 duration and 2 caps to change to, a timelock of 2 and a clock to 5 | types at the limit, assets backed, a withdrawal leaves others their premium; the timelock for each parameter |
| `MCRouterAuction` | 2 makers, 3 sockets, 1 request (symmetric) | refinement of the auction (which a request given up cannot be awarded in), one winner told, no stale registration |
| `MCWaits` | each alone. Router: 2 makers, 2 sockets, 1 request, 1 wait, clock to 2. List: 2 vaults, 1 wallet and none, 2 loads, 2 troubles. Scripts: 1 process, 1 instruction outstanding, a whitelist of 2 | waits are answered; every vault is listed again; the whitelist script, repeated, sets up |
| `MCMarketMakers` | 1 maker of each kind, 3 sockets, 1 request, restarts | a premium is paid once and as awarded, the transfer of an awarded one is tried, quotes carry the right wallet |
| `MCKeeperTasks` | 2 tasks (symmetric), 1 depositor, 1 maker, another vault in the rolls, 1 price (no payoff), clock to 4, room for two epochs to end | an epoch is credited its own premium, also by rolls that do not exclude one another |
| `MCKeeperLive` | 1 task, 2 prices, a premium whose double is above the program's yield limit, 1 restart, clock to 3, 2 epochs | no premium is collected that was not recorded, an epoch with options sold ends although payments fail, unless what is recorded is above that limit |
| `MCVaultClient` | a wallet that signs, one that cannot, and none, both pages, 2 refreshes at once, 1 fault, 2 changes of wallet or page, 1 share, 3 epochs | the cache keeps a signing wallet's own, claims are for requests there are, an open window pays |
| `MCServices` | each service alone: 1 client and a clock to 6; 1 mint, 2 validations; 2 sources; 2 sockets, 2 executions; 2 fetches, 3 transactions; 4 timers; 3 requests; 2 overlapping calls; 3 trades; 3 rows of confidence 0 and 5 and 3 daily prices; 2 refreshes of one service's 4 events and of two services' 3, in rings of 3; 2 views of 10 states of a vault; 3 options with 601 volatilities | one or two properties of each, and that the limiters implement `AdmissionLimit` |
| `MCVaultSettlementCap` | violation | lib.rs:531 "Settlement capped at epoch premium earned": each one is, their sum is not |
| `MCKeeperBacked` | violation | index.ts:620-621 "CRITICAL FIX: Transfer the actual premium tokens": half of what is credited never arrived |
| `MCVaultReuse` | violation | lib.rs:887 "enabling reuse of asset IDs": the share mint is left, which `initialize_vault` would have to create |

Why the bounds are enough to be interesting: a vault of 0 to 4 tokens with a
virtual offset of 2 rounds in nearly every conversion; three epochs let requests
of two earlier epochs be open at once; `U64Max = 9` puts every counter within
reach of overflow; a timelock of 2 with a clock to 5 has room for a complete
round and an interrupted one; three sockets for two makers let one reconnect
while its old socket's close event is outstanding. Two tasks are enough for one
procedure to overtake another at each await; a deposit of 10 with a cap of eight
tenths lets an epoch be rolled twice; prices 10 and 20 settle out of and in the
money. `MCKeeperTasks` has one price, since two at two tasks
are millions of states more and payoffs are the subject of `MCKeeperLive`; its
clock of 4 is what lets a settlement that began in one epoch reach
`advance_epoch` after that epoch, and nearly the next one, has ended. Two
refreshes, requests or fetches at once are enough for one to overtake another at
each await, and a cached token or price can expire while either waits; a client
of two requests a window of 2 is blocked, cleaned up and blocked again by time 6.

With one share, a wallet of `MCVaultClient` never has a second request beside an
unpaid one, so the case in which a later request hides an earlier (`WindowPays`) does not
arise there; with two shares the states are too many. The limits of `MCServices` put
every block at a window or longer, which `LimitsOK` asks for: so long are the blocks
`check` begins (an hour, rate-limiter.ts:40), while `block` (148) would take any duration.

The bounds in guards are `MaxTime` (the clock), `MaxEpoch` (`AdvanceEpoch` stops),
`LastPremiumTime` and `OnlyDeposit` (the two foci of `MCVaultAuthority`), `MaxRestarts`, `MaxOwed` (what makers owe at once),
`MaxFaults`, `MaxSwitches`, `MaxServed`, `CountBound`, `MaxLogged`, `MaxTxs`,
`MaxTrades`, `MaxRows`, `MaxDaily`, `MaxRecorded`, `MaxOutstanding`, `MaxTroubles` and the sets
`Fetches`, `Calls`, `Requests`, `Intervals`, `Sockets`, `Executions`, `Processes`,
`Loads`, `Refreshes` and `Views` (how many of each there are); `Horizon` is the last
time of each service (0 for the wallet's history, where block times are equal or
missing; 1 for the oracle, whose `MinPoints` of 6 and `IdealPoints` of 8 put three
rows so far below the minimum that the weight of low confidences goes below zero, as
the code's 30 and 90 do a short table). `EpochsEnd` and `WaitAnswered` name `MaxTime`
and `MaxEpoch` where they cut a behaviour short. `Tasks` bounds the procedures in
progress. `SettleTime` is no such bound: it stands for the timeouts of a settlement's
calls, and `Pass` lets no settlement outlast it.

Deadlock checking is off: the clock and the epoch stop at their bounds, and a
closed vault really stops; the keeper has done all it can when both have.

**Fairness.** The vault alone has none: nobody need ever call it. `RfqRouter!Fairness`:
time passes and an interval timer that was not cleared fires again.
`MarketMakers!MFairness`: a message that arrived is handled and a transfer that
began goes on, lands or fails; no socket needs to open. `VaultClient!CFairness`: the
refresh interval goes on, cache entries grow old, calls return, a transaction lands or
fails, and whoever is shown a button to claim presses it some time; nothing makes the
epoch advance, and no page needs to be opened. `RfqClient!ClientFairness`: a socket that opens does or
fails, a close event comes, timers fire. `VaultSetup!SetupFairness`: a process goes
on or dies, and an instruction that is sent again and again is confirmed some time;
no script need ever be started. `AllVaults!ListFairness`: the interval fires, entries grow
old, reads return, also as failures. `MCWaits` states each of them for the component
that runs (`RouterFairness`, `PageFairness`): of the others nothing is ever enabled. `Keeper!KeeperFairness`: time passes, a procedure that can go on does (weak
fairness: promises settle, calls have timeouts), the interval starts checks
again and again and a check that finds an epoch over settles it, and a call that
is repeated for ever succeeds at some time (strong fairness of fetching, pricing
and `advance_epoch`). A payment may fail every time. No other action is fair.

## 4. What is proved

`VaultProofs` proves for every set of users, all amounts, limits and bounds that
satisfy `ConstantsOK` (the users are finite, the numbers natural, the virtual
offset positive):

* `TypeCorrect`, `SharesAlwaysAccounted`, `AssetsAlwaysBacked`,
  `RequestsAlwaysHonourable`: the invariants of the runs;
* `NeverEmpties`: assets stay behind while there are shares, a part of the inductive
  invariant that no run checks beside the proof;
* `VaultIsFund`: the vault implements `ShareFund` (below);
* `PriceNeverFalls`: no step dilutes anybody, which the fund's price already says and
  no run checks beside it;
* `PremiumStays`: the action property of a run;
* `WithdrawalsAlwaysGated`: nothing leaves the vault but for an unpaid request of an
  earlier epoch, which follows so nearly from `process_withdrawal` that no run
  checks it beside the proof.

All rest on one inductive invariant, `IInv`, the conjunction of `TypeOK`,
`SharesAccounted`, `AssetsBacked` and `VaultNeverEmpties`. None of the four is
inductive alone: that balances stay natural numbers needs the shares to be
accounted for; that a withdrawal leaves assets behind needs the shares it redeems
to be fewer than the effective shares, which follows from the accounting and
from the offset being positive; the accounting needs the addresses of requests
to be fresh and their amounts natural. `NextIInv` has a lemma for each action
that touches shares or assets and one for each group that does not. The
arithmetic is in a handful of lemmas about rounding down (`DivBounds`,
`PartWorthLess`, `MintKeepsPrice`, `RedeemKeepsPrice`). The lemmas about `Ledger` say
how the total of a ledger moves with one account; the total is defined as a
cardinality so that the library's theorems about finite sets apply, where a fold
would need an induction.

`ShareFund` is the vault as its depositors see it: a holder pays in and has shares,
asks, redeems what was asked for, or gives shares away, and each of these says at what
price at most. Requests, epochs, premiums, exposure, settlements, the pause, the
timelock and the whitelist are not in it. The refinement maps `supply` to the
effective shares and `asked` to the total of a user's own open requests
(`SharesAsked`). That every step of the vault is one of the fund, or none of its
state, is in four lemmas, one for each instruction that moves shares and one for the
transfers; they rest on `IInv`, for instance in that a deposit finds no effective
shares only when there are no shares at all.

`KeeperProofs` proves, for any number of tasks and of other vaults, any prices,
rates, timeouts and bounds that satisfy `KeeperConstantsOK`:

* `VaultHoldsUnderKeeper`: the vault's accounting, backing and non-emptiness
  hold under the keeper, whose amounts are computed and not members of the sets
  of the vault model;
* `FundUnderKeeper`: the vault implements `ShareFund` under the keeper too. Of the
  keeper's own steps none touches a share or the assets, and those of the
  depositors between two awaits are steps of the fund as before, so the refinement
  carries over from `StepOfFund`, which is stated of a single step for that;
* `KeeperTypes`: no amount the keeper computes goes negative, which no run checks
  beside it;
* `CollectionFollowsRecord`: the invariant of `MCKeeperLive`;
* `OneVaultRollsExclusive`: with one vault, rolls exclude one another. With several they
  do not (section 5), so no run checks it: `MCKeeperTasks` has another vault in its
  rolls, and shows what holds although they overlap;
* `CreditsAreOfOwnEpoch`, under the hypothesis `Prompt` that the timeouts of a
  settlement are shorter than any epoch: an epoch is credited its own premium.

They rest on `KInv`, which adds to `IInv` what relates tasks to the vault: the
roll's flag is set while a task rolls (`FlagHeld`); the premium recorded and not
collected covers what tasks are about to collect (`InFlight`, whose total moves
with one task at a time, so the lemmas about ledgers serve here too); and the premium
a settlement has read is still in the vault, unless an epoch has ended since the
settlement began (`FreshOrEnded`). The last is what makes `CreditsAreOfOwnEpoch`
true: an epoch that ended since then cannot end again before `min_epoch_duration`
has passed, which is longer than the settlement can last. `TaskStep` says once
what a step of a task must satisfy, and the lemmas for the actions show that it
does.

`RfqProofs` proves, for any finite set of makers and any sockets, requests,
prices, floors, quorums and timeouts that satisfy `RouterConstantsOK`:

* `RegistrationsFresh`, `OnlyWinnerTold`: the invariants of `MCRouterAuction`;
* `RouterTypes`, `DeadRequestsStayUnfilled`: the types, and that a request given up
  is never filled, which the runs do not check beside the proofs and the refinement;
* `RouterIsAuction`: the router implements `RfqAuction`. `StepsSimulated` shows
  that each handler is a step of the auction or changes nothing the auction
  knows of.

`RInv` adds to the invariants that a winner or loser is told only of a filled
request (`MessagesSent`), and that a request given up is late or has no valid
quote, which lasts because quotes only expire and no new one is taken
(`Decided`). `BestIsValid` is what a `CHOOSE` needs: among finitely many quotes
there is a best one, the one that the fewest others rank before.

`RfqProofs` also proves, for any makers of either kind, any sockets, requests,
prices, delays and funds that satisfy `RouterConstantsOK` and `MakersOK`, of router
and makers together:

* `PremiumPaidAsAwarded`: a premium is paid at most once for a request, as it was
  awarded, and into the default vault only by a `mock-mm.js` that was restarted;
* `WalletsCarried`: the wallet in a quote is its maker's own, and is missing only
  once that maker has lost a socket.

`MInv` takes `RInv` over from the router, whose handlers run here too, and adds
that a fill is sent once (`OneFillSent`), to a maker that has quoted
(`WinnersQuoted`), and that every transfer follows a fill that was handled
(`TransfersTold`): together they make a second payment impossible. That it goes
into the right vault needs the memory of the processes: who quoted a request, has a
quote on its way or a draft of one, remembers the request until its fill is handled
or has been restarted (`QuotesRemembered`). The wallets need `LossesKnown`: a maker
that opened a socket and is not registered has lost one.

`RateLimitsProofs` proves, for any windows, limits, clients, tiers and block
durations that satisfy `LimitsOK` (a block is at least as long as a window),
`LimitersKeepPromise`: the three limiters implement `AdmissionLimit`. Its
invariant `LInv` says what a limiter remembers of what it admitted: the sliding
window every request not yet out of the window (`HttpInv`), a fixed window how
many there were in it and that there were no more than the limit in the one
before (`Kept`), a tier without a record that it has admitted nothing lately, and
a tier's block that it outlasts all the requests before it (`TierInv`); the last
is what lets the count begin anew when a block is over. A history is needed to
say any of this, which is why the requests admitted are a variable.

`VaultProofs` also proves, for any parameters, delays and bounds that satisfy
`ConstantsOK`, `TimelockHolds`: the timelock of `MCVaultAuthority`. Its
invariant `TimelockInv` says that a value that is pending was asked for, no later
than now, and that the lock ends at least a whole timelock after that. Both
parameters share one lock, so each action must keep it for the parameter it does
not touch: queueing only moves the lock later, and executing or cancelling clears
both.

`VaultClientProofs` proves, for any wallets, refreshes, amounts and bounds that
satisfy `ConstantsOK` and `ClientOK`, of the pages and the vault together:

* `CachesAlwaysOwn`, `ClaimsAlwaysFounded`: the invariants of `MCVaultClient`, the first
  for the wallets that can sign, since the others are cached what another wallet was
  shown (section 5);
* `PagesKeepVault`: what the pages send, whatever they showed when they built it,
  leaves the vault's accounting, backing and requests as they should be;
* `FundUnderPages`: the vault implements `ShareFund` behind the pages too: what was
  built from a stale page is a step of the fund when it lands, or is refused.

`ClientInv` adds to `IInv` that what a page, a cache entry or a refresh under way
says of a request is of a request that stands on chain, of the wallet it is kept
for (`CachesStand`, `ShownStands`). It lasts since the program only moves requests
onward (`Onward`): none goes, none changes its shares or becomes unpaid again, and
the epoch does not fall. That is proved of each instruction once, and is all that
the proof for the pages needs of the vault.

`ServiceProofs` proves the invariants and action properties of the services, each for
any sets, times and limits that satisfy the named assumption of its module:

* `CooldownHolds` (`RoutesOK`): two mints of the faucet to one wallet are within the
  cooldown only if they were under way together. `RoutesInv` adds that time has passed
  what is recorded (`Past`), that a mint that was confirmed is recorded, or a later one
  is (`Recorded`), and that a request under way which began after a confirmed mint
  has passed the check against it (`Passed`).
* `BansAlwaysSeen` (`RegistryOK`): `RegistryInv` says that a mint that is banned has an
  entry that says so, and that the entry a refresh holds is still in the map:
  whatever replaces it detaches the refresh.
* `FillsAlwaysProcessed`: `TradeInv` adds that an execution is of a request that is
  kept, and that one past its confirmation has its transaction on chain. It is stated of
  the fill that is recorded, which only `executeOption` writes, and says that its
  transaction was processed, not that it succeeded.
* `ClosedStaysClosed`: an asset id whose vault was closed is closed for good, for any
  processes, instructions under way and faults; the share mint, which nothing closes,
  is the reason. It is the general form of what `MCVaultReuse` finds.
* `TimersAlwaysStoppable` (`FeedsOK`): `SamplerInv` says that a function that stops a
  timer stops one of its own key, and that a timer without one yet is its asset's Pyth
  timer, for which the start under way is about to keep one.
* `NothingEverPassedOver`: `ActivityInv` relates every cache entry, and every list a
  fetch under way took from one, to the wallet's chain: up to the newest transaction
  it has, it lacks none but those a stored fetch left out (`EntryFine`), and a fetch
  took it before it asked how far the chain goes (`FetchFine`).
* `CountdownsAlwaysAgree` (`TimingOK`): `TimingInv` says of a countdown shown that it
  leads to a whole number of strides from the vault's own origin, and no further than
  the next of them unless it is the first.
* `CountsAlwaysCover` (`MonitorOK`): what logging, the overflow of the buffer and
  clearing leave in the buffer is taken from what was there, in its order (`Taken`), so
  that no source has more of it than before.
* `EventsAlwaysShown` (`EventLogOK`): `LogInv` relates the three places an event can be
  in. A refresh under way has, of each service it asked, every recent event between its
  `since` and the moment the service answered (`RefreshOK`); the page shows what is
  recent and not later than `lastEventTime`, but for what is too old for it and what a
  refresh passed over (`ShownOK`); and wherever an event is, no other has its id
  (`Identified`), without which the page could take a new event for one it shows. An
  event recorded in the very millisecond of `lastEventTime` is among those passed over.
  What the page shows of what it had and what came is `MergedIs`, from what a filter
  keeps (`OnlyIs`), what a stable sort keeps (`InOrderIs`: counted from
  the end, no place has an earlier event than before) and what a cut leaves
  (`SliceIs`).

`PricingProofs` proves the invariants of what fetches, shows or computes a price, for any
prices and times, under the named assumption of each module:

* `OnlyMarkedStaleHolds` (`PriceOK`): `PriceInv` follows a price from the query that
  read it (`CallsOK`) into the cache (`CacheOK`) and from both into the answers, however
  long a service takes. An answer whose trades could not be had may be of any age, and
  is marked (`stale: true`, 590-596); nothing is said of the expiry of the token, which
  the code counts from the moment its answer arrives (178), however late that is.
* `CandlesAlwaysFaithful`: `CandlesInv` says that between two turns of the loop
  `lastClose` is the price at the end of the bucket before, that the map is what its
  trades make it, and that there is a candle for each bucket before the loop's time. A
  volume is the rounded sum; before the first trade of the range a candle is only said
  to be flat.
* `ImpliedVolAlwaysFound` (`OptionsOK`, `IterationsOK`): `BisectionInv` says that a
  volatility with the price asked for, if there is one, is still in the bracket, and
  that the bracket is no wider than so many halvings allow (`Width`), so that when the
  iterations end the bracket is empty.
* `EstimatesAlwaysSound` (`OracleOK`): the answer lies between its sources, or is beyond
  the market's, on either side, by at most the part of their distance that the missing
  points take (`Shortfall`, 0.12 of how far the score of the points goes below zero).
  That happens: `calculateConfidence` counts fewer than `MinPoints`
  points below zero, so a weight can be negative where the confidences of the rows are
  low. `OracleInv` says that the rows of the table have a confidence of 0 to 100, and
  that of the two estimates a request has by now each is a volatility or NaN. What
  remains is that nothing else makes the weight negative, erratic returns for one: the
  kurtosis of `n` returns is at most `n - 3`, since the sum of the squares of numbers
  that are not negative is at most the square of their sum (`TotalOfSquares`,
  `KurtosisBounds`), and few returns cannot be erratic.

Several of these need an induction, over the elements of a sequence or the number of
halvings, and the library's theorems of induction take an operator (see below).
`Numbers` has one that takes a set in its place, `InductionUpTo`, which rests on the
smallest number outside it (`SomeSmallest`, that is `WFMin` of the library for `<`).
With it a recursion over `1..n` whose steps are a function that stays in a set has one
solution (`RecursionExists`, `RecursionUnique`), which is how what a recursive function
of a model computes is known (`TotalIs`, `ReturnsAre`, `StoredIs`, `HistoryIs`).

What proving changed in the models: `VaultTiming!MinDuration` and
`RfqRouter!PollOutcome` were written with `CASE`s whose guards overlap, where the order
of the code's tests decides and nothing could be proved; `SecurityMonitor!Since` and
the sums, returns and rows of `VolatilityOracle`, which were folds or operators of the
community modules, are recursive functions, and so are the filters and the sort of
`EventLog`, whose refresh adds up what the services answer as the code does; a batch of `BackfillStores` ends where the
rows do, as `slice` has it, where `SubSeq` beyond the end has no value one can reason
about; `FeedsOK` and `RegistryOK` name what the modules had
assumed of their model values.

Only model-checked:

* liveness (`WaitAnswered`, `EpochsEnd`, `FillsAttempted`, `WindowPays`, `Reconnects`,
  `VaultsListed`, `RerunsSetUp`), which needs fairness and ENABLED, out of the prover's
  reach;
* what the three violation runs find.

## 5. Disagreements with the documents

The three violation runs are disagreements between the code and its documents or
comments, recorded as findings. The following have no run; those with a property
in brackets are found by TLC when that property is checked as an invariant:

* rfq-router/index.js:6 "Broadcasts RFQs to connected market makers via WebSocket":
  the close handler (242) deletes `makers[makerId]` without comparing sockets, so
  the late close of an old socket unregisters the maker's new one
  [`RfqRouter!ConnectedMakersRegistered`].
* keeper/src/index.ts:692-693 "Epoch roll already in progress": with two vaults, the
  end of the first one's roll clears `isRunning` (677), and the second can be
  rolled twice at once [`Keeper!RollsExclusive` in `MCKeeperTasks`].
* rfq-router/index.js:125-143: the limit of 100 per minute is only asked when a
  maker connects, not for its quotes.
* mock-mm.js:5 "On fill, transfers USDC premium to vault's premium account": a maker
  that restarted since the broadcast pays into the default vault (250)
  [`MarketMakers!PaidToOwnVault`]. A transfer any of whose calls throws is logged (330;
  main.rs:329 returns the error) and never tried again, so an awarded premium may stay
  unpaid though no socket was lost and funds suffice.
* vault-sdk.ts:527 "Check if user has a pending withdrawal request": the search
  ends at the newest request of an earlier epoch, processed or not, and an
  unpaid one before it is not found; an epoch whose read fails is passed over (557).
* useVault.ts:245 "Refresh data after transaction (bypass cache)": `fetchData`
  compares the new balance with the one its closure remembers (154-164); when
  they are equal and the state has another, the old one stays. The cache path
  does not touch `lastVaultHash`, so data shown from an old entry can stay too, and
  with it an epoch that hides the earn page's button (646): an open earn page may never
  offer a claim until the vault's data change.
* useVault.ts:166 "Check for pending withdrawal": for a wallet without
  `signTransaction` none is looked for (167), and the request of the wallet shown before
  (151) is kept on the page and cached under the new wallet's key (185-191).
* portfolio/page.tsx:268 offers a claim for a request that was processed already,
  and its "max" (111) rounds up where the earn page rounds down.
* mint-registry.ts:27 "Blacklisted, reject all transactions": a ban during the
  fetch of an unknown mint is overwritten by the tier of its metadata and the
  mint is called valid. A suspicious mint is refused when it is classified (121)
  and accepted when it is found in the registry (94).
* monitoring.ts:119-122: the alert of a critical event is never sent for an
  anomalous source, since `logEvent` and `detectAnomalies` call each other until
  the stack is exhausted.
* RFQClient.ts:114 "Disconnect from the RFQ router": the close event that follows
  starts a reconnection. The close of an older socket clears `isConnected` while
  another is open; `executeOption` looks neither at the status of the request nor
  at the expiry of the quote, nor `confirmTransaction`'s `value.err`.
* useWalletActivity.ts:185: transactions that could not be read, or are of a vault
  the cached list lacks, are before the newest one cached and never asked for
  again; a late fetch for the last wallet overwrites the list of the next.
* api/price/route.ts:24 "always keep this short": the current price is cached with
  the candles, for up to 24 hours, under a key without the symbol. Buckets before
  the first trade get the close of a later one (434-455).
* api/auth/verify/route.ts:77-87 and api/faucet/route.ts:135: requests that overlap
  are granted beyond `max_uses`, and mint again within the cooldown.
* hooks/useRfq.ts:114-117 "clearInterval(interval); if (fillTimer)
  clearTimeout(fillTimer)": a poll that answers after its effect was cleaned up
  shows the request of before, or starts a fill timer that nothing clears.
  `acceptBestQuote` (168-178)
  looks at the quote of the request shown and fills the current one; the return at
  104-107 "Stop polling" stops nothing; a fill that failed is never tried again.
* useVault.ts:514 "Only update state if data actually changed": the path through
  the cache (432-440) does not touch `lastDataHash`. After a change of wallet that
  the cache answered, a load with the result of the load before leaves the other
  wallet's balances on the page [`AllVaults!OwnShownInTheEnd`]. Nor does it set
  `vaultIds`, so that a page that was loaded again has vaults and no list of them
  until a load completes.
* create-vault.ts:2 "with automatic metadata creation": a run that created the vault
  and not its metadata is not repaired by another, which exits at 178-182 since the
  vault is there.
* infra/keeper/src/init-demo-v2.ts:59 and init-demo-v3.ts:68 call `initializeVault`
  with fewer arguments (v2), or a share mint that is not the derived address (v3),
  which the program refuses.
* volatility-tracker.ts:99 "Use n-1 for sample variance": two snapshots give one
  return, and 0/0; the final volatility is then NaN, which no caller looks for. A
  confidence of 0 counts as full (166). A backfill that is run again stores every row
  twice.
* hybrid-volatility.ts:34 "weight for on-chain data (0 to 0.7)" and :144 "Base weight
  from confidence (0-0.4)": `calculateConfidence` goes below 0 for few points
  (volatility-tracker.ts:153), and with it the weight (145) when the rows' own
  confidences are low (below 0.41 with 30 and 90 points). The answer is then beyond the
  market's volatility on the side away from the other; `EstimateSound` says by how much.
* api/price/route.ts:178: the token's lifetime is counted from when its answer arrived,
  and the fetch (157) has no timeout, so the 60 s of buffer (152) may not cover it.
* hooks/useRfq.ts and lib/rfq-client.ts send requests with `optionType` "CALL" and
  without `side`, which the router's `validateRFQ` (security-middleware.js:85-109)
  refuses, and expect statuses in capitals where the router's are not.
* README.md:302 "Maximum 80% of TVL can be exposed to options at any time": the
  cap is looked at only when exposure is recorded (lib.rs:457); a withdrawal
  afterwards lowers the assets and leaves the exposure above it.
* README.md:243 "First depositor gets **full value** of their deposit" (also
  lib.rs:85): shares are minted 1:1, and `process_withdrawal` divides by
  `total_shares + virtual_offset`, so the offset's part stays behind.
* useVaultTiming.ts:8 "Handles both production (weekly/daily) and demo (3-minute)
  epochs": where the vault has no duration of its own, the pages count down 900 s
  for a demo vault (vault-timing.ts:31) and the keeper 180 s (index.ts:747).
* app/v2/logs/page.tsx:304 "Events will stream here in real-time": the page asks
  from the moment it showed the last answers (115), so an event that a service
  recorded after it answered (`onTheWay` in `EventLog`), or that it has had all along
  while it could not be reached and the other service answered (`unanswered`), is never
  shown.
* index.ts:891-892 "Continue with epoch advance even if settlement payment fails /
  This prevents the vault from getting stuck": recording (index.ts:613) and
  collecting (index.ts:631) both add the premium to `epoch_premium_earned`. Where
  twice the premium is above the yield that `advance_epoch` accepts and below
  the keeper's own cap (index.ts:898-917), every settlement is refused and the
  epoch never ends. `PremiumRates = {4}` puts `MCKeeperLive` there, and `EpochsEnd` has
  to excuse it by `YieldTooHigh`; without that it fails.
* earn/[ticker]/page.tsx:609 "Withdrawals unlock at epoch end": nothing else ends an
  epoch than the keeper's settlement. Where that is refused for ever (above), no
  request unlocks; and where the vault is idle and so much of it is asked for that there
  is too little to roll (index.ts:377), none does until somebody calls `/settle`.
* README_V2.md:181 and :191 "Uses actual MM wallet from VaultStats (not keeper
  wallet)": the keeper takes the wallet from the router's reply (index.ts:581),
  which has none (rfq-router/index.js:560-565), so it pays its own.
* index.ts:770-771 "we MUST settle first": the lifecycle check does not look at
  what the settlement returned (index.ts:774) and rolls although it failed, as
  it always does for premium that was collected after its epoch ended.
* lib.rs:369 says of `advance_epoch` that the premium "is credited to
  total_assets" where the code credits `premium_balance_usdc`.
* README.md:285-297 places the premium checks in `record_notional_exposure`
  where the code has them in `advance_epoch`.

## 6. Plan

1. Done: `Vault` with its histories and proofs; `RfqAuction`, `RfqRouter`;
   `Keeper`, composed with `Vault`, and its proofs; `MarketMakers`, composed with
   the router; `VaultClient`, composed with the vault; the services;
   `VaultSetup` (orphaned accounts, what can be created again after a close);
   the hook `AllVaults`; the views `EventLog` and `VaultTiming`.
2. Done: proofs that the limiters implement `AdmissionLimit` and the router
   `RfqAuction`, with its invariants; that the makers pay as they were awarded; of the
   pages' caches and claims; of every invariant and action property of the services.
3. Done: the fund, what a depositor may rely on, that `Vault` implements, with the
   step simulation proved.
4. Not done: the keeper composed with `MarketMakers` in place of its answer.

### Not modelled

Floating-point pricing (the keeper's and the SDK's) but for the searches of `OptionsMath`,
rendering and charts, external services but for their answers and failures,
statistics, read-only endpoints but for the events, the stateless validators, builders
and formatters, the scripts that only look or send a single instruction. The pages that
trade and the hook they share (`useRfq.ts`, `rfq-client.ts`) are not modelled: the router
of this repository refuses every request they make (section 5), and a router that took
them would be one that is not here.
