--------------------------- MODULE DeepBookPanel ---------------------------
(***************************************************************************)
(* Trading a HashShare against a quote that routes through DeepBookV3:     *)
(* web/components/market/DeepBookSwapPanel.tsx with useDeepBookPool.ts,    *)
(* useBalanceManager.ts, lib/deepbook-client.ts and lib/deepbook.ts.       *)
(*                                                                         *)
(* The panel finds the pool of its pair, tells the SDK about it, and sends *)
(* swaps; for resting orders it wants a balance manager.  The SDK's client *)
(* is built once per wallet and copies the pools known at that moment.     *)
(***************************************************************************)
EXTENDS Integers, Sequences, FiniteSets, SequencesExt

CONSTANTS
  Pairs,          \* pairs of a HashShare and a quote
  GasPairs,       \* those quoted in SUI, paid from the gas coin
  Wallets,        \* accounts the user may connect
  NoWallet,
  Blank,          \* no pair yet; an empty price field
  WalletHeld,           \* whole units of every coin in a wallet
  SwapAmounts,    \* whole numbers the user types
  ScanDepth,      \* PoolCreated events the page walks back through (5 pages of 50)
  MaxPanelJobs,   \* bound: transactions in flight
  MaxBms          \* bound: balance managers created

ASSUME DeepBookPanelAssumption ==
  /\ GasPairs \subseteq Pairs /\ NoWallet \notin Wallets /\ Blank \notin Pairs
  /\ SwapAmounts \subseteq Nat
  /\ {WalletHeld, ScanDepth, MaxPanelJobs, MaxBms} \subseteq Nat

VARIABLES
  deep,    \* DeepBook: the pools, in the order of their events, and the managers' owners
  known,   \* customPools of the module, by pair; 0: none
  cache,   \* the answers of the pool and manager queries, by their keys
  panel,   \* what the panel shows, and the SDK client it holds
  jobs     \* transactions handed to the wallet

panelVars == <<deep, known, cache, panel, jobs>>

Unread == -1
NoClient == [p \in Pairs |-> Unread]

PoolsOf(pair) == {i \in DOMAIN deep.pools : deep.pools[i] = pair}
ShownPool == cache.pool[panel.pair]
Managers(a) == SelectSeq([i \in DOMAIN deep.bms |-> i], LAMBDA i : deep.bms[i] = a)

-----------------------------------------------------------------------------
(* The keeper opens pools, one per pair at most.                           *)

OpenPool(pair) ==
  /\ PoolsOf(pair) = {}
  /\ deep' = [deep EXCEPT !.pools = Append(@, pair)]
  /\ UNCHANGED <<known, cache, panel, jobs>>

-----------------------------------------------------------------------------
(* Reading.                                                                *)

\* getPoolIdByAssets finds every pool but needs a wallet; the walk over the events finds
\* those of the last ScanDepth.
Lookup(pair) ==
  LET from == IF panel.account # NoWallet THEN 1 ELSE Len(deep.pools) - ScanDepth + 1
      hits == {i \in PoolsOf(pair) : i >= from}
  IN  IF hits = {} THEN 0 ELSE CHOOSE i \in hits : TRUE

\* registerHashSharePool, run by the effect whenever the shown pair has a pool.
Registered(pair, pool) == IF pool > 0 THEN [known EXCEPT ![pair] = pool] ELSE known

\* useDeepBookPool and the effect that follows its answer.
FindPool ==
  LET id == Lookup(panel.pair) IN
  /\ panel.mounted
  /\ cache' = [cache EXCEPT !.pool[panel.pair] = id]
  /\ known' = Registered(panel.pair, id)
  /\ UNCHANGED <<deep, panel, jobs>>

\* Mutant: the managers are kept under one key for all wallets.
ReadManagersOfAny ==
  /\ panel.mounted /\ panel.account # NoWallet
  /\ cache' = [cache EXCEPT !.bms = [a \in Wallets |-> Managers(panel.account)]]
  /\ UNCHANGED <<deep, known, panel, jobs>>

\* The query of useBalanceManager.
ReadManagers ==
  /\ panel.mounted /\ panel.account # NoWallet
  /\ cache' = [cache EXCEPT !.bms[panel.account] = Managers(panel.account)]
  /\ UNCHANGED <<deep, known, panel, jobs>>

\* activeManagerId.  Nothing in the page stores a preferred one: it is the first.
ActiveManager ==
  IF panel.account = NoWallet \/ cache.bms[panel.account] = << >> THEN 0
  ELSE cache.bms[panel.account][1]

\* The mid price, which the SDK gives for the pools of its client only, fills a price
\* field that is empty; a price that is there stays, whatever pair it was meant for.
ReadMid ==
  /\ panel.mounted /\ panel.mode = "limit" /\ ShownPool > 0
  /\ panel.client[panel.pair] = ShownPool /\ panel.price = Blank
  /\ panel' = [panel EXCEPT !.price = panel.pair]
  /\ UNCHANGED <<deep, known, cache, jobs>>

-----------------------------------------------------------------------------
(* The user.                                                               *)

\* useDeepBookClient: a client is built for a wallet with the pools known so far.
ClientFor(a) == IF a = NoWallet THEN NoClient ELSE known

Connect(a) ==
  /\ a # panel.account
  /\ panel' = [panel EXCEPT !.account = a,
                 !.client = IF panel.mounted THEN ClientFor(a) ELSE @]
  /\ UNCHANGED <<deep, known, cache, jobs>>

NewPanel(a) ==
  [mounted |-> FALSE, account |-> a, pair |-> Blank, mode |-> "swap", price |-> Blank,
   client |-> NoClient, last |-> "none", pending |-> FALSE]

\* Choosing a quote of the in-house market takes the panel off the page; a later choice
\* mounts a new one.
Mount(pair) ==
  /\ ~panel.mounted
  /\ panel' = [panel EXCEPT !.mounted = TRUE, !.pair = pair, !.client = ClientFor(panel.account)]
  /\ known' = Registered(pair, cache.pool[pair])
  /\ UNCHANGED <<deep, cache, jobs>>

Unmount ==
  /\ panel.mounted
  /\ panel' = NewPanel(panel.account)
  /\ jobs' = [k \in DOMAIN jobs |-> [jobs[k] EXCEPT !.shown = FALSE]]
  /\ UNCHANGED <<deep, known, cache>>

SelectPair(pair) ==
  /\ panel.mounted /\ pair # panel.pair
  /\ panel' = [panel EXCEPT !.pair = pair]
  /\ known' = Registered(pair, cache.pool[pair])
  /\ UNCHANGED <<deep, cache, jobs>>

\* The form is drawn once the pool is found.
SetMode ==
  /\ panel.mounted /\ ShownPool > 0
  /\ panel' = [panel EXCEPT !.mode = IF @ = "swap" THEN "limit" ELSE "swap"]
  /\ UNCHANGED <<deep, known, cache, jobs>>

PanelError ==
  /\ panel' = [panel EXCEPT !.last = "err"]
  /\ UNCHANGED <<deep, known, cache, jobs>>

\* The onboarding button: not disabled while one is being created, and signed by a
\* mutation of its own, so that it does not count as pending.
CreateManager ==
  /\ panel.mounted /\ panel.mode = "limit" /\ ShownPool > 0
  /\ panel.account # NoWallet /\ ActiveManager = 0
  /\ Len(deep.bms) + Cardinality({k \in DOMAIN jobs : jobs[k].op = "bm"}) < MaxBms
  /\ jobs' = Append(jobs, [op |-> "bm", owner |-> panel.account, yields |-> {},
                            handed |-> {}, shown |-> TRUE])
  /\ UNCHANGED <<deep, known, cache, panel>>

\* placeLimitOrder.  Without a manager, a quantity or a price it stops; with them the
\* SDK's builder throws, as no one has put a manager into this client (registerBmOnClient
\* works on the client of useBalanceManager).
PlaceLimitOrder ==
  /\ panel.mounted /\ panel.mode = "limit" /\ ShownPool > 0
  /\ panel.account # NoWallet /\ ~panel.pending
  /\ PanelError

\* What the Move call of a swap returns, and what execute transfers to the user.
SwapYields == {"base", "quote", "deep"}
SwapHands(side) == IF side = "buy" THEN {"base"} ELSE {"quote"}

\* execute: a buy pays from the gas coin or from coins it has counted, a sale from the
\* inventory it has counted.
Swap(side, amount) ==
  /\ panel.mounted /\ panel.mode = "swap" /\ ShownPool > 0
  /\ panel.account # NoWallet /\ ~panel.pending
  /\ LET counted == side = "sell" \/ panel.pair \notin GasPairs
         refused == amount = 0 \/ (counted /\ amount > WalletHeld)
     IN  \/ refused /\ PanelError
         \/ /\ ~refused /\ Len(jobs) < MaxPanelJobs
            /\ jobs' = Append(jobs,
                 [op |-> "swap", pair |-> panel.pair, pool |-> ShownPool,
                  yields |-> SwapYields, handed |-> SwapHands(side), shown |-> TRUE])
            /\ panel' = [panel EXCEPT !.last = "none", !.pending = TRUE]
            /\ UNCHANGED <<deep, known, cache>>

-----------------------------------------------------------------------------
(* The wallet and the chain.  A transaction that leaves a coin unused is   *)
(* not executed.                                                           *)

Runs(job) == job.yields \subseteq job.handed

After(job, kind) ==
  IF ~job.shown THEN panel
  ELSE [panel EXCEPT !.last = kind, !.pending = IF job.op = "swap" THEN FALSE ELSE @]

\* createBalanceManager ends by reading the managers again.
LandPanelJob(k) ==
  LET job == jobs[k] IN
  /\ Runs(job)
  /\ deep' = IF job.op = "bm" THEN [deep EXCEPT !.bms = Append(@, job.owner)] ELSE deep
  /\ panel' = After(job, "ok")
  /\ jobs' = RemoveAt(jobs, k)
  /\ UNCHANGED <<known, cache>>

FailPanelJob(k) ==
  /\ panel' = After(jobs[k], "err")
  /\ jobs' = RemoveAt(jobs, k)
  /\ UNCHANGED <<deep, known, cache>>

-----------------------------------------------------------------------------
PanelInit ==
  /\ deep = [pools |-> << >>, bms |-> << >>]
  /\ known = [p \in Pairs |-> 0]
  /\ cache = [pool |-> [p \in Pairs |-> Unread], bms |-> [a \in Wallets |-> << >>]]
  /\ panel = NewPanel(NoWallet)
  /\ jobs = << >>

PanelNext ==
  \/ \E p \in Pairs : OpenPool(p) \/ Mount(p) \/ SelectPair(p)
  \/ \E a \in Wallets \cup {NoWallet} : Connect(a)
  \/ FindPool \/ ReadManagers \/ ReadMid
  \/ Unmount \/ SetMode \/ CreateManager \/ PlaceLimitOrder
  \/ \E side \in {"buy", "sell"}, amount \in SwapAmounts : Swap(side, amount)
  \/ \E k \in DOMAIN jobs : LandPanelJob(k) \/ FailPanelJob(k)

\* The promise of a signature settles.
PanelFairness ==
  \A k \in 1 .. MaxPanelJobs : WF_panelVars(k \in DOMAIN jobs /\ FailPanelJob(k))

PanelSpec == PanelInit /\ [][PanelNext]_panelVars /\ PanelFairness

-----------------------------------------------------------------------------
(* Properties.                                                             *)

PanelTypeOK ==
  /\ \A p \in Pairs : Cardinality(PoolsOf(p)) <= 1
  /\ known \in [Pairs -> 0 .. Len(deep.pools)]
  /\ \A p \in Pairs : cache.pool[p] \in Unread .. Len(deep.pools)
  /\ panel.account \in Wallets \cup {NoWallet} /\ panel.pair \in Pairs \cup {Blank}
  /\ panel.price \in Pairs \cup {Blank} /\ panel.mode \in {"swap", "limit"}

\* A swap goes to the pool of the pair its coins are of, and so does the SDK, though the
\* quote is switched while answers are out and the answers are kept for minutes.
SwapsNameTheirPool ==
  /\ \A k \in DOMAIN jobs : jobs[k].op = "swap" => deep.pools[jobs[k].pool] = jobs[k].pair
  /\ \A p \in Pairs : known[p] > 0 => deep.pools[known[p]] = p

\* The manager the panel works with is one of the connected wallet's own, whoever was
\* connected before.
ManagerIsTheWallets ==
  ActiveManager # 0 => deep.bms[ActiveManager] = panel.account

\* The button comes back after every swap, whatever became of it.
PendingEnds == []<>~panel.pending

\* A swap goes to the pool of the pair it was typed for, through a manager of the
\* wallet that signs it, although pair and wallet change meanwhile.
PanelInv == PanelTypeOK /\ SwapsNameTheirPool /\ ManagerIsTheWallets

=============================================================================
