------------------------------ MODULE Stratum ------------------------------
(***************************************************************************)
(* The stratum server when it has a Bitcoin node (stratum-server/src):     *)
(* job_updater polls the node, registers a template on Sui for every job   *)
(* and announces the job; one task per connection greets its miner and     *)
(* validates its shares; in solo mode miner_batch_flusher sends the        *)
(* accepted shares to Sui.  Each task gives way at an await, so a handler  *)
(* is split where what it read, or has half written, is visible to others. *)
(*                                                                         *)
(* A block is its height; a template of the node is the block it extends   *)
(* and the transactions it holds.  A share stands for its extranonces,     *)
(* ntime, version bits and nonce; whether it meets a target is open.       *)
(***************************************************************************)
EXTENDS Integers, FiniteSets, Bags

CONSTANTS Miners,        \* connections
          Shares,        \* what a miner can submit against a job
          TxSets,        \* contents of the mempool
          KeepJobs,      \* jobs the server goes on accepting (10)
          MaxBlock,      \* bound: height the node reaches
          MaxJobs        \* bound: job ids

ASSUME StratumAssumption ==
    /\ IsFiniteSet(Miners)
    /\ KeepJobs \in Nat \ {0, 1}
    /\ MaxBlock \in Nat \ {0}
    /\ MaxJobs \in Nat

NoJob == [job_id |-> 0]
NoShare == "none"
NoBlock == 0

JobIds == 1 .. MaxJobs
Block == 1 .. MaxBlock
Job == [job_id : JobIds, prev_block_hash : Block, coinbase : Block,
        merkle_branches : TxSets, transaction_data : TxSets,
        clean_jobs : BOOLEAN, sui_template_id : {0} \cup JobIds]
Key == [job_id : JobIds, share : Shares]

VARIABLES
    node,               \* the node's tip and mempool
    templates,          \* on Sui: what was registered, by template id
    updater,            \* where job_updater is, with the job in its hands
    current_prev_hash, current_job, jobs, job_counter,
    submitted_shares,   \* the shards of the duplicate check
    miners,             \* connection -> what its handler and its miner hold
    accepted,           \* bag of keys: how often a share was accepted
    batch               \* solo mode: shares on their way to Sui, by template

updateVars == <<updater, current_prev_hash, current_job, jobs, job_counter, templates>>
shareVars == <<submitted_shares, accepted, batch>>
vars == <<node, templates, updater, current_prev_hash, current_job, jobs,
          job_counter, submitted_shares, miners, accepted, batch>>

Away == [at |-> "away", job |-> NoJob, share |-> NoShare, sent |-> {}]
Idle == [at |-> "poll", job |-> NoJob, ahead |-> {}, to |-> {}]

Init ==
    /\ node \in [tip : {1}, txs : TxSets]
    /\ templates = {}
    /\ updater = Idle
    /\ current_prev_hash = NoBlock
    /\ current_job = NoJob
    /\ jobs = {}
    /\ job_counter = 0
    /\ submitted_shares = {}
    /\ miners = [m \in Miners |-> Away]
    /\ accepted = EmptyBag
    /\ batch = {}

-----------------------------------------------------------------------------
(* The Bitcoin node: its tip and its mempool change at any time.           *)

NewTip(txs) ==
    /\ node.tip < MaxBlock
    /\ node' = [tip |-> node.tip + 1, txs |-> txs]
    /\ UNCHANGED <<updateVars, shareVars, miners>>

MempoolChange(txs) ==
    /\ node' = [node EXCEPT !.txs = txs]
    /\ UNCHANGED <<updateVars, shareVars, miners>>

-----------------------------------------------------------------------------
(* job_updater.                                                            *)

(* A fresh job takes everything from the template.                         *)
CreateNewJob ==
    [job_id |-> job_counter + 1, prev_block_hash |-> node.tip,
     coinbase |-> node.tip, merkle_branches |-> node.txs,
     transaction_data |-> node.txs, clean_jobs |-> TRUE, sui_template_id |-> 0]

(* A merkle update clones the current job and replaces the branches and    *)
(* the coinbase; prev_block_hash, height, nbits and transaction_data stay. *)
UpdatedJob ==
    [current_job EXCEPT !.job_id = job_counter + 1,
                        !.coinbase = node.tip,
                        !.merkle_branches = node.txs,
                        !.clean_jobs = FALSE,
                        !.sui_template_id = 0]

IsNewBlock == current_prev_hash # node.tip

(* A new block: the tip is remembered, the duplicate shards are cleared    *)
(* and the batch is told to flush before the template is registered.       *)
PollNewBlock ==
    /\ updater.at = "poll"
    /\ IsNewBlock
    /\ job_counter < MaxJobs
    /\ job_counter' = job_counter + 1
    /\ current_prev_hash' = node.tip
    /\ submitted_shares' = {}
    /\ updater' = [Idle EXCEPT !.at = "register", !.job = CreateNewJob]
    /\ UNCHANGED <<node, templates, current_job, jobs, miners, accepted, batch>>

(* Same block, other transactions: an updated job, once the batch is       *)
(* flushed.  The guard on MaxJobs leaves an id for every block to come.    *)
PollMerkleUpdate ==
    /\ updater.at = "poll"
    /\ ~IsNewBlock
    /\ current_job # NoJob
    /\ current_job.merkle_branches # node.txs
    /\ job_counter + (MaxBlock - current_prev_hash) < MaxJobs
    /\ job_counter' = job_counter + 1
    /\ updater' = [Idle EXCEPT !.at = "drain", !.job = UpdatedJob,
                              !.ahead = batch]
    /\ UNCHANGED <<node, templates, current_prev_hash, current_job, jobs,
                   miners, shareVars>>

(* Before the first job was published a change of the mempool only spends  *)
(* a job id.                                                               *)
PollWithoutJob ==
    /\ updater.at = "poll"
    /\ ~IsNewBlock
    /\ current_job = NoJob
    /\ job_counter + (MaxBlock - current_prev_hash) < MaxJobs
    /\ job_counter' = job_counter + 1
    /\ UNCHANGED <<node, templates, updater, current_prev_hash, current_job, jobs,
                   miners, shareVars>>

(* FlushAndWait: the flusher answers once the shares before it are sent.   *)
Drained ==
    /\ updater.at = "drain"
    /\ batch' = batch \ updater.ahead
    /\ updater' = [updater EXCEPT !.at = "register", !.ahead = {}]
    /\ UNCHANGED <<node, templates, current_prev_hash, current_job, jobs, job_counter,
                   miners, submitted_shares, accepted>>

Register(job) ==
    [id |-> job.job_id, prev_block_hash |-> job.prev_block_hash,
     coinbase |-> job.coinbase, merkle_branches |-> job.merkle_branches]

(* Registration succeeds, and the job carries the template it got.         *)
RegisterTemplate ==
    /\ updater.at = "register"
    /\ templates' = templates \cup {Register(updater.job)}
    /\ updater' = [updater EXCEPT !.at = "publish",
                                  !.job.sui_template_id = updater.job.job_id]
    /\ UNCHANGED <<node, current_prev_hash, current_job, jobs, job_counter,
                   miners, shareVars>>

\* Mutant: the job is announced although its registration failed.
RegisterFailsAnnounced(landed) ==
    /\ updater.at = "register"
    /\ updater' = [updater EXCEPT !.at = "publish"]
    /\ UNCHANGED <<node, templates, current_prev_hash, current_job, jobs, job_counter,
                   miners, shareVars>>

(* Registration fails, whether or not the transaction took effect: the job *)
(* is given up and nobody hears of it.                                     *)
RegisterFails(landed) ==
    /\ updater.at = "register"
    /\ templates' = IF landed THEN templates \cup {Register(updater.job)} ELSE templates
    /\ updater' = Idle
    /\ UNCHANGED <<node, current_prev_hash, current_job, jobs, job_counter,
                   miners, shareVars>>

(* The oldest id leaves when more than KeepJobs are kept.                  *)
Trim(js) ==
    {j \in js : Cardinality({k \in js : k.job_id > j.job_id}) < KeepJobs}

Connected(m) == miners[m].at # "away"

\* Mutant: a connection that is busy with a request is passed over.
IdleRecipients == {m \in Miners : miners[m].at = "idle"}

Recipients == {m \in Miners : Connected(m)}

(* The job is inserted in jobs, then becomes the current one, and then     *)
(* goes to every miner connected at that moment.                           *)
InsertJob ==
    /\ updater.at = "publish"
    /\ jobs' = Trim(jobs \cup {updater.job})
    /\ updater' = [updater EXCEPT !.at = "current"]
    /\ UNCHANGED <<node, templates, current_prev_hash, current_job, job_counter,
                   miners, shareVars>>

SetCurrentJob ==
    /\ updater.at = "current"
    /\ current_job' = updater.job
    /\ updater' = [updater EXCEPT !.at = "notify",
                                  !.to = Recipients]
    /\ UNCHANGED <<node, templates, current_prev_hash, jobs, job_counter,
                   miners, shareVars>>

(* One of the concurrent writes of notify_all_miners; to a miner that has  *)
(* left in the meantime it fails.                                          *)
Notify(m) ==
    /\ updater.at = "notify"
    /\ m \in updater.to
    /\ updater' = [updater EXCEPT !.to = @ \ {m}]
    /\ miners' = [miners EXCEPT ![m].sent =
                    IF Connected(m) THEN @ \cup {updater.job.job_id} ELSE @]
    /\ UNCHANGED <<node, templates, current_prev_hash, current_job, jobs, job_counter,
                   shareVars>>

Announced ==
    /\ updater.at = "notify"
    /\ updater.to = {}
    /\ updater' = Idle
    /\ UNCHANGED <<node, templates, current_prev_hash, current_job, jobs, job_counter,
                   miners, shareVars>>

-----------------------------------------------------------------------------
(* A connection.  Its handler takes one request at a time.                 *)

Connect(m) ==
    /\ ~Connected(m)
    /\ miners' = [miners EXCEPT ![m].at = "idle"]
    /\ UNCHANGED <<node, updateVars, shareVars>>

Disconnect(m) ==
    /\ miners[m].at = "idle"
    /\ miners' = [miners EXCEPT ![m] = Away]
    /\ UNCHANGED <<node, updateVars, shareVars>>

(* mining.subscribe and mining.authorize: the handler reads the current    *)
(* job, and writes it to the socket in a later step.                       *)
Greet(m) ==
    /\ miners[m].at = "idle"
    /\ current_job # NoJob
    /\ miners' = [miners EXCEPT ![m].at = "greet", ![m].job = current_job]
    /\ UNCHANGED <<node, updateVars, shareVars>>

SendFirstJob(m) ==
    /\ miners[m].at = "greet"
    /\ miners' = [miners EXCEPT ![m].at = "idle", ![m].job = NoJob,
                                ![m].sent = @ \cup {miners[m].job.job_id}]
    /\ UNCHANGED <<node, updateVars, shareVars>>

(* mining.submit on a job the miner was sent: the job is looked up among   *)
(* the jobs kept; an unknown id is answered with an error.                 *)
LookUpJob(m, job, s) ==
    /\ miners[m].at = "idle"
    /\ job.job_id \in miners[m].sent
    /\ job \in jobs
    /\ miners' = [miners EXCEPT ![m].at = "record", ![m].job = job, ![m].share = s]
    /\ UNCHANGED <<node, updateVars, shareVars>>

KeyOf(m) == [job_id |-> miners[m].job.job_id, share |-> miners[m].share]
Answered(m) == [miners EXCEPT ![m].at = "idle", ![m].job = NoJob, ![m].share = NoShare]

RejectDuplicate(m) ==
    /\ miners[m].at = "record"
    /\ KeyOf(m) \in submitted_shares
    /\ miners' = Answered(m)
    /\ UNCHANGED <<node, updateVars, shareVars>>

\* Mutant: a full shard takes no more keys.
RecordedUnlessFull(m) == submitted_shares

Recorded(m) == submitted_shares \cup {KeyOf(m)}

(* The share is entered in its shard, whatever becomes of it; one that     *)
(* meets the network target is made into a block first.                    *)
RecordShare(m, found) ==
    /\ miners[m].at = "record"
    /\ KeyOf(m) \notin submitted_shares
    /\ submitted_shares' = Recorded(m)
    /\ miners' = [miners EXCEPT ![m].at = IF found THEN "submit" ELSE "check"]
    /\ UNCHANGED <<node, updateVars, accepted, batch>>

(* The block a job and a share that meets the target are assembled into.   *)
AssembleBlock(job) ==
    [prev_block_hash |-> job.prev_block_hash, height |-> job.coinbase,
     merkle_root |-> job.merkle_branches, transactions |-> job.transaction_data]

Complete(block) == block.merkle_root = block.transactions

(* submitblock: the node moves to a valid block on its tip and refuses any *)
(* other; the handler carries on either way.                               *)
SubmitBlock(m, txs) ==
    LET block == AssembleBlock(miners[m].job)
        valid == Complete(block) /\ block.prev_block_hash = node.tip
                                 /\ block.height = node.tip
    IN /\ miners[m].at = "submit"
       /\ valid => node.tip < MaxBlock
       /\ node' = IF valid THEN [tip |-> node.tip + 1, txs |-> txs] ELSE node
       /\ miners' = [miners EXCEPT ![m].at = "check"]
       /\ UNCHANGED <<updateVars, shareVars>>

(* A share below the miner's difficulty is refused; any other is counted   *)
(* and, in solo mode, queued under the template of its job.                *)
CheckDifficulty(m, meets) ==
    /\ miners[m].at = "check"
    /\ accepted' = IF meets THEN accepted (+) SetToBag({KeyOf(m)}) ELSE accepted
    /\ batch' = IF meets /\ miners[m].job.sui_template_id # 0
                THEN batch \cup {[template |-> miners[m].job.sui_template_id,
                                  share |-> miners[m].share]}
                ELSE batch
    /\ miners' = Answered(m)
    /\ UNCHANGED <<node, updateVars, submitted_shares>>

(* The flusher, on its timer, on a full batch or on Flush: the batch is    *)
(* drained and sent once; a batch that fails is not kept.                  *)
FlushBatch ==
    /\ batch # {}
    /\ batch' = {}
    /\ UNCHANGED <<node, updateVars, miners, submitted_shares, accepted>>

-----------------------------------------------------------------------------
UpdaterStep ==
    \/ PollNewBlock
    \/ PollMerkleUpdate
    \/ PollWithoutJob
    \/ Drained
    \/ RegisterTemplate
    \/ \E landed \in BOOLEAN : RegisterFails(landed)
    \/ InsertJob
    \/ SetCurrentJob
    \/ \E m \in Miners : Notify(m)
    \/ Announced

Next ==
    \/ \E txs \in TxSets : NewTip(txs) \/ MempoolChange(txs)
    \/ UpdaterStep
    \/ \E m \in Miners :
          \/ Connect(m) \/ Disconnect(m) \/ Greet(m) \/ SendFirstJob(m)
          \/ \E job \in jobs, s \in Shares : LookUpJob(m, job, s)
          \/ RejectDuplicate(m)
          \/ \E found \in BOOLEAN : RecordShare(m, found)
          \/ \E txs \in TxSets : SubmitBlock(m, txs)
          \/ \E meets \in BOOLEAN : CheckDifficulty(m, meets)
    \/ FlushBatch

Spec == Init /\ [][Next]_vars

(* job_updater is a task that never ends and whose polls and writes are    *)
(* all answered in the end; a miner's peer reads its socket.               *)
FairSpec == Spec /\ WF_vars(UpdaterStep)

-----------------------------------------------------------------------------
(* Properties.                                                             *)

(* Every variable keeps its type, and the counter is ahead of every id in  *)
(* use: no two templates share an id (job_counter is written under a lock).*)
StratumTypeOK ==
    /\ node \in [tip : Block, txs : TxSets]
    /\ templates \subseteq [id : JobIds, prev_block_hash : Block, coinbase : Block,
                             merkle_branches : TxSets]
    /\ updater.at \in {"poll", "drain", "register", "publish", "current", "notify"}
    /\ updater.job \in {NoJob} \cup Job
    /\ updater.to \subseteq Miners
    /\ current_prev_hash \in {NoBlock} \cup Block
    /\ current_job \in {NoJob} \cup Job
    /\ jobs \subseteq Job
    /\ job_counter \in 0 .. MaxJobs
    /\ submitted_shares \subseteq Key
    /\ \A m \in Miners :
          /\ miners[m].at \in {"away", "idle", "greet", "record", "submit", "check"}
          /\ miners[m].job \in {NoJob} \cup Job
          /\ miners[m].share \in {NoShare} \cup Shares
          /\ miners[m].sent \subseteq 1 .. job_counter
    /\ \A t, u \in templates : t.id = u.id => t = u
    /\ BagToSet(accepted) \subseteq Key
    /\ batch \subseteq [template : JobIds, share : Shares]

(* Whatever a miner is told to work on, and whatever a share is validated  *)
(* against, is registered on Sui with the same contents: an accepted share *)
(* can always be proved on chain.  Failed registrations are what puts this *)
(* at risk (job_updater skips publish and notify then).                    *)
WorkIsRegistered ==
    /\ \A m \in Miners :
          miners[m].sent \subseteq {t.id : t \in templates}
    /\ \A job \in (jobs \cup {miners[m].job : m \in Miners}) \ {NoJob} :
          /\ job.sui_template_id = job.job_id
          /\ Register(job) \in templates

(* The current job, the one a greeting hands out, is among the jobs whose  *)
(* shares are accepted, and so are the KeepJobs - 1 jobs published before  *)
(* it: a job a miner was sent is unknown to the server only once KeepJobs  *)
(* newer ones exist.                                                       *)
CurrentJobIsAccepted ==
    current_job # NoJob =>
        /\ current_job \in jobs
        /\ \A m \in Miners : \A i \in miners[m].sent :
              \/ \E j \in jobs : j.job_id = i
              \/ Cardinality(jobs) = KeepJobs /\ \A j \in jobs : j.job_id > i

(* The shards are cleared when the chain moves on while older jobs are     *)
(* still accepted, so a share may be accepted again after a new block, but *)
(* never twice between two blocks.                                         *)
(* (The coinbase of a job holds the height it was created at.)             *)
AcceptedOncePerBlock ==
    \A k \in BagToSet(accepted), t \in templates :
        t.id = k.job_id => accepted[k] <= 1 + current_prev_hash - t.coinbase

(* The updater has taken note of block b but failed to register its job.   *)
GaveUp(b) ==
    /\ updater.at = "poll"
    /\ current_prev_hash = b
    /\ current_job = NoJob \/ current_job.prev_block_hash # b

(* A block the node moves to reaches every subscribed miner as a job that  *)
(* extends it, unless the node moves on first or the registration of that  *)
(* job failed; slow registrations, mempool updates, greetings and other    *)
(* miners coming and going never hold it up for ever.                      *)
NewBlocksReachTheMiners ==
    \A b \in Block, m \in Miners :
        (node.tip = b /\ miners[m].sent # {}) ~>
            \/ node.tip # b \/ GaveUp(b) \/ ~Connected(m)
            \/ \E t \in templates : t.id \in miners[m].sent /\ t.prev_block_hash = b

(* A block handed to the node is complete: the transactions it carries are *)
(* those its merkle root was computed from (assemble_block).               *)
SubmittedBlocksAreComplete ==
    \A m \in Miners : miners[m].at = "submit" => Complete(AssembleBlock(miners[m].job))

\* The job a miner works on is a job of the server: its contents are those of the
\* template registered on chain, and a share of it is looked up and found.
StratumInv == StratumTypeOK /\ WorkIsRegistered /\ CurrentJobIsAccepted

(* Supporting facts of the inductive invariant.                            *)

(* The shape of the records the tasks and connections hold.                *)
ShapesOK ==
    /\ updater \in [at : {"poll", "drain", "register", "publish", "current", "notify"},
                    job : {NoJob} \cup Job,
                    ahead : SUBSET [template : JobIds, share : Shares],
                    to : SUBSET Miners]
    /\ miners \in [Miners -> [at : {"away", "idle", "greet", "record", "submit", "check"},
                              job : {NoJob} \cup Job, share : {NoShare} \cup Shares,
                              sent : SUBSET JobIds]]
    /\ IsABag(accepted)

(* The job carries the id of a template with its contents.                 *)
Registered(job) ==
    /\ job.sui_template_id = job.job_id
    /\ Register(job) \in templates

(* The job in the updater's hands has the newest id, no template before it *)
(* is registered and one from then on; nothing is newer than the tip.      *)
UpdaterInv ==
    /\ current_prev_hash <= node.tip
    /\ \A t \in templates : t.id <= job_counter /\ t.coinbase <= current_prev_hash
    /\ updater.at # "poll" => /\ updater.job \in Job
                              /\ updater.job.job_id = job_counter
                              /\ updater.job.coinbase <= current_prev_hash
    /\ updater.at \in {"drain", "register"} => \A t \in templates : t.id < job_counter
    /\ updater.at \in {"publish", "current", "notify"} => Registered(updater.job)

(* The jobs that were announced: all, but the one about to become current. *)
Settled == IF updater.at = "current" THEN jobs \ {updater.job} ELSE jobs

(* At most KeepJobs jobs, each with its own id and its template; the       *)
(* current one is the newest of those announced.                           *)
JobsInv ==
    /\ IsFiniteSet(jobs) /\ Cardinality(jobs) <= KeepJobs
    /\ \A j, k \in jobs : j.job_id = k.job_id => j = k
    /\ \A j \in jobs : Registered(j) /\ j.job_id <= job_counter
    /\ updater.at \in {"drain", "register", "publish"} =>
           \A j \in jobs : j.job_id < job_counter
    /\ updater.at = "current" => updater.job \in jobs
    /\ updater.at = "notify" => current_job = updater.job
    /\ IF current_job = NoJob THEN Settled = {}
       ELSE current_job \in Settled /\ \A j \in Settled : j.job_id <= current_job.job_id

(* A job id the server accepts shares of, or has dropped for newer ones.   *)
KeptOrOld(i) ==
    \/ \E j \in jobs : j.job_id = i
    \/ Cardinality(jobs) = KeepJobs /\ \A j \in jobs : j.job_id > i

(* What a connection holds and what its miner was sent.                    *)
ConnectionsInv ==
    \A m \in Miners :
        /\ miners[m].at \in {"greet", "record", "submit", "check"} => miners[m].job \in Job
        /\ miners[m].at \in {"record", "submit", "check"} => miners[m].share \in Shares
        /\ miners[m].job # NoJob =>
               /\ Registered(miners[m].job)
               /\ KeptOrOld(miners[m].job.job_id)
        /\ \A i \in miners[m].sent :
               /\ KeptOrOld(i)
               /\ \E t \in templates : t.id = i

(* Requests that have entered their share and not answered it yet.         *)
InFlight(k) ==
    {m \in Miners : miners[m].at \in {"submit", "check"} /\ KeyOf(m) = k}
Copies(k) == IF BagIn(k, accepted) THEN accepted[k] ELSE 0

(* A share was accepted, or is about to be, at most once for every time    *)
(* the shards were cleared since its job was created, and once more while  *)
(* its shard holds it.                                                     *)
AcceptInv ==
    /\ \A k \in BagToSet(accepted) : \E t \in templates : t.id = k.job_id
    /\ \A k \in Key, t \in templates : t.id = k.job_id =>
          Copies(k) + Cardinality(InFlight(k)) <=
             (current_prev_hash - t.coinbase) + (IF k \in submitted_shares THEN 1 ELSE 0)

(* The inductive invariant of the server.                                  *)
ServerInv ==
    /\ StratumTypeOK /\ ShapesOK
    /\ UpdaterInv /\ JobsInv /\ ConnectionsInv /\ AcceptInv

=============================================================================
