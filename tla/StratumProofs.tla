--------------------------- MODULE StratumProofs ---------------------------
(* Theorems about the stratum server, for every value of the constants. *)
EXTENDS Stratum, FiniteSetTheorems, WellFoundedInduction, TLAPS

-----------------------------------------------------------------------------
(* Connections: what a step does to the record of one of them.             *)

ConnType == [at : {"away", "idle", "greet", "record", "submit", "check"},
             job : {NoJob} \cup Job, share : {NoShare} \cup Shares, sent : SUBSET JobIds]
UpdaterType == [at : {"poll", "drain", "register", "publish", "current", "notify"},
                job : {NoJob} \cup Job,
                ahead : SUBSET [template : JobIds, share : Shares],
                to : SUBSET Miners]
TemplateType == [id : JobIds, prev_block_hash : Block, coinbase : Block,
                 merkle_branches : TxSets]
BatchType == [template : JobIds, share : Shares]

\* Connection m moves to these values, and the others stay.
Conn(m, at, job, share, sent) ==
    /\ miners' \in [Miners -> ConnType]
    /\ miners'[m].at = at /\ miners'[m].job = job
    /\ miners'[m].share = share /\ miners'[m].sent = sent
    /\ \A n \in Miners \ {m} : miners'[n] = miners[n]

\* A job is not NoJob, and its id is one.
LEMMA JobIsAJob ==
  ASSUME NEW job \in Job
  PROVE  job # NoJob /\ job.job_id \in JobIds
BY StratumAssumption DEF Job, NoJob, JobIds

LEMMA ConnectEffect ==
  ASSUME ShapesOK, NEW m \in Miners, Connect(m)
  PROVE  /\ miners[m].at = "away"
         /\ Conn(m, "idle", miners[m].job, miners[m].share, miners[m].sent)
BY DEF ShapesOK, Connect, Connected, Conn, ConnType

LEMMA DisconnectEffect ==
  ASSUME ShapesOK, NEW m \in Miners, Disconnect(m)
  PROVE  miners[m].at = "idle" /\ Conn(m, "away", NoJob, NoShare, {})
BY DEF ShapesOK, Disconnect, Conn, ConnType, Away

LEMMA GreetEffect ==
  ASSUME ShapesOK, current_job \in {NoJob} \cup Job, NEW m \in Miners, Greet(m)
  PROVE  /\ miners[m].at = "idle" /\ current_job \in Job
         /\ Conn(m, "greet", current_job, miners[m].share, miners[m].sent)
BY DEF ShapesOK, Greet, Conn, ConnType

LEMMA SendFirstJobEffect ==
  ASSUME ShapesOK, ConnectionsInv, NEW m \in Miners, SendFirstJob(m)
  PROVE  /\ miners[m].at = "greet" /\ miners[m].job \in Job
         /\ Conn(m, "idle", NoJob, miners[m].share,
                 miners[m].sent \cup {miners[m].job.job_id})
<1>1. miners[m].at = "greet" /\ miners[m].job \in Job
  BY DEF SendFirstJob, ConnectionsInv
<1>2. miners[m].job.job_id \in JobIds
  BY <1>1, JobIsAJob
<1> QED
  BY <1>1, <1>2 DEF ShapesOK, SendFirstJob, Conn, ConnType

LEMMA LookUpJobEffect ==
  ASSUME ShapesOK, jobs \subseteq Job, NEW m \in Miners, NEW job \in jobs, NEW s \in Shares,
         LookUpJob(m, job, s)
  PROVE  /\ miners[m].at = "idle" /\ job \in Job
         /\ Conn(m, "record", job, s, miners[m].sent)
BY DEF ShapesOK, LookUpJob, Conn, ConnType

LEMMA AnsweredEffect ==
  ASSUME ShapesOK, NEW m \in Miners, miners' = Answered(m)
  PROVE  Conn(m, "idle", NoJob, NoShare, miners[m].sent)
BY DEF ShapesOK, Answered, Conn, ConnType

LEMMA MovesOnEffect ==
  ASSUME ShapesOK, NEW m \in Miners, NEW a \in {"submit", "check"},
         miners' = [miners EXCEPT ![m].at = a]
  PROVE  Conn(m, a, miners[m].job, miners[m].share, miners[m].sent)
BY DEF ShapesOK, Conn, ConnType

LEMMA NotifyEffect ==
  ASSUME ShapesOK, UpdaterInv, NEW m \in Miners, Notify(m)
  PROVE  /\ updater.at = "notify" /\ updater.job.job_id \in JobIds
         /\ \/ Conn(m, miners[m].at, miners[m].job, miners[m].share, miners[m].sent)
            \/ Conn(m, miners[m].at, miners[m].job, miners[m].share,
                    miners[m].sent \cup {updater.job.job_id})
<1>1. updater.at = "notify" /\ updater.job.job_id \in JobIds
  BY JobIsAJob DEF UpdaterInv, Notify
<1> DEFINE s == IF Connected(m) THEN miners[m].sent \cup {updater.job.job_id}
                ELSE miners[m].sent
<1>2. miners' = [miners EXCEPT ![m].sent = s]
  BY DEF Notify
<1>3. s \in SUBSET JobIds
  BY <1>1 DEF ShapesOK
<1>4. Conn(m, miners[m].at, miners[m].job, miners[m].share, s)
  <2> HIDE DEF s
  <2> QED
    BY <1>2, <1>3 DEF ShapesOK, Conn, ConnType
<1>5. s = miners[m].sent \/ s = miners[m].sent \cup {updater.job.job_id}
  OBVIOUS
<1> QED
  BY <1>1, <1>4, <1>5

-----------------------------------------------------------------------------
(* job_updater: what a step does to the job in its hands.                  *)

Upd(at, job, ahead, to) ==
    /\ updater' \in UpdaterType
    /\ updater'.at = at /\ updater'.job = job
    /\ updater'.ahead = ahead /\ updater'.to = to

\* The numbers the proofs compute with.
LEMMA Numbers ==
  ASSUME ServerInv
  PROVE  /\ node.tip \in Nat /\ node.tip \in Block /\ node.txs \in TxSets
         /\ current_prev_hash \in Nat /\ job_counter \in Nat
         /\ MaxJobs \in Nat /\ MaxBlock \in Nat /\ KeepJobs \in Nat /\ KeepJobs > 1
         /\ JobIds \subseteq Nat /\ Block \subseteq Nat
         /\ \A t \in templates : /\ t \in TemplateType
                                 /\ t.id \in Nat /\ t.coinbase \in Nat
         /\ \A j \in jobs : j \in Job /\ j.job_id \in Nat
         /\ current_job # NoJob => current_job \in Job /\ current_job.job_id \in Nat
         /\ updater \in UpdaterType /\ batch \subseteq BatchType
<1>1. /\ node \in [tip : Block, txs : TxSets] /\ current_prev_hash \in {NoBlock} \cup Block
      /\ job_counter \in 0 .. MaxJobs /\ templates \subseteq TemplateType
      /\ jobs \subseteq Job /\ current_job \in {NoJob} \cup Job /\ batch \subseteq BatchType
  BY DEF ServerInv, StratumTypeOK, TemplateType, BatchType
<1>2. /\ MaxJobs \in Nat /\ MaxBlock \in Nat /\ KeepJobs \in Nat /\ KeepJobs > 1
      /\ JobIds \subseteq Nat /\ Block \subseteq Nat
  BY StratumAssumption DEF JobIds, Block
<1>3. node.tip \in Block /\ node.txs \in TxSets
  BY <1>1
<1>4. current_prev_hash \in Nat /\ job_counter \in Nat
  BY <1>1, <1>2 DEF NoBlock
<1>5. \A t \in templates : t \in TemplateType /\ t.id \in JobIds /\ t.coinbase \in Block
  BY <1>1 DEF TemplateType
<1>6. \A j \in Job : j.job_id \in JobIds
  BY JobIsAJob
<1>7. updater \in UpdaterType
  BY DEF ServerInv, ShapesOK, UpdaterType
<1> QED
  BY <1>1, <1>2, <1>3, <1>4, <1>5, <1>6, <1>7

LEMMA PollNewBlockEffect ==
  ASSUME ServerInv, PollNewBlock
  PROVE  \E job \in Job :
           /\ Upd("register", job, {}, {})
           /\ job.job_id = job_counter + 1 /\ job.coinbase = node.tip
           /\ job_counter' = job_counter + 1 /\ job_counter + 1 \in JobIds
           /\ current_prev_hash' = node.tip /\ current_prev_hash < node.tip
           /\ submitted_shares' = {} /\ updater.at = "poll"
           /\ UNCHANGED <<node, templates, current_job, jobs, miners, accepted, batch>>
<1> DEFINE job == CreateNewJob
<1>0. /\ updater.at = "poll" /\ current_prev_hash # node.tip /\ job_counter < MaxJobs
      /\ job_counter' = job_counter + 1 /\ current_prev_hash' = node.tip
      /\ submitted_shares' = {} /\ updater' = [Idle EXCEPT !.at = "register", !.job = job]
      /\ UNCHANGED <<node, templates, current_job, jobs, miners, accepted, batch>>
  BY DEF PollNewBlock, IsNewBlock
<1>1. job_counter + 1 \in JobIds /\ current_prev_hash < node.tip
  BY <1>0, Numbers DEF JobIds, ServerInv, UpdaterInv
<1>2. job \in Job /\ job.job_id = job_counter + 1 /\ job.coinbase = node.tip
  BY <1>1, Numbers DEF CreateNewJob, Job
<1> HIDE DEF job
<1>3. Upd("register", job, {}, {})
  BY <1>0, <1>2 DEF Upd, UpdaterType, Idle
<1> QED
  BY <1>0, <1>1, <1>2, <1>3

LEMMA PollMerkleUpdateEffect ==
  ASSUME ServerInv, PollMerkleUpdate
  PROVE  \E job \in Job :
           /\ Upd("drain", job, batch, {})
           /\ job.job_id = job_counter + 1 /\ job.coinbase = current_prev_hash
           /\ job_counter' = job_counter + 1 /\ job_counter + 1 \in JobIds
           /\ updater.at = "poll"
           /\ UNCHANGED <<node, templates, current_prev_hash, current_job, jobs,
                          miners, shareVars>>
<1> DEFINE id == job_counter + 1
           tip == node.tip
           txs == node.txs
           job == [current_job EXCEPT !.job_id = id, !.coinbase = tip,
                        !.merkle_branches = txs, !.clean_jobs = FALSE,
                        !.sui_template_id = 0]
<1>0. /\ updater.at = "poll" /\ current_prev_hash = tip /\ current_job # NoJob
      /\ job_counter + (MaxBlock - current_prev_hash) < MaxJobs
      /\ job_counter' = id
      /\ updater' = [Idle EXCEPT !.at = "drain", !.job = job, !.ahead = batch]
      /\ UNCHANGED <<node, templates, current_prev_hash, current_job, jobs,
                     miners, shareVars>>
  BY DEF PollMerkleUpdate, IsNewBlock, UpdatedJob
<1>1. id \in JobIds /\ tip \in Block /\ txs \in TxSets /\ current_job \in Job
  <2>1. tip <= MaxBlock /\ tip \in Block /\ txs \in TxSets
    BY Numbers DEF Block
  <2> QED
    BY <1>0, <2>1, Numbers DEF JobIds
<1>2. job \in Job /\ job.job_id = id /\ job.coinbase = tip
  <2> HIDE DEF id, tip, txs
  <2> QED
    BY <1>1 DEF Job
<1> HIDE DEF job, tip
<1>3. Upd("drain", job, batch, {})
  BY <1>0, <1>2, Numbers DEF Upd, UpdaterType, Idle, BatchType
<1> QED
  BY <1>0, <1>1, <1>2, <1>3

LEMMA IdleEffect ==
  ASSUME updater' = Idle
  PROVE  Upd("poll", NoJob, {}, {})
BY DEF Idle, Upd, UpdaterType

LEMMA DrainedEffect ==
  ASSUME ServerInv, Drained
  PROVE  /\ updater.at = "drain" /\ Upd("register", updater.job, {}, updater.to)
         /\ batch' \subseteq batch
         /\ UNCHANGED <<node, templates, current_prev_hash, current_job, jobs, job_counter,
                        miners, submitted_shares, accepted>>
BY DEF Drained, ServerInv, ShapesOK, Upd, UpdaterType

LEMMA RegisterTemplateEffect ==
  ASSUME ServerInv, RegisterTemplate
  PROVE  \E job \in Job :
           /\ Upd("publish", job, updater.ahead, updater.to)
           /\ job.job_id = updater.job.job_id /\ job.coinbase = updater.job.coinbase
           /\ job.sui_template_id = job.job_id
           /\ updater.at = "register"
           /\ Register(job) \in TemplateType
           /\ Register(job).id = job.job_id /\ Register(job).coinbase = job.coinbase
           /\ templates' = templates \cup {Register(job)}
           /\ UNCHANGED <<node, current_prev_hash, current_job, jobs, job_counter,
                          miners, shareVars>>
<1> DEFINE id == updater.job.job_id
           job == [updater.job EXCEPT !.sui_template_id = id]
<1>0. updater.at = "register" /\ updater.job \in Job /\ updater \in UpdaterType
  BY Numbers DEF RegisterTemplate, ServerInv, UpdaterInv
<1>1. id \in JobIds
  BY <1>0, JobIsAJob
<1>2. /\ job \in Job /\ job.job_id = id /\ job.coinbase = updater.job.coinbase
      /\ job.sui_template_id = id /\ job.prev_block_hash = updater.job.prev_block_hash
      /\ job.merkle_branches = updater.job.merkle_branches
  <2> DEFINE old == updater.job
             new == [old EXCEPT !.sui_template_id = id]
  <2>1. old \in Job /\ id \in {0} \cup JobIds /\ id = old.job_id
    BY <1>0, <1>1
  <2>2. /\ new \in Job /\ new.job_id = old.job_id /\ new.coinbase = old.coinbase
        /\ new.sui_template_id = id /\ new.prev_block_hash = old.prev_block_hash
        /\ new.merkle_branches = old.merkle_branches
    <3> HIDE DEF old, id
    <3> QED
      BY <2>1 DEF Job
  <2> QED
    BY <2>1, <2>2
<1>3. updater' = [updater EXCEPT !.at = "publish", !.job = job]
  BY <1>0 DEF RegisterTemplate, UpdaterType
<1>4. /\ templates' = templates \cup {Register(updater.job)}
      /\ UNCHANGED <<node, current_prev_hash, current_job, jobs, job_counter,
                     miners, shareVars>>
  BY DEF RegisterTemplate
<1> HIDE DEF job, id
<1>5. Upd("publish", job, updater.ahead, updater.to)
  BY <1>0, <1>2, <1>3 DEF Upd, UpdaterType
<1>6. Register(job) = Register(updater.job)
  BY <1>2 DEF Register, id
<1>7. /\ Register(job) \in TemplateType
      /\ Register(job).id = job.job_id /\ Register(job).coinbase = job.coinbase
  BY <1>2 DEF Register, TemplateType, Job
<1> QED
  BY <1>0, <1>2, <1>4, <1>5, <1>6, <1>7 DEF id

LEMMA RegisterFailsEffect ==
  ASSUME ServerInv, NEW landed \in BOOLEAN, RegisterFails(landed)
  PROVE  /\ updater.at = "register" /\ Upd("poll", NoJob, {}, {})
         /\ LET t == Register(updater.job)
            IN  /\ t \in TemplateType /\ t.id = updater.job.job_id
                /\ t.coinbase = updater.job.coinbase
                /\ templates' = templates \/ templates' = templates \cup {t}
         /\ UNCHANGED <<node, current_prev_hash, current_job, jobs, job_counter,
                        miners, shareVars>>
<1>0. updater.at = "register" /\ updater.job \in Job
  BY DEF RegisterFails, ServerInv, UpdaterInv
<1>1. Upd("poll", NoJob, {}, {})
  BY IdleEffect DEF RegisterFails
<1>2. LET t == Register(updater.job)
      IN  t \in TemplateType /\ t.id = updater.job.job_id /\ t.coinbase = updater.job.coinbase
  BY <1>0 DEF Register, TemplateType, Job
<1> QED
  BY <1>0, <1>1, <1>2 DEF RegisterFails

LEMMA InsertJobEffect ==
  ASSUME ServerInv, InsertJob
  PROVE  /\ updater.at = "publish" /\ updater.job \in Job
         /\ Upd("current", updater.job, updater.ahead, updater.to)
         /\ jobs' = Trim(jobs \cup {updater.job})
         /\ UNCHANGED <<node, templates, current_prev_hash, current_job, job_counter,
                        miners, shareVars>>
BY DEF InsertJob, ServerInv, ShapesOK, UpdaterInv, Upd, UpdaterType

LEMMA SetCurrentJobEffect ==
  ASSUME ServerInv, SetCurrentJob
  PROVE  /\ updater.at = "current" /\ updater.job \in Job
         /\ Upd("notify", updater.job, updater.ahead, Recipients)
         /\ current_job' = updater.job
         /\ UNCHANGED <<node, templates, current_prev_hash, jobs, job_counter,
                        miners, shareVars>>
BY DEF SetCurrentJob, ServerInv, ShapesOK, UpdaterInv, Upd, UpdaterType, Recipients

LEMMA NotifyUpdater ==
  ASSUME ServerInv, NEW m \in Miners, Notify(m)
  PROVE  /\ updater.at = "notify" /\ updater.job \in Job
         /\ Upd("notify", updater.job, updater.ahead, updater.to \ {m})
         /\ UNCHANGED <<node, templates, current_prev_hash, current_job, jobs, job_counter,
                        shareVars>>
BY DEF Notify, ServerInv, ShapesOK, UpdaterInv, Upd, UpdaterType

LEMMA AnnouncedEffect ==
  ASSUME ServerInv, Announced
  PROVE  /\ updater.at = "notify" /\ Upd("poll", NoJob, {}, {})
         /\ UNCHANGED <<node, templates, current_prev_hash, current_job, jobs, job_counter,
                        miners, shareVars>>
BY IdleEffect DEF Announced

-----------------------------------------------------------------------------
(* The updater's invariant.                                                *)

\* Steps that leave the updater alone move the node's tip forward at most.
LEMMA UpdaterFrame ==
  ASSUME ServerInv, node'.tip \in Nat, node'.tip >= node.tip,
         UNCHANGED <<templates, updater, current_prev_hash, job_counter>>
  PROVE  UpdaterInv'
<1>1. current_prev_hash' <= node'.tip
  BY Numbers DEF ServerInv, UpdaterInv
<1> QED
  BY <1>1 DEF ServerInv, UpdaterInv, Registered

\* The steps of the node, of connections and of the flusher are such steps.
Outside ==
  \/ \E txs \in TxSets : NewTip(txs) \/ MempoolChange(txs)
  \/ \E m \in Miners :
        \/ Connect(m) \/ Disconnect(m) \/ Greet(m) \/ SendFirstJob(m)
        \/ \E job \in jobs, s \in Shares : LookUpJob(m, job, s)
        \/ RejectDuplicate(m)
        \/ \E found \in BOOLEAN : RecordShare(m, found)
        \/ \E txs \in TxSets : SubmitBlock(m, txs)
        \/ \E meets \in BOOLEAN : CheckDifficulty(m, meets)
  \/ FlushBatch
  \/ UNCHANGED vars

LEMMA OutsideFrame ==
  ASSUME ServerInv, Outside
  PROVE  /\ UNCHANGED updateVars
         /\ node' \in [tip : Block, txs : TxSets] /\ node'.tip >= node.tip
<1>0. /\ node \in [tip : Block, txs : TxSets]
      /\ node.tip \in Nat /\ MaxBlock \in Nat /\ node.tip \in Block
  BY Numbers DEF ServerInv, StratumTypeOK
<1>1. ASSUME NEW txs \in TxSets, node.tip < MaxBlock,
             node' = [tip |-> node.tip + 1, txs |-> txs]
      PROVE  node' \in [tip : Block, txs : TxSets] /\ node'.tip >= node.tip
  BY <1>0, <1>1 DEF Block
<1>2. ASSUME node' = node
      PROVE  node' \in [tip : Block, txs : TxSets] /\ node'.tip >= node.tip
  BY <1>0, <1>2
<1>3. ASSUME NEW txs \in TxSets, NewTip(txs) \/ MempoolChange(txs)
      PROVE  /\ UNCHANGED updateVars
             /\ node' \in [tip : Block, txs : TxSets] /\ node'.tip >= node.tip
  <2>1. CASE NewTip(txs)
    BY <1>1, <2>1 DEF NewTip
  <2>2. CASE MempoolChange(txs)
    BY <1>0, <2>2 DEF MempoolChange
  <2> QED
    BY <1>3, <2>1, <2>2
<1>4. ASSUME NEW m \in Miners, NEW txs \in TxSets, SubmitBlock(m, txs)
      PROVE  /\ UNCHANGED updateVars
             /\ node' \in [tip : Block, txs : TxSets] /\ node'.tip >= node.tip
  BY <1>1, <1>2, <1>4 DEF SubmitBlock
<1>5. ASSUME NEW m \in Miners,
             \/ Connect(m) \/ Disconnect(m) \/ Greet(m) \/ SendFirstJob(m)
             \/ \E job \in jobs, s \in Shares : LookUpJob(m, job, s)
             \/ RejectDuplicate(m)
             \/ \E found \in BOOLEAN : RecordShare(m, found)
             \/ \E meets \in BOOLEAN : CheckDifficulty(m, meets)
      PROVE  UNCHANGED updateVars /\ node' = node
  BY <1>5 DEF Connect, Disconnect, Greet, SendFirstJob, LookUpJob, RejectDuplicate,
              RecordShare, CheckDifficulty
<1>6. CASE FlushBatch \/ UNCHANGED vars
  <2>1. UNCHANGED updateVars /\ node' = node
    BY <1>6 DEF FlushBatch, vars, updateVars
  <2> QED
    BY <1>2, <2>1
<1> QED
  BY <1>2, <1>3, <1>4, <1>5, <1>6, Zenon DEF Outside

LEMMA NextCases ==
  ASSUME [Next]_vars
  PROVE  Outside \/ UpdaterStep
BY Zenon DEF Next, Outside

LEMMA UpdaterStepInv ==
  ASSUME ServerInv, [Next]_vars
  PROVE  UpdaterInv'
<1> USE DEF Upd
<1>0. /\ UpdaterInv /\ job_counter \in Nat /\ current_prev_hash \in Nat /\ node.tip \in Nat
      /\ \A t \in templates : t.id \in Nat /\ t.coinbase \in Nat
  BY Numbers DEF ServerInv
<1>1. CASE Outside
  <2>1. UNCHANGED updateVars /\ node'.tip \in Nat /\ node'.tip >= node.tip
    BY <1>1, OutsideFrame, Numbers
  <2> QED
    BY <2>1, UpdaterFrame DEF updateVars
<1>2. CASE PollNewBlock
  <2>1. PICK job \in Job :
           /\ Upd("register", job, {}, {})
           /\ job.job_id = job_counter + 1 /\ job.coinbase = node.tip
           /\ job_counter' = job_counter + 1
           /\ current_prev_hash' = node.tip /\ current_prev_hash < node.tip
           /\ UNCHANGED <<node, templates>>
    BY <1>2, PollNewBlockEffect
  <2> QED
    BY <1>0, <2>1 DEF UpdaterInv
<1>3. CASE PollMerkleUpdate
  <2>1. PICK job \in Job :
           /\ Upd("drain", job, batch, {})
           /\ job.job_id = job_counter + 1 /\ job.coinbase = current_prev_hash
           /\ job_counter' = job_counter + 1
           /\ UNCHANGED <<node, templates, current_prev_hash>>
    BY <1>3, PollMerkleUpdateEffect
  <2> QED
    BY <1>0, <2>1 DEF UpdaterInv
<1>4. CASE PollWithoutJob
  <2>1. /\ job_counter' = job_counter + 1 /\ updater.at = "poll"
        /\ UNCHANGED <<node, templates, updater, current_prev_hash>>
    BY <1>4 DEF PollWithoutJob
  <2> QED
    BY <1>0, <2>1 DEF UpdaterInv
<1>5. CASE Drained
  BY <1>0, <1>5, DrainedEffect DEF UpdaterInv
<1>6. CASE RegisterTemplate
  <2>1. PICK job \in Job :
           /\ Upd("publish", job, updater.ahead, updater.to)
           /\ job.job_id = updater.job.job_id /\ job.coinbase = updater.job.coinbase
           /\ job.sui_template_id = job.job_id
           /\ updater.at = "register"
           /\ Register(job).id = job.job_id /\ Register(job).coinbase = job.coinbase
           /\ templates' = templates \cup {Register(job)}
           /\ UNCHANGED <<node, current_prev_hash, job_counter>>
    BY <1>6, RegisterTemplateEffect
  <2>2. updater.job.job_id = job_counter /\ updater.job.coinbase <= current_prev_hash
    BY <1>0, <2>1 DEF UpdaterInv
  <2>3. \A t \in templates' : t.id <= job_counter' /\ t.coinbase <= current_prev_hash'
    BY <1>0, <2>1, <2>2 DEF UpdaterInv
  <2>4. updater'.job = job /\ job.sui_template_id = job.job_id /\ Register(job) \in templates'
    BY <2>1
  <2>5. Registered(updater.job)'
    <3>1. Register(updater.job)' = Register(job)
      BY <2>4 DEF Register
    <3> QED
      BY <2>4, <3>1 DEF Registered
  <2> QED
    BY <1>0, <2>1, <2>2, <2>3, <2>5 DEF UpdaterInv
<1>7. ASSUME NEW landed \in BOOLEAN, RegisterFails(landed) PROVE UpdaterInv'
  <2> DEFINE t == Register(updater.job)
  <2>1. /\ updater.at = "register" /\ Upd("poll", NoJob, {}, {})
        /\ t.id = updater.job.job_id /\ t.coinbase = updater.job.coinbase
        /\ templates' = templates \/ templates' = templates \cup {t}
        /\ UNCHANGED <<node, current_prev_hash, job_counter>>
    BY <1>7, RegisterFailsEffect
  <2>2. t.id = job_counter /\ t.coinbase <= current_prev_hash
    BY <1>0, <2>1 DEF UpdaterInv
  <2> HIDE DEF t
  <2> QED
    BY <1>0, <2>1, <2>2 DEF UpdaterInv
<1>8. CASE InsertJob
  BY <1>0, <1>8, InsertJobEffect DEF UpdaterInv, Registered, Register
<1>9. CASE SetCurrentJob
  BY <1>0, <1>9, SetCurrentJobEffect DEF UpdaterInv, Registered, Register
<1>10. ASSUME NEW m \in Miners, Notify(m) PROVE UpdaterInv'
  BY <1>0, <1>10, NotifyUpdater DEF UpdaterInv, Registered, Register
<1>11. CASE Announced
  BY <1>0, <1>11, AnnouncedEffect DEF UpdaterInv
<1> QED
  BY <1>1, <1>2, <1>3, <1>4, <1>5, <1>6, <1>7, <1>8, <1>9, <1>10, <1>11, NextCases
     DEF UpdaterStep

-----------------------------------------------------------------------------
(* The jobs kept: what inserting the newest job and trimming leaves.       *)

\* A nonempty set of jobs has an oldest one.
LEMMA OldestJob ==
  ASSUME NEW S, S # {}, \A j \in S : j.job_id \in Nat
  PROVE  \E d \in S : \A j \in S : d.job_id <= j.job_id
<1> DEFINE R == {ss \in Nat \X Nat : ss[1] < ss[2]}
           I == {j.job_id : j \in S}
<1>1. IsWellFoundedOn(R, Nat)
  BY NatLessThanWellFounded, Zenon DEF OpToRel
<1>2. I \subseteq Nat /\ I # {}
  OBVIOUS
<1>3. PICK n \in I : \A m \in I : ~(<<m, n>> \in R)
  <2> HIDE DEF R, I
  <2> QED
    BY <1>1, <1>2, WFMin
<1>4. \A m \in I : ~(m < n)
  BY <1>2, <1>3
<1>5. \A m \in I : n <= m
  <2> HIDE DEF I
  <2> QED
    BY <1>2, <1>4
<1> QED
  BY <1>5

\* Below KeepJobs jobs nothing is dropped; at KeepJobs the oldest one is.
LEMMA TrimDropsTheOldest ==
  ASSUME KeepJobs \in Nat, KeepJobs > 1,
         NEW S, IsFiniteSet(S), Cardinality(S) <= KeepJobs,
         \A j \in S : j.job_id \in Nat,
         \A j, k \in S : j.job_id = k.job_id => j = k,
         NEW n, n.job_id \in Nat, \A j \in S : j.job_id < n.job_id
  PROVE  LET T == S \cup {n}
         IN  \/ /\ Cardinality(S) < KeepJobs
                /\ Trim(T) = T
             \/ /\ Cardinality(S) = KeepJobs
                /\ \E d \in S : /\ Trim(T) = T \ {d}
                                /\ \A j \in T \ {d} : d.job_id < j.job_id
<1> DEFINE T == S \cup {n}
           Newer(j) == {k \in T : k.job_id > j.job_id}
<1>1. n \notin S /\ \A j \in T : j.job_id \in Nat
  OBVIOUS
<1>2. /\ Cardinality(S) \in Nat /\ IsFiniteSet(T)
      /\ Cardinality(T) = Cardinality(S) + 1
  BY <1>1, FS_AddElement, FS_CardinalityType
<1>3. Trim(T) = {j \in T : Cardinality(Newer(j)) < KeepJobs}
  BY DEF Trim
<1>4. CASE Cardinality(S) < KeepJobs
  <2>1. ASSUME NEW j \in T PROVE Cardinality(Newer(j)) < KeepJobs
    <3>1. IsFiniteSet(T \ {j}) /\ Cardinality(T \ {j}) = Cardinality(S)
      <4>1. j \in T
        OBVIOUS
      <4> HIDE DEF T
      <4>2. IsFiniteSet(T \ {j}) /\ Cardinality(T \ {j}) = Cardinality(T) - 1
        BY <1>2, <4>1, FS_RemoveElement
      <4> QED
        BY <1>2, <4>2
    <3>2. Newer(j) \in SUBSET (T \ {j})
      BY <1>1
    <3>3. Cardinality(Newer(j)) <= Cardinality(S) /\ Cardinality(Newer(j)) \in Nat
      <4> HIDE DEF Newer, T
      <4> QED
        BY <3>1, <3>2, FS_Subset, FS_CardinalityType
    <3> QED
      BY <1>2, <1>4, <3>3
  <2> HIDE DEF Newer
  <2> QED
    BY <1>3, <1>4, <2>1
<1>5. CASE Cardinality(S) = KeepJobs
  <2>1. S # {}
    BY <1>5, FS_EmptySet
  <2>2. PICK d \in S : \A j \in S : d.job_id <= j.job_id
    BY <2>1, OldestJob
  <2>3. \A j \in T \ {d} : d.job_id < j.job_id
    BY <1>1, <2>2
  <2>4. /\ IsFiniteSet(T \ {d}) /\ Cardinality(T \ {d}) = KeepJobs
    <3>1. d \in T
      OBVIOUS
    <3> HIDE DEF T
    <3>2. IsFiniteSet(T \ {d}) /\ Cardinality(T \ {d}) = Cardinality(T) - 1
      BY <1>2, <3>1, FS_RemoveElement
    <3> QED
      BY <1>2, <1>5, <3>2
  <2>5. Newer(d) = T \ {d}
    BY <1>1, <2>3
  <2>6. ASSUME NEW j \in T \ {d} PROVE Cardinality(Newer(j)) < KeepJobs
    <3>1. /\ IsFiniteSet((T \ {d}) \ {j})
          /\ Cardinality((T \ {d}) \ {j}) = KeepJobs - 1
      <4> HIDE DEF T
      <4> QED
        BY <2>4, FS_RemoveElement
    <3>2. Newer(j) \in SUBSET ((T \ {d}) \ {j})
      BY <1>1, <2>3
    <3>3. Cardinality(Newer(j)) <= KeepJobs - 1 /\ Cardinality(Newer(j)) \in Nat
      <4> HIDE DEF Newer, T
      <4> QED
        BY <3>1, <3>2, FS_Subset, FS_CardinalityType
    <3> QED
      BY <3>3
  <2>7. ~(Cardinality(Newer(d)) < KeepJobs)
    BY <2>4, <2>5
  <2>8. Trim(T) = T \ {d}
    <3> HIDE DEF Newer
    <3> QED
      BY <1>3, <2>6, <2>7
  <2> QED
    BY <1>5, <2>3, <2>8
<1>6. Cardinality(S) < KeepJobs \/ Cardinality(S) = KeepJobs
  BY <1>2
<1> QED
  BY <1>4, <1>5, <1>6, Zenon

\* What the proofs need of the jobs kept after an insertion.
LEMMA InsertedJobs ==
  ASSUME ServerInv, updater.at = "publish"
  PROVE  LET n == updater.job
             J == Trim(jobs \cup {n})
         IN  /\ IsFiniteSet(J) /\ Cardinality(J) <= KeepJobs
             /\ J \subseteq jobs \cup {n} /\ n \in J /\ n \notin jobs /\ n \in Job
             /\ \A j \in jobs : j.job_id < n.job_id
             /\ \A c \in jobs : (\A j \in jobs : j.job_id <= c.job_id) => c \in J
             /\ \A i \in Nat : KeptOrOld(i) =>
                   \/ \E j \in J : j.job_id = i
                   \/ Cardinality(J) = KeepJobs /\ \A j \in J : j.job_id > i
<1> DEFINE n == updater.job
           J == Trim(jobs \cup {n})
<1>1. /\ KeepJobs \in Nat /\ KeepJobs > 1 /\ IsFiniteSet(jobs)
      /\ Cardinality(jobs) <= KeepJobs /\ \A j \in jobs : j.job_id \in Nat
      /\ \A j, k \in jobs : j.job_id = k.job_id => j = k
  BY Numbers DEF ServerInv, JobsInv
<1>2. n \in Job /\ n.job_id \in Nat /\ \A j \in jobs : j.job_id < n.job_id
  BY Numbers DEF ServerInv, JobsInv, UpdaterInv
<1>3. n \notin jobs
  BY <1>1, <1>2
<1>4. Cardinality(jobs) \in Nat /\ IsFiniteSet(jobs \cup {n})
      /\ Cardinality(jobs \cup {n}) = Cardinality(jobs) + 1
  BY <1>1, <1>3, FS_AddElement, FS_CardinalityType
<1> HIDE DEF n
<1>5. \/ /\ Cardinality(jobs) < KeepJobs
         /\ J = jobs \cup {n}
      \/ /\ Cardinality(jobs) = KeepJobs
         /\ \E d \in jobs : /\ J = (jobs \cup {n}) \ {d}
                            /\ \A j \in (jobs \cup {n}) \ {d} : d.job_id < j.job_id
  BY <1>1, <1>2, TrimDropsTheOldest
<1> HIDE DEF J
<1>6. ASSUME Cardinality(jobs) < KeepJobs, J = jobs \cup {n}
      PROVE  /\ IsFiniteSet(J) /\ Cardinality(J) <= KeepJobs
             /\ J \subseteq jobs \cup {n} /\ n \in J
             /\ \A c \in jobs : (\A j \in jobs : j.job_id <= c.job_id) => c \in J
             /\ \A i \in Nat : KeptOrOld(i) =>
                   \/ \E j \in J : j.job_id = i
                   \/ Cardinality(J) = KeepJobs /\ \A j \in J : j.job_id > i
  <2>1. \A i \in Nat : KeptOrOld(i) => \E j \in J : j.job_id = i
    BY <1>1, <1>6 DEF KeptOrOld
  <2> QED
    BY <1>1, <1>4, <1>6, <2>1
<1>7. ASSUME Cardinality(jobs) = KeepJobs, NEW d \in jobs,
             J = (jobs \cup {n}) \ {d},
             \A j \in (jobs \cup {n}) \ {d} : d.job_id < j.job_id
      PROVE  /\ IsFiniteSet(J) /\ Cardinality(J) <= KeepJobs
             /\ J \subseteq jobs \cup {n} /\ n \in J
             /\ \A c \in jobs : (\A j \in jobs : j.job_id <= c.job_id) => c \in J
             /\ \A i \in Nat : KeptOrOld(i) =>
                   \/ \E j \in J : j.job_id = i
                   \/ Cardinality(J) = KeepJobs /\ \A j \in J : j.job_id > i
  <2>1. IsFiniteSet(J) /\ Cardinality(J) = KeepJobs
    <3> DEFINE T == jobs \cup {n}
    <3>1. d \in T /\ IsFiniteSet(T) /\ Cardinality(T) = KeepJobs + 1 /\ J = T \ {d}
      BY <1>4, <1>7
    <3> HIDE DEF T
    <3>2. IsFiniteSet(T \ {d}) /\ Cardinality(T \ {d}) = Cardinality(T) - 1
      BY <3>1, FS_RemoveElement
    <3> QED
      BY <1>1, <3>1, <3>2
  <2>2. J \subseteq jobs \cup {n} /\ n \in J
    BY <1>3, <1>7
  <2>3. ASSUME NEW c \in jobs, \A j \in jobs : j.job_id <= c.job_id
        PROVE  c \in J
    <3>1. SUFFICES ASSUME c = d PROVE FALSE
      BY <1>7
    <3>2. \A j \in jobs : j = d
      BY <1>1, <1>7, <2>3, <3>1
    <3>3. jobs = {d}
      BY <3>2
    <3> QED
      BY <1>1, <1>7, <3>3, FS_Singleton
  <2>4. ASSUME NEW i \in Nat, KeptOrOld(i)
        PROVE  \/ \E j \in J : j.job_id = i
               \/ Cardinality(J) = KeepJobs /\ \A j \in J : j.job_id > i
    <3>1. CASE \E j \in jobs : j.job_id = i
      BY <1>1, <1>2, <1>7, <2>1, <3>1
    <3>2. CASE \A j \in jobs : j.job_id > i
      BY <1>1, <1>2, <1>7, <2>1, <3>2
    <3> QED
      BY <2>4, <3>1, <3>2 DEF KeptOrOld
  <2> QED
    BY <1>1, <2>1, <2>2, <2>3, <2>4
<1> QED
  BY <1>2, <1>3, <1>5, <1>6, <1>7 DEF n, J

-----------------------------------------------------------------------------
(* The invariant of the jobs.                                              *)

\* A step that leaves the jobs and the current job alone, and keeps the updater
\* from claiming more about them than before.
LEMMA JobsFrame ==
  ASSUME ServerInv, UNCHANGED <<jobs, current_job>>, templates \subseteq templates',
         job_counter' \in Nat, job_counter' >= job_counter,
         updater.at # "current", updater'.at # "current",
         updater'.at \in {"drain", "register", "publish"} =>
            \A j \in jobs : j.job_id < job_counter',
         updater'.at = "notify" => current_job = updater'.job
  PROVE  JobsInv'
<1>1. /\ \A j \in jobs : j.job_id \in Nat
      /\ job_counter \in Nat
  BY Numbers
<1>2. \A j \in jobs : Registered(j) /\ j.job_id <= job_counter
  BY DEF ServerInv, JobsInv
<1>3. \A j \in jobs' : Registered(j)' /\ j.job_id <= job_counter'
  <2>1. ASSUME NEW j \in jobs PROVE Registered(j)'
    BY <1>2 DEF Registered
  <2>2. ASSUME NEW j \in jobs PROVE j.job_id <= job_counter'
    BY <1>1, <1>2
  <2> QED
    BY <2>1, <2>2
<1>4. Settled = jobs /\ Settled' = jobs'
  BY DEF Settled
<1>5. IF current_job = NoJob THEN Settled' = {}
      ELSE current_job \in Settled' /\ \A j \in Settled' : j.job_id <= current_job.job_id
  BY <1>4 DEF ServerInv, JobsInv
<1>6. /\ IsFiniteSet(jobs) /\ Cardinality(jobs) <= KeepJobs
      /\ \A j, k \in jobs : j.job_id = k.job_id => j = k
  BY DEF ServerInv, JobsInv
<1> QED
  BY <1>3, <1>5, <1>6 DEF JobsInv

LEMMA InsertJobKeepsJobs ==
  ASSUME ServerInv, InsertJob
  PROVE  JobsInv'
<1> DEFINE n == updater.job
           J == Trim(jobs \cup {n})
<1>1. /\ updater.at = "publish" /\ updater'.at = "current" /\ updater'.job = n
      /\ jobs' = J /\ UNCHANGED <<templates, current_job, job_counter>>
  BY InsertJobEffect DEF Upd
<1>2. /\ IsFiniteSet(J) /\ Cardinality(J) <= KeepJobs
      /\ J \subseteq jobs \cup {n} /\ n \in J /\ n \notin jobs /\ n \in Job
      /\ \A j \in jobs : j.job_id < n.job_id
      /\ \A c \in jobs : (\A j \in jobs : j.job_id <= c.job_id) => c \in J
  BY <1>1, InsertedJobs
<1>3. Registered(n) /\ n.job_id = job_counter /\ job_counter \in Nat
  BY <1>1, Numbers DEF ServerInv, UpdaterInv
<1>4. /\ \A j, k \in jobs : j.job_id = k.job_id => j = k
      /\ \A j \in jobs : Registered(j) /\ j.job_id <= job_counter /\ j.job_id \in Nat
      /\ IF current_job = NoJob THEN jobs = {}
         ELSE current_job \in jobs /\ \A j \in jobs : j.job_id <= current_job.job_id
  BY <1>1, Numbers DEF ServerInv, JobsInv, Settled
<1> HIDE DEF n, J
<1>5. \A j, k \in J : j.job_id = k.job_id => j = k
  BY <1>2, <1>3, <1>4
<1>6. \A j \in J : Registered(j) /\ j.job_id <= job_counter
  BY <1>2, <1>3, <1>4
<1>7. \A j \in J : Registered(j)'
  BY <1>1, <1>6 DEF Registered
<1>8. Settled' = J \ {n}
  BY <1>1 DEF Settled
<1>9. IF current_job = NoJob THEN J \ {n} = {}
      ELSE current_job \in J \ {n} /\ \A j \in J \ {n} : j.job_id <= current_job.job_id
  <2>1. CASE current_job = NoJob
    BY <1>2, <1>4, <2>1
  <2>2. CASE current_job # NoJob
    <3>1. current_job \in jobs /\ \A j \in jobs : j.job_id <= current_job.job_id
      BY <1>4, <2>2
    <3>2. current_job \in J /\ current_job # n
      BY <1>2, <3>1
    <3> QED
      BY <1>2, <2>2, <3>1, <3>2
  <2> QED
    BY <2>1, <2>2
<1>10. IF current_job' = NoJob THEN Settled' = {}
       ELSE current_job' \in Settled' /\ \A j \in Settled' : j.job_id <= current_job'.job_id
  BY <1>1, <1>8, <1>9
<1> QED
  BY <1>1, <1>2, <1>5, <1>6, <1>7, <1>10 DEF JobsInv

LEMMA SetCurrentKeepsJobs ==
  ASSUME ServerInv, SetCurrentJob
  PROVE  JobsInv'
<1>1. /\ updater.at = "current" /\ updater'.at = "notify" /\ updater'.job = updater.job
      /\ updater.job \in Job /\ current_job' = updater.job
      /\ UNCHANGED <<templates, jobs, job_counter>>
  BY SetCurrentJobEffect DEF Upd
<1>2. updater.job.job_id = job_counter /\ updater.job # NoJob
  BY <1>1, JobIsAJob DEF ServerInv, UpdaterInv
<1>3. /\ IsFiniteSet(jobs) /\ Cardinality(jobs) <= KeepJobs /\ updater.job \in jobs
      /\ \A j, k \in jobs : j.job_id = k.job_id => j = k
      /\ \A j \in jobs : Registered(j) /\ j.job_id <= job_counter
  BY <1>1 DEF ServerInv, JobsInv
<1>4. \A j \in jobs' : Registered(j)' /\ j.job_id <= job_counter'
  BY <1>1, <1>3 DEF Registered
<1>5. Settled' = jobs
  BY <1>1 DEF Settled
<1> QED
  BY <1>1, <1>2, <1>3, <1>4, <1>5 DEF JobsInv

LEMMA JobsStepInv ==
  ASSUME ServerInv, [Next]_vars
  PROVE  JobsInv'
<1>0. /\ job_counter \in Nat /\ \A j \in jobs : j.job_id \in Nat /\ j.job_id <= job_counter
      /\ updater.at \in {"drain", "register", "publish"} =>
            \A j \in jobs : j.job_id < job_counter
      /\ updater.at = "notify" => current_job = updater.job
  BY Numbers DEF ServerInv, JobsInv
<1>1. CASE Outside
  <2>1. UNCHANGED <<templates, updater, current_job, jobs, job_counter>>
    BY <1>1, OutsideFrame DEF updateVars
  <2> QED
    BY <2>1 DEF ServerInv, JobsInv, Registered, Settled
<1>2. CASE PollNewBlock
  <2>1. /\ updater.at = "poll" /\ updater'.at = "register" /\ job_counter' = job_counter + 1
        /\ UNCHANGED <<templates, current_job, jobs>>
    BY <1>2, PollNewBlockEffect DEF Upd
  <2> QED
    BY <1>0, <2>1, JobsFrame
<1>3. CASE PollMerkleUpdate
  <2>1. /\ updater.at = "poll" /\ updater'.at = "drain" /\ job_counter' = job_counter + 1
        /\ UNCHANGED <<templates, current_job, jobs>>
    BY <1>3, PollMerkleUpdateEffect DEF Upd
  <2> QED
    BY <1>0, <2>1, JobsFrame
<1>4. CASE PollWithoutJob
  <2>1. /\ updater.at = "poll" /\ updater'.at = "poll" /\ job_counter' = job_counter + 1
        /\ UNCHANGED <<templates, current_job, jobs>>
    BY <1>4 DEF PollWithoutJob
  <2> QED
    BY <1>0, <2>1, JobsFrame
<1>5. CASE Drained
  <2>1. /\ updater.at = "drain" /\ updater'.at = "register"
        /\ UNCHANGED <<templates, current_job, jobs, job_counter>>
    BY <1>5, DrainedEffect DEF Upd
  <2> QED
    BY <1>0, <2>1, JobsFrame
<1>6. CASE RegisterTemplate
  <2>1. /\ updater.at = "register" /\ updater'.at = "publish" /\ templates \subseteq templates'
        /\ UNCHANGED <<current_job, jobs, job_counter>>
    BY <1>6, RegisterTemplateEffect DEF Upd
  <2> QED
    BY <1>0, <2>1, JobsFrame
<1>7. ASSUME NEW landed \in BOOLEAN, RegisterFails(landed) PROVE JobsInv'
  <2>1. /\ updater.at = "register" /\ updater'.at = "poll" /\ templates \subseteq templates'
        /\ UNCHANGED <<current_job, jobs, job_counter>>
    BY <1>7, RegisterFailsEffect DEF Upd
  <2> QED
    BY <1>0, <2>1, JobsFrame
<1>8. CASE InsertJob
  BY <1>8, InsertJobKeepsJobs
<1>9. CASE SetCurrentJob
  BY <1>9, SetCurrentKeepsJobs
<1>10. ASSUME NEW m \in Miners, Notify(m) PROVE JobsInv'
  <2>1. /\ updater.at = "notify" /\ updater'.at = "notify" /\ updater'.job = updater.job
        /\ UNCHANGED <<templates, current_job, jobs, job_counter>>
    BY <1>10, NotifyUpdater DEF Upd
  <2> QED
    BY <1>0, <2>1, JobsFrame
<1>11. CASE Announced
  <2>1. /\ updater.at = "notify" /\ updater'.at = "poll"
        /\ UNCHANGED <<templates, current_job, jobs, job_counter>>
    BY <1>11, AnnouncedEffect DEF Upd
  <2> QED
    BY <1>0, <2>1, JobsFrame
<1> QED
  BY <1>1, <1>2, <1>3, <1>4, <1>5, <1>6, <1>7, <1>8, <1>9, <1>10, <1>11, NextCases
     DEF UpdaterStep

-----------------------------------------------------------------------------
(* The invariant of the connections.                                       *)

\* A job id that is registered and known, or given up for newer ones.
Standing(i) == KeptOrOld(i) /\ \E t \in templates : t.id = i

\* What ConnectionsInv says of one connection.
ConnOK(at, job, share, sent) ==
    /\ at \in {"greet", "record", "submit", "check"} => job \in Job
    /\ at \in {"record", "submit", "check"} => share \in Shares
    /\ job # NoJob => Registered(job) /\ KeptOrOld(job.job_id)
    /\ \A i \in sent : Standing(i)

LEMMA ConnOKType ==
  ConnectionsInv <=> \A m \in Miners : ConnOK(miners[m].at, miners[m].job,
                                              miners[m].share, miners[m].sent)
BY DEF ConnectionsInv, ConnOK, Standing

LEMMA RegisteredStands ==
  ASSUME NEW job, Registered(job), KeptOrOld(job.job_id)
  PROVE  Standing(job.job_id)
BY DEF Registered, Register, Standing

LEMMA CurrentJobStands ==
  ASSUME ServerInv, current_job # NoJob
  PROVE  /\ current_job \in jobs /\ current_job \in Job
         /\ Registered(current_job) /\ KeptOrOld(current_job.job_id)
<1>1. current_job \in jobs /\ Registered(current_job)
  BY DEF ServerInv, JobsInv, Settled
<1> QED
  BY <1>1, Numbers DEF KeptOrOld

LEMMA ConnStep ==
  ASSUME ServerInv, UNCHANGED <<jobs, templates>>, NEW m \in Miners,
         NEW at, NEW job, NEW share, NEW sent,
         Conn(m, at, job, share, sent), ConnOK(at, job, share, sent)
  PROVE  ConnectionsInv'
<1>0. \A n \in Miners : ConnOK(miners[n].at, miners[n].job, miners[n].share, miners[n].sent)
  BY ConnOKType DEF ServerInv
<1>1. \A n \in Miners : ConnOK(miners'[n].at, miners'[n].job, miners'[n].share, miners'[n].sent)
  <2>1. ASSUME NEW n \in Miners
        PROVE  ConnOK(miners'[n].at, miners'[n].job, miners'[n].share, miners'[n].sent)
    <3>1. CASE n = m
      BY <3>1 DEF Conn
    <3>2. CASE n # m
      BY <1>0, <3>2 DEF Conn
    <3> QED
      BY <3>1, <3>2
  <2> QED
    BY <2>1
<1> QED
  BY <1>1 DEF ConnectionsInv, ConnOK, Standing, Registered, KeptOrOld

\* What is standing stays so when templates are added and jobs give way to newer ones.
LEMMA ConnFrame ==
  ASSUME ServerInv, miners' = miners, templates \subseteq templates',
         \A i \in Nat : KeptOrOld(i) => KeptOrOld(i)'
  PROVE  ConnectionsInv'
<1>1. ASSUME NEW m \in Miners
      PROVE  /\ miners[m].job # NoJob => miners[m].job.job_id \in Nat
             /\ miners[m].sent \subseteq Nat
  <2>1. miners[m].job \in {NoJob} \cup Job /\ miners[m].sent \subseteq JobIds
    BY DEF ServerInv, ShapesOK
  <2> QED
    BY <2>1, JobIsAJob, Numbers
<1>2. ASSUME NEW m \in Miners
      PROVE  /\ miners[m].job # NoJob =>
                  Registered(miners[m].job)' /\ KeptOrOld(miners[m].job.job_id)'
             /\ \A i \in miners[m].sent : KeptOrOld(i)' /\ \E t \in templates' : t.id = i
  <2>1. ASSUME miners[m].job # NoJob
        PROVE  Registered(miners[m].job)' /\ KeptOrOld(miners[m].job.job_id)'
    <3> DEFINE job == miners[m].job
    <3>1. Registered(job) /\ KeptOrOld(job.job_id) /\ job.job_id \in Nat
      BY <1>1, <2>1 DEF ServerInv, ConnectionsInv
    <3>2. job.sui_template_id = job.job_id /\ Register(job) \in templates'
      BY <3>1 DEF Registered
    <3>3. miners'[m].job = job
      OBVIOUS
    <3>4. Registered(miners[m].job)'
      BY <3>2, <3>3 DEF Registered, Register
    <3>5. KeptOrOld(job.job_id)'
      <4> DEFINE i == job.job_id
      <4>1. i \in Nat /\ KeptOrOld(i)
        BY <3>1
      <4>2. \/ \E j \in jobs' : j.job_id = i
            \/ Cardinality(jobs') = KeepJobs /\ \A j \in jobs' : j.job_id > i
        <5> HIDE DEF i
        <5> QED
          BY <4>1 DEF KeptOrOld
      <4>3. i' = i
        OBVIOUS
      <4> QED
        BY <4>2, <4>3 DEF KeptOrOld
    <3> QED
      BY <3>4, <3>5
  <2>2. ASSUME NEW i \in miners[m].sent
        PROVE  KeptOrOld(i)' /\ \E t \in templates' : t.id = i
    BY <1>1 DEF ServerInv, ConnectionsInv
  <2> QED
    BY <2>1, <2>2
<1>3. ASSUME NEW m \in Miners
      PROVE  /\ miners[m].at \in {"greet", "record", "submit", "check"} => miners[m].job \in Job
             /\ miners[m].at \in {"record", "submit", "check"} => miners[m].share \in Shares
  BY DEF ServerInv, ConnectionsInv
<1> QED
  BY <1>2, <1>3 DEF ConnectionsInv

LEMMA ConnectionsStepInv ==
  ASSUME ServerInv, [Next]_vars
  PROVE  ConnectionsInv'
<1>0. /\ ShapesOK /\ ConnectionsInv /\ UpdaterInv /\ jobs \subseteq Job
      /\ current_job \in {NoJob} \cup Job
      /\ \A m \in Miners : ConnOK(miners[m].at, miners[m].job,
                                  miners[m].share, miners[m].sent)
  BY ConnOKType DEF ServerInv, StratumTypeOK
<1>1. ASSUME UNCHANGED <<miners, jobs>>, templates \subseteq templates'
      PROVE  ConnectionsInv'
  <2>1. \A i \in Nat : KeptOrOld(i) => KeptOrOld(i)'
    BY <1>1 DEF KeptOrOld
  <2> QED
    BY <1>1, <2>1, ConnFrame
<1>2. ASSUME NEW m \in Miners, Outside,
             \/ Connect(m) \/ Disconnect(m) \/ Greet(m) \/ SendFirstJob(m)
             \/ \E job \in jobs, s \in Shares : LookUpJob(m, job, s)
             \/ RejectDuplicate(m)
             \/ \E found \in BOOLEAN : RecordShare(m, found)
             \/ \E txs \in TxSets : SubmitBlock(m, txs)
             \/ \E meets \in BOOLEAN : CheckDifficulty(m, meets)
      PROVE  ConnectionsInv'
  <2>0. UNCHANGED <<jobs, templates>>
    BY <1>2, OutsideFrame DEF updateVars
  <2>a. ConnOK(miners[m].at, miners[m].job, miners[m].share, miners[m].sent)
    BY <1>0
  <2>1. CASE Connect(m)
    <3>1. Conn(m, "idle", miners[m].job, miners[m].share, miners[m].sent)
      BY <1>0, <2>1, ConnectEffect
    <3>2. ConnOK("idle", miners[m].job, miners[m].share, miners[m].sent)
      BY <2>a DEF ConnOK
    <3> QED
      BY <2>0, <3>1, <3>2, ConnStep
  <2>2. CASE Disconnect(m)
    <3>1. Conn(m, "away", NoJob, NoShare, {})
      BY <1>0, <2>2, DisconnectEffect
    <3>2. ConnOK("away", NoJob, NoShare, {})
      BY DEF ConnOK
    <3> QED
      BY <2>0, <3>1, <3>2, ConnStep
  <2>3. CASE Greet(m)
    <3>1. Conn(m, "greet", current_job, miners[m].share, miners[m].sent)
      BY <1>0, <2>3, GreetEffect
    <3>2. /\ current_job \in Job /\ Registered(current_job)
          /\ KeptOrOld(current_job.job_id)
      BY <2>3, CurrentJobStands DEF Greet
    <3>3. ConnOK("greet", current_job, miners[m].share, miners[m].sent)
      BY <2>a, <3>2 DEF ConnOK
    <3> QED
      BY <2>0, <3>1, <3>3, ConnStep
  <2>4. CASE SendFirstJob(m)
    <3> DEFINE sent == miners[m].sent \cup {miners[m].job.job_id}
    <3>1. Conn(m, "idle", NoJob, miners[m].share, sent) /\ miners[m].job \in Job
      BY <1>0, <2>4, SendFirstJobEffect
    <3>2. Standing(miners[m].job.job_id)
      BY <2>a, <3>1, JobIsAJob, RegisteredStands DEF ConnOK
    <3>3. \A i \in sent : Standing(i)
      BY <2>a, <3>2 DEF ConnOK
    <3> HIDE DEF sent
    <3>4. ConnOK("idle", NoJob, miners[m].share, sent)
      BY <3>3 DEF ConnOK
    <3> QED
      BY <2>0, <3>1, <3>4, ConnStep
  <2>5. ASSUME NEW job \in jobs, NEW s \in Shares, LookUpJob(m, job, s)
        PROVE  ConnectionsInv'
    <3>1. Conn(m, "record", job, s, miners[m].sent) /\ job \in Job
      BY <1>0, <2>5, LookUpJobEffect
    <3>2. Registered(job) /\ KeptOrOld(job.job_id)
      BY DEF ServerInv, JobsInv, KeptOrOld
    <3>3. ConnOK("record", job, s, miners[m].sent)
      BY <2>a, <3>1, <3>2 DEF ConnOK
    <3> QED
      BY <2>0, <3>1, <3>3, ConnStep
  <2>6. ASSUME miners' = Answered(m) PROVE ConnectionsInv'
    <3>1. Conn(m, "idle", NoJob, NoShare, miners[m].sent)
      BY <1>0, <2>6, AnsweredEffect
    <3>2. ConnOK("idle", NoJob, NoShare, miners[m].sent)
      BY <2>a DEF ConnOK
    <3> QED
      BY <2>0, <3>1, <3>2, ConnStep
  <2>7. ASSUME NEW a \in {"submit", "check"}, miners[m].at \in {"record", "submit"},
               miners' = [miners EXCEPT ![m].at = a]
        PROVE  ConnectionsInv'
    <3>1. Conn(m, a, miners[m].job, miners[m].share, miners[m].sent)
      BY <1>0, <2>7, MovesOnEffect
    <3>2. ConnOK(a, miners[m].job, miners[m].share, miners[m].sent)
      BY <2>a, <2>7 DEF ConnOK
    <3> QED
      BY <2>0, <3>1, <3>2, ConnStep
  <2>8. ASSUME NEW found \in BOOLEAN, RecordShare(m, found) PROVE ConnectionsInv'
    BY <2>7, <2>8 DEF RecordShare
  <2>9. ASSUME NEW txs \in TxSets, SubmitBlock(m, txs) PROVE ConnectionsInv'
    BY <2>7, <2>9 DEF SubmitBlock
  <2>10. ASSUME NEW meets \in BOOLEAN, CheckDifficulty(m, meets) PROVE ConnectionsInv'
    BY <2>6, <2>10 DEF CheckDifficulty
  <2>11. CASE RejectDuplicate(m)
    BY <2>6, <2>11 DEF RejectDuplicate
  <2> QED
    BY <1>2, <2>1, <2>2, <2>3, <2>4, <2>5, <2>8, <2>9, <2>10, <2>11, Zenon
<1>3. ASSUME \/ \E txs \in TxSets : NewTip(txs) \/ MempoolChange(txs)
             \/ FlushBatch
             \/ UNCHANGED vars
      PROVE  ConnectionsInv'
  <2>1. UNCHANGED <<miners, jobs, templates>>
    BY <1>3 DEF NewTip, MempoolChange, FlushBatch, vars, updateVars
  <2> QED
    BY <1>1, <2>1
<1>4. CASE Outside
  BY <1>2, <1>3, <1>4, Zenon DEF Outside
<1>5. CASE InsertJob
  <2>1. /\ updater.at = "publish" /\ jobs' = Trim(jobs \cup {updater.job})
        /\ UNCHANGED <<miners, templates>>
    BY <1>5, InsertJobEffect
  <2>2. \A i \in Nat : KeptOrOld(i) => KeptOrOld(i)'
    BY <2>1, InsertedJobs DEF KeptOrOld
  <2> QED
    BY <2>1, <2>2, ConnFrame
<1>6. ASSUME NEW m \in Miners, Notify(m) PROVE ConnectionsInv'
  <2>0. updater.at = "notify" /\ updater.job \in Job /\ UNCHANGED <<jobs, templates>>
    BY <1>6, NotifyUpdater
  <2>1. Standing(updater.job.job_id)
    <3>1. current_job = updater.job
      BY <2>0 DEF ServerInv, JobsInv
    <3> QED
      BY <2>0, <3>1, CurrentJobStands, JobIsAJob, RegisteredStands
  <2>2. ConnOK(miners[m].at, miners[m].job, miners[m].share, miners[m].sent)
    BY <1>0
  <2>3. ConnOK(miners[m].at, miners[m].job, miners[m].share,
               miners[m].sent \cup {updater.job.job_id})
    BY <2>1, <2>2 DEF ConnOK
  <2>4. \/ Conn(m, miners[m].at, miners[m].job, miners[m].share, miners[m].sent)
        \/ Conn(m, miners[m].at, miners[m].job, miners[m].share,
                miners[m].sent \cup {updater.job.job_id})
    BY <1>0, <1>6, NotifyEffect
  <2> QED
    BY <2>0, <2>2, <2>3, <2>4, ConnStep
<1>7. ASSUME \/ PollNewBlock \/ PollMerkleUpdate \/ PollWithoutJob \/ Drained
             \/ RegisterTemplate \/ \E landed \in BOOLEAN : RegisterFails(landed)
             \/ SetCurrentJob \/ Announced
      PROVE  ConnectionsInv'
  <2>1. UNCHANGED <<miners, jobs>> /\ templates \subseteq templates'
    BY <1>7 DEF PollNewBlock, PollMerkleUpdate, PollWithoutJob, Drained, RegisterTemplate,
                RegisterFails, SetCurrentJob, Announced
  <2> QED
    BY <1>1, <2>1
<1> QED
  BY <1>4, <1>5, <1>6, <1>7, NextCases, Zenon DEF UpdaterStep

-----------------------------------------------------------------------------
(* Shares: what a request does to the shards, the count and the batch.     *)

\* One more copy of k in a bag.
LEMMA AddCopy ==
  ASSUME NEW B, IsABag(B), NEW k
  PROVE  LET C == B (+) SetToBag({k})
         IN  /\ IsABag(C) /\ BagToSet(C) = BagToSet(B) \cup {k}
             /\ C[k] = (IF BagIn(k, B) THEN B[k] ELSE 0) + 1
             /\ \A j \in BagToSet(B) \ {k} : C[j] = B[j]
<1> DEFINE D == SetToBag({k})
           C == B (+) D
           One == {n \in Nat : n > 0}
<1>1. DOMAIN D = {k} /\ D[k] = 1
  BY DEF SetToBag
<1>2. B \in [DOMAIN B -> One]
  BY DEF IsABag
<1>3. C = [e \in (DOMAIN B) \cup {k} |->
             (IF e \in DOMAIN B THEN B[e] ELSE 0) + (IF e \in {k} THEN D[e] ELSE 0)]
  BY <1>1 DEF (+)
<1> HIDE DEF D, C
<1>4. DOMAIN C = DOMAIN B \cup {k}
  BY <1>3
<1>5. C[k] = (IF k \in DOMAIN B THEN B[k] ELSE 0) + 1
  BY <1>1, <1>3
<1>6. ASSUME NEW j \in DOMAIN B, j # k PROVE C[j] = B[j]
  <2>1. C[j] = B[j] + 0
    BY <1>3, <1>6
  <2>2. B[j] \in One
    BY <1>2
  <2> QED
    BY <2>1, <2>2
<1>7. \A j \in DOMAIN C : C[j] \in One
  <2>1. ASSUME NEW j \in DOMAIN C, j # k PROVE C[j] \in One
    BY <1>2, <1>4, <1>6, <2>1
  <2>2. C[k] \in One
    <3>1. CASE k \in DOMAIN B
      <4>1. B[k] \in One
        BY <1>2, <3>1
      <4> QED
        BY <1>5, <3>1, <4>1
    <3>2. CASE k \notin DOMAIN B
      BY <1>5, <3>2
    <3> QED
      BY <3>1, <3>2
  <2> QED
    BY <2>1, <2>2
<1>8. C \in [DOMAIN C -> One]
  <2> HIDE DEF One
  <2> QED
    BY <1>3, <1>4, <1>7
<1> QED
  BY <1>4, <1>5, <1>6, <1>8 DEF IsABag, BagToSet, BagIn, C, D

\* The key of a request that holds a job and a share.
LEMMA KeyIsAKey ==
  ASSUME ServerInv, NEW m \in Miners, miners[m].at \in {"record", "submit", "check"}
  PROVE  /\ KeyOf(m) \in Key /\ miners[m].job \in Job /\ miners[m].share \in Shares
         /\ miners[m].job.sui_template_id \in JobIds
         /\ \E t \in templates : t.id = KeyOf(m).job_id
<1>1. miners[m].job \in Job /\ miners[m].share \in Shares
  BY DEF ServerInv, ConnectionsInv
<1>2. miners[m].job.job_id \in JobIds /\ miners[m].job # NoJob
  BY <1>1, JobIsAJob
<1>3. Registered(miners[m].job)
  BY <1>2 DEF ServerInv, ConnectionsInv
<1>4. KeyOf(m) \in Key /\ KeyOf(m).job_id = miners[m].job.job_id
  BY <1>1, <1>2 DEF KeyOf, Key
<1> QED
  BY <1>1, <1>2, <1>3, <1>4 DEF Registered, Register

LEMMA RecordShareEffect ==
  ASSUME ServerInv, NEW m \in Miners, NEW found \in BOOLEAN, RecordShare(m, found)
  PROVE  /\ miners[m].at = "record"
         /\ \E a \in {"submit", "check"} :
               Conn(m, a, miners[m].job, miners[m].share, miners[m].sent)
         /\ KeyOf(m) \in Key /\ KeyOf(m) \notin submitted_shares
         /\ submitted_shares' = submitted_shares \cup {KeyOf(m)}
         /\ UNCHANGED <<accepted, batch, templates, current_prev_hash>>
<1>1. /\ miners[m].at = "record" /\ KeyOf(m) \notin submitted_shares
      /\ submitted_shares' = submitted_shares \cup {KeyOf(m)}
      /\ UNCHANGED <<accepted, batch, templates, current_prev_hash>>
  BY DEF RecordShare, Recorded, updateVars
<1>2. KeyOf(m) \in Key
  BY <1>1, KeyIsAKey
<1> DEFINE a == IF found THEN "submit" ELSE "check"
<1>3. a \in {"submit", "check"} /\ miners' = [miners EXCEPT ![m].at = a]
  BY DEF RecordShare
<1> HIDE DEF a
<1>4. Conn(m, a, miners[m].job, miners[m].share, miners[m].sent)
  BY <1>3, MovesOnEffect DEF ServerInv
<1> QED
  BY <1>1, <1>2, <1>3, <1>4

LEMMA CheckDifficultyEffect ==
  ASSUME ServerInv, NEW m \in Miners, NEW meets \in BOOLEAN, CheckDifficulty(m, meets)
  PROVE  /\ miners[m].at = "check" /\ KeyOf(m) \in Key
         /\ Conn(m, "idle", NoJob, NoShare, miners[m].sent)
         /\ \E t \in templates : t.id = KeyOf(m).job_id
         /\ accepted' = accepted \/ accepted' = accepted (+) SetToBag({KeyOf(m)})
         /\ batch' \subseteq BatchType
         /\ UNCHANGED <<submitted_shares, templates, current_prev_hash>>
<1>1. /\ miners[m].at = "check" /\ miners' = Answered(m)
      /\ UNCHANGED <<submitted_shares, templates, current_prev_hash>>
  BY DEF CheckDifficulty, updateVars
<1>2. /\ KeyOf(m) \in Key /\ miners[m].job.sui_template_id \in JobIds
      /\ miners[m].share \in Shares
      /\ \E t \in templates : t.id = KeyOf(m).job_id
  BY <1>1, KeyIsAKey
<1>3. Conn(m, "idle", NoJob, NoShare, miners[m].sent)
  BY <1>1, AnsweredEffect DEF ServerInv
<1>4. accepted' = accepted \/ accepted' = accepted (+) SetToBag({KeyOf(m)})
  BY DEF CheckDifficulty
<1>5. batch' \subseteq BatchType
  <2> DEFINE b == [template |-> miners[m].job.sui_template_id, share |-> miners[m].share]
  <2>1. b \in BatchType
    BY <1>2 DEF BatchType
  <2>2. batch' = batch \/ batch' = batch \cup {b}
    BY DEF CheckDifficulty
  <2> HIDE DEF b
  <2> QED
    BY <2>1, <2>2, Numbers
<1> QED
  BY <1>1, <1>2, <1>3, <1>4, <1>5

-----------------------------------------------------------------------------
(* How often a share is accepted.                                          *)

\* The count and the requests in flight are natural numbers.
LEMMA CountTypes ==
  ASSUME ServerInv, NEW k
  PROVE  /\ Copies(k) \in Nat /\ IsFiniteSet(InFlight(k))
         /\ Cardinality(InFlight(k)) \in Nat
<1>1. InFlight(k) \in SUBSET Miners
  BY DEF InFlight
<1>2. IsFiniteSet(InFlight(k))
  BY <1>1, StratumAssumption, FS_Subset
<1>3. accepted \in [DOMAIN accepted -> {n \in Nat : n > 0}]
  BY DEF ServerInv, ShapesOK, IsABag
<1>4. k \in DOMAIN accepted => accepted[k] \in Nat
  BY <1>3
<1> QED
  BY <1>2, <1>4, FS_CardinalityType DEF Copies, BagIn, BagToSet

\* Only m can enter or leave the requests in flight when it is m that moves.
LEMMA InFlightStep ==
  ASSUME ServerInv, NEW m \in Miners, NEW at, NEW job, NEW share, NEW sent,
         Conn(m, at, job, share, sent), NEW k
  PROVE  InFlight(k)' = IF at \in {"submit", "check"}
                              /\ [job_id |-> job.job_id, share |-> share] = k
                        THEN InFlight(k) \cup {m} ELSE InFlight(k) \ {m}
<1>1. \A n \in Miners \ {m} : n \in InFlight(k)' <=> n \in InFlight(k)
  BY DEF InFlight, KeyOf, Conn
<1>2. m \in InFlight(k)' <=> /\ at \in {"submit", "check"}
                             /\ [job_id |-> job.job_id, share |-> share] = k
  BY DEF InFlight, KeyOf, Conn
<1>3. InFlight(k) \subseteq Miners /\ InFlight(k)' \subseteq Miners
  BY DEF InFlight
<1> QED
  BY <1>1, <1>2, <1>3

\* Before and after, m is not in flight, or it is with the same key.
LEMMA InFlightSame ==
  ASSUME ServerInv, NEW m \in Miners, NEW at, NEW job, NEW share, NEW sent,
         Conn(m, at, job, share, sent), NEW k,
         \/ /\ at \notin {"submit", "check"}
            /\ miners[m].at \notin {"submit", "check"}
         \/ /\ job = miners[m].job /\ share = miners[m].share
            /\ at \in {"submit", "check"} <=> miners[m].at \in {"submit", "check"}
  PROVE  InFlight(k)' = InFlight(k)
<1>1. m \in InFlight(k) <=> /\ miners[m].at \in {"submit", "check"}
                            /\ [job_id |-> miners[m].job.job_id,
                                share |-> miners[m].share] = k
  BY DEF InFlight, KeyOf
<1> QED
  BY <1>1, InFlightStep

\* Nothing changes for the keys, and the shards may only be cleared by a new block.
LEMMA AcceptFrame ==
  ASSUME ServerInv, UNCHANGED <<templates, accepted>>,
         \A k \in Key : InFlight(k)' = InFlight(k),
         \/ UNCHANGED <<current_prev_hash, submitted_shares>>
         \/ current_prev_hash' \in Nat /\ current_prev_hash' > current_prev_hash
  PROVE  AcceptInv'
<1>1. \A k \in BagToSet(accepted) : \E t \in templates : t.id = k.job_id
  BY DEF ServerInv, AcceptInv
<1>2. ASSUME NEW k \in Key, NEW t \in templates, t.id = k.job_id
      PROVE  Copies(k)' + Cardinality(InFlight(k)') <=
               (current_prev_hash' - t.coinbase)
                   + (IF k \in submitted_shares' THEN 1 ELSE 0)
  <2> DEFINE c == Copies(k)
             f == Cardinality(InFlight(k))
  <2>1. c + f <= (current_prev_hash - t.coinbase)
                     + (IF k \in submitted_shares THEN 1 ELSE 0)
    BY <1>2 DEF ServerInv, AcceptInv
  <2>2. c \in Nat /\ f \in Nat /\ t.coinbase \in Nat /\ current_prev_hash \in Nat
    BY CountTypes, Numbers
  <2>3. Copies(k)' = c /\ Cardinality(InFlight(k)') = f
    BY DEF Copies
  <2> HIDE DEF c, f
  <2> QED
    BY <2>1, <2>2, <2>3
<1> QED
  BY <1>1, <1>2 DEF AcceptInv

\* A new template has an id no request and no accepted share has used.
LEMMA AcceptNewTemplate ==
  ASSUME ServerInv, updater.at = "register", NEW new, new.id = job_counter,
         new.coinbase \in Nat, new.coinbase <= current_prev_hash,
         templates' = templates \cup {new},
         UNCHANGED <<miners, accepted, current_prev_hash, submitted_shares>>
  PROVE  AcceptInv'
<1>1. \A k \in BagToSet(accepted) : \E t \in templates : t.id = k.job_id
  BY DEF ServerInv, AcceptInv
<1>2. \A t \in templates : t.id < job_counter
  BY DEF ServerInv, UpdaterInv
<1>3. ASSUME NEW k \in Key
      PROVE  /\ Copies(k)' = Copies(k) /\ InFlight(k)' = InFlight(k)
  BY DEF Copies, InFlight, KeyOf
<1>4. ASSUME NEW k \in Key, NEW t \in templates, t.id = k.job_id
      PROVE  Copies(k)' + Cardinality(InFlight(k)') <=
               (current_prev_hash' - t.coinbase)
                   + (IF k \in submitted_shares' THEN 1 ELSE 0)
  <2>1. Copies(k) + Cardinality(InFlight(k)) <= (current_prev_hash - t.coinbase)
                     + (IF k \in submitted_shares THEN 1 ELSE 0)
    BY <1>4 DEF ServerInv, AcceptInv
  <2> QED
    BY <1>3, <2>1
<1>5. ASSUME NEW k \in Key, k.job_id = job_counter
      PROVE  Copies(k)' + Cardinality(InFlight(k)') <=
               (current_prev_hash' - new.coinbase)
                   + (IF k \in submitted_shares' THEN 1 ELSE 0)
  <2>0. \A t \in templates : t.id # k.job_id
    BY <1>2, <1>5, Numbers
  <2>1. Copies(k) = 0
    BY <1>1, <2>0 DEF Copies, BagIn
  <2>2. InFlight(k) = {}
    <3>1. SUFFICES ASSUME NEW m \in InFlight(k) PROVE FALSE
      OBVIOUS
    <3>2. m \in Miners /\ miners[m].at \in {"record", "submit", "check"} /\ KeyOf(m) = k
      BY DEF InFlight
    <3> QED
      BY <2>0, <3>2, KeyIsAKey
  <2>3. Cardinality(InFlight(k)) = 0
    BY <2>2, FS_EmptySet
  <2> QED
    BY <1>3, <2>1, <2>3, Numbers
<1>6. \A k \in BagToSet(accepted)' : \E t \in templates' : t.id = k.job_id
  BY <1>1
<1> QED
  BY <1>4, <1>5, <1>6 DEF AcceptInv

LEMMA AcceptRecord ==
  ASSUME ServerInv, NEW m \in Miners, NEW found \in BOOLEAN, RecordShare(m, found)
  PROVE  AcceptInv'
<1> DEFINE key == KeyOf(m)
<1>1. /\ miners[m].at = "record" /\ key \in Key /\ key \notin submitted_shares
      /\ submitted_shares' = submitted_shares \cup {key}
      /\ UNCHANGED <<accepted, templates, current_prev_hash>>
  BY RecordShareEffect
<1>2. PICK a \in {"submit", "check"} :
             Conn(m, a, miners[m].job, miners[m].share, miners[m].sent)
  BY RecordShareEffect
<1>3. \A k : m \notin InFlight(k)
  BY <1>1 DEF InFlight
<1>4. key = [job_id |-> miners[m].job.job_id, share |-> miners[m].share]
  BY DEF KeyOf
<1> HIDE DEF key
<1>5. ASSUME NEW k \in Key
      PROVE  InFlight(k)' = IF k = key THEN InFlight(k) \cup {m} ELSE InFlight(k)
  BY <1>2, <1>3, <1>4, InFlightStep
<1>6. \A k \in BagToSet(accepted) : \E t \in templates : t.id = k.job_id
  BY DEF ServerInv, AcceptInv
<1>7. ASSUME NEW k \in Key, NEW t \in templates, t.id = k.job_id
      PROVE  Copies(k)' + Cardinality(InFlight(k)') <=
               (current_prev_hash' - t.coinbase)
                   + (IF k \in submitted_shares' THEN 1 ELSE 0)
  <2> DEFINE c == Copies(k)
             F == InFlight(k)
  <2>1. c + Cardinality(F) <= (current_prev_hash - t.coinbase)
                     + (IF k \in submitted_shares THEN 1 ELSE 0)
    BY <1>7 DEF ServerInv, AcceptInv
  <2>2. /\ c \in Nat /\ IsFiniteSet(F) /\ Cardinality(F) \in Nat /\ t.coinbase \in Nat
        /\ current_prev_hash \in Nat
    BY CountTypes, Numbers
  <2>3. Copies(k)' = c
    BY <1>1 DEF Copies
  <2>4. InFlight(k)' = IF k = key THEN F \cup {m} ELSE F
    BY <1>5
  <2>5. m \notin F
    BY <1>3
  <2> HIDE DEF c, F
  <2>6. Cardinality(F \cup {m}) = Cardinality(F) + 1
    BY <2>2, <2>5, FS_AddElement
  <2>7. CASE k = key
    BY <1>1, <2>1, <2>2, <2>3, <2>4, <2>6, <2>7
  <2>8. CASE k # key
    BY <1>1, <2>1, <2>2, <2>3, <2>4, <2>8
  <2> QED
    BY <2>7, <2>8
<1> QED
  BY <1>1, <1>6, <1>7 DEF AcceptInv

LEMMA AcceptCheck ==
  ASSUME ServerInv, NEW m \in Miners, NEW meets \in BOOLEAN, CheckDifficulty(m, meets)
  PROVE  AcceptInv'
<1> DEFINE key == KeyOf(m)
<1>1. /\ miners[m].at = "check" /\ key \in Key
      /\ Conn(m, "idle", NoJob, NoShare, miners[m].sent)
      /\ \E t \in templates : t.id = key.job_id
      /\ accepted' = accepted \/ accepted' = accepted (+) SetToBag({key})
      /\ UNCHANGED <<submitted_shares, templates, current_prev_hash>>
  BY CheckDifficultyEffect
<1>2. \A k : m \in InFlight(k) <=> k = key
  BY <1>1 DEF InFlight
<1> HIDE DEF key
<1>3. ASSUME NEW k \in Key
      PROVE  InFlight(k)' = InFlight(k) \ {m}
  BY <1>1, InFlightStep
<1>4. IsABag(accepted) /\ \A k \in BagToSet(accepted) : \E t \in templates : t.id = k.job_id
  BY DEF ServerInv, AcceptInv, ShapesOK
<1>5. /\ \A k \in BagToSet(accepted') : k \in BagToSet(accepted) \/ k = key
      /\ \A k \in Key : k # key => Copies(k)' = Copies(k)
      /\ \A k \in Key : k = key => Copies(k)' = Copies(k) \/ Copies(k)' = Copies(k) + 1
  <2>1. CASE accepted' = accepted
    BY <2>1 DEF Copies
  <2>2. CASE accepted' = accepted (+) SetToBag({key})
    <3>1. /\ BagToSet(accepted') = BagToSet(accepted) \cup {key}
          /\ accepted'[key] = (IF BagIn(key, accepted) THEN accepted[key] ELSE 0) + 1
          /\ \A j \in BagToSet(accepted) \ {key} : accepted'[j] = accepted[j]
      BY <1>4, <2>2, AddCopy
    <3>2. \A k \in Key : k = key => Copies(k)' = Copies(k) + 1
      BY <3>1 DEF Copies, BagIn
    <3>3. \A k \in Key : k # key => Copies(k)' = Copies(k)
      BY <3>1 DEF Copies, BagIn
    <3> QED
      BY <3>1, <3>2, <3>3
  <2> QED
    BY <1>1, <2>1, <2>2
<1>6. ASSUME NEW k \in Key, NEW t \in templates, t.id = k.job_id
      PROVE  Copies(k)' + Cardinality(InFlight(k)') <=
               (current_prev_hash' - t.coinbase)
                   + (IF k \in submitted_shares' THEN 1 ELSE 0)
  <2> DEFINE c == Copies(k)
             F == InFlight(k)
             d == Copies(k)'
  <2>1. c + Cardinality(F) <= (current_prev_hash - t.coinbase)
                     + (IF k \in submitted_shares THEN 1 ELSE 0)
    BY <1>6 DEF ServerInv, AcceptInv
  <2>2. /\ c \in Nat /\ IsFiniteSet(F) /\ Cardinality(F) \in Nat /\ t.coinbase \in Nat
        /\ current_prev_hash \in Nat
    BY CountTypes, Numbers
  <2>3. InFlight(k)' = F \ {m} /\ (m \in F <=> k = key)
    BY <1>2, <1>3
  <2>4. (k # key => d = c) /\ (k = key => d = c \/ d = c + 1)
    BY <1>5
  <2>5. (current_prev_hash' - t.coinbase) + (IF k \in submitted_shares' THEN 1 ELSE 0)
         = (current_prev_hash - t.coinbase) + (IF k \in submitted_shares THEN 1 ELSE 0)
    BY <1>1
  <2> HIDE DEF c, F, d
  <2>6. Cardinality(F \ {m}) = IF m \in F THEN Cardinality(F) - 1 ELSE Cardinality(F)
    BY <2>2, FS_RemoveElement
  <2>7. d + Cardinality(F \ {m}) <= c + Cardinality(F)
    BY <2>2, <2>3, <2>4, <2>6
  <2>8. Cardinality(F \ {m}) \in Int /\ d \in Int
    BY <2>2, <2>4, <2>6
  <2>9. d + Cardinality(InFlight(k)') <=
               (current_prev_hash' - t.coinbase)
                   + (IF k \in submitted_shares' THEN 1 ELSE 0)
    BY <1>1, <2>1, <2>2, <2>3, <2>5, <2>7, <2>8
  <2> QED
    BY <2>9 DEF d
<1> QED
  BY <1>1, <1>4, <1>5, <1>6 DEF AcceptInv

LEMMA AcceptStepInv ==
  ASSUME ServerInv, [Next]_vars
  PROVE  AcceptInv'
<1>0. /\ ShapesOK /\ ConnectionsInv /\ UpdaterInv /\ jobs \subseteq Job
      /\ current_job \in {NoJob} \cup Job
  BY DEF ServerInv, StratumTypeOK
<1>1. ASSUME UNCHANGED <<miners, templates, accepted, current_prev_hash, submitted_shares>>
      PROVE  AcceptInv'
  <2>1. \A k \in Key : InFlight(k)' = InFlight(k)
    BY <1>1 DEF InFlight, KeyOf
  <2> QED
    BY <1>1, <2>1, AcceptFrame
<1>2. ASSUME NEW m \in Miners, NEW at, NEW job, NEW share, NEW sent,
             Conn(m, at, job, share, sent),
             UNCHANGED <<templates, accepted, current_prev_hash, submitted_shares>>,
             \/ /\ at \notin {"submit", "check"}
                /\ miners[m].at \notin {"submit", "check"}
             \/ /\ job = miners[m].job /\ share = miners[m].share
                /\ at \in {"submit", "check"} <=> miners[m].at \in {"submit", "check"}
      PROVE  AcceptInv'
  <2>1. \A k \in Key : InFlight(k)' = InFlight(k)
    BY <1>2, InFlightSame
  <2> QED
    BY <1>2, <2>1, AcceptFrame
<1>3. ASSUME NEW m \in Miners, Connect(m) PROVE AcceptInv'
  <2>1. /\ Conn(m, "idle", miners[m].job, miners[m].share, miners[m].sent)
        /\ miners[m].at = "away"
        /\ UNCHANGED <<templates, accepted, current_prev_hash, submitted_shares>>
    BY <1>0, <1>3, ConnectEffect DEF Connect, updateVars, shareVars
  <2> QED
    BY <1>2, <2>1
<1>4. ASSUME NEW m \in Miners, Disconnect(m) PROVE AcceptInv'
  <2>1. /\ Conn(m, "away", NoJob, NoShare, {}) /\ miners[m].at = "idle"
        /\ UNCHANGED <<templates, accepted, current_prev_hash, submitted_shares>>
    BY <1>0, <1>4, DisconnectEffect DEF Disconnect, updateVars, shareVars
  <2> QED
    BY <1>2, <2>1
<1>5. ASSUME NEW m \in Miners, Greet(m) PROVE AcceptInv'
  <2>1. /\ Conn(m, "greet", current_job, miners[m].share, miners[m].sent)
        /\ miners[m].at = "idle"
        /\ UNCHANGED <<templates, accepted, current_prev_hash, submitted_shares>>
    BY <1>0, <1>5, GreetEffect DEF Greet, updateVars, shareVars
  <2> QED
    BY <1>2, <2>1
<1>6. ASSUME NEW m \in Miners, SendFirstJob(m) PROVE AcceptInv'
  <2>1. /\ Conn(m, "idle", NoJob, miners[m].share,
                miners[m].sent \cup {miners[m].job.job_id})
        /\ miners[m].at = "greet"
        /\ UNCHANGED <<templates, accepted, current_prev_hash, submitted_shares>>
    BY <1>0, <1>6, SendFirstJobEffect DEF SendFirstJob, updateVars, shareVars
  <2> QED
    BY <1>2, <2>1
<1>7. ASSUME NEW m \in Miners, NEW job \in jobs, NEW s \in Shares, LookUpJob(m, job, s)
      PROVE  AcceptInv'
  <2>1. /\ Conn(m, "record", job, s, miners[m].sent) /\ miners[m].at = "idle"
        /\ UNCHANGED <<templates, accepted, current_prev_hash, submitted_shares>>
    BY <1>0, <1>7, LookUpJobEffect DEF LookUpJob, updateVars, shareVars
  <2> QED
    BY <1>2, <2>1
<1>8. ASSUME NEW m \in Miners, RejectDuplicate(m) PROVE AcceptInv'
  <2>1. /\ Conn(m, "idle", NoJob, NoShare, miners[m].sent) /\ miners[m].at = "record"
        /\ UNCHANGED <<templates, accepted, current_prev_hash, submitted_shares>>
    BY <1>0, <1>8, AnsweredEffect DEF RejectDuplicate, updateVars, shareVars
  <2> QED
    BY <1>2, <2>1
<1>9. ASSUME NEW m \in Miners, NEW txs \in TxSets, SubmitBlock(m, txs) PROVE AcceptInv'
  <2>1. /\ miners[m].at = "submit" /\ miners' = [miners EXCEPT ![m].at = "check"]
        /\ UNCHANGED <<templates, accepted, current_prev_hash, submitted_shares>>
    BY <1>9 DEF SubmitBlock, updateVars, shareVars
  <2>2. Conn(m, "check", miners[m].job, miners[m].share, miners[m].sent)
    BY <1>0, <2>1, MovesOnEffect
  <2> QED
    BY <1>2, <2>1, <2>2
<1>10. ASSUME \/ \E txs \in TxSets : NewTip(txs) \/ MempoolChange(txs)
              \/ FlushBatch
              \/ UNCHANGED vars
       PROVE  AcceptInv'
  <2>1. UNCHANGED <<miners, templates, accepted, current_prev_hash, submitted_shares>>
    BY <1>10 DEF NewTip, MempoolChange, FlushBatch, vars, updateVars, shareVars
  <2> QED
    BY <1>1, <2>1
<1>11. CASE Outside
  BY <1>3, <1>4, <1>5, <1>6, <1>7, <1>8, <1>9, <1>10, <1>11, AcceptRecord, AcceptCheck, Zenon
     DEF Outside
<1>12. CASE PollNewBlock
  <2>1. /\ current_prev_hash' \in Nat /\ current_prev_hash' > current_prev_hash
        /\ UNCHANGED <<miners, templates, accepted>>
    BY <1>12, PollNewBlockEffect, Numbers
  <2>2. \A k \in Key : InFlight(k)' = InFlight(k)
    BY <2>1 DEF InFlight, KeyOf
  <2> QED
    BY <2>1, <2>2, AcceptFrame
<1>13. CASE RegisterTemplate
  <2>1. PICK job \in Job :
           /\ job.job_id = updater.job.job_id /\ job.coinbase = updater.job.coinbase
           /\ updater.at = "register"
           /\ Register(job).id = job.job_id /\ Register(job).coinbase = job.coinbase
           /\ Register(job) \in TemplateType
           /\ templates' = templates \cup {Register(job)}
           /\ UNCHANGED <<miners, accepted, current_prev_hash, submitted_shares>>
    BY <1>13, RegisterTemplateEffect DEF shareVars
  <2> DEFINE t == Register(job)
  <2>2. t.id = job_counter /\ t.coinbase <= current_prev_hash /\ t.coinbase \in Nat
    BY <1>0, <2>1, Numbers DEF UpdaterInv, TemplateType
  <2> HIDE DEF t
  <2> QED
    BY <2>1, <2>2, AcceptNewTemplate DEF t
<1>14. ASSUME NEW landed \in BOOLEAN, RegisterFails(landed) PROVE AcceptInv'
  <2> DEFINE t == Register(updater.job)
  <2>1. /\ updater.at = "register" /\ t \in TemplateType /\ t.id = updater.job.job_id
        /\ t.coinbase = updater.job.coinbase
        /\ templates' = templates \/ templates' = templates \cup {t}
        /\ UNCHANGED <<miners, accepted, current_prev_hash, submitted_shares>>
    BY <1>14, RegisterFailsEffect DEF shareVars
  <2>2. t.id = job_counter /\ t.coinbase <= current_prev_hash /\ t.coinbase \in Nat
    BY <1>0, <2>1, Numbers DEF UpdaterInv, TemplateType
  <2> HIDE DEF t
  <2> QED
    BY <1>1, <2>1, <2>2, AcceptNewTemplate
<1>15. ASSUME NEW m \in Miners, Notify(m) PROVE AcceptInv'
  <2>1. /\ \/ Conn(m, miners[m].at, miners[m].job, miners[m].share, miners[m].sent)
           \/ Conn(m, miners[m].at, miners[m].job, miners[m].share,
                   miners[m].sent \cup {updater.job.job_id})
        /\ UNCHANGED <<templates, accepted, current_prev_hash, submitted_shares>>
    BY <1>0, <1>15, NotifyEffect DEF Notify, shareVars
  <2> QED
    BY <1>2, <2>1
<1>16. ASSUME \/ PollMerkleUpdate \/ PollWithoutJob \/ Drained \/ InsertJob
              \/ SetCurrentJob \/ Announced
       PROVE  AcceptInv'
  <2>1. UNCHANGED <<miners, templates, accepted, current_prev_hash, submitted_shares>>
    BY <1>16 DEF PollMerkleUpdate, PollWithoutJob, Drained, InsertJob, SetCurrentJob,
                 Announced, shareVars
  <2> QED
    BY <1>1, <2>1
<1> QED
  BY <1>11, <1>12, <1>13, <1>14, <1>15, <1>16, NextCases, Zenon DEF UpdaterStep

-----------------------------------------------------------------------------
(* Types.                                                                  *)

\* What the updater and the node write.
UpdaterTypes ==
    /\ node \in [tip : Block, txs : TxSets]
    /\ templates \subseteq TemplateType
    /\ \A t, u \in templates : t.id = u.id => t = u
    /\ updater \in UpdaterType
    /\ current_prev_hash \in {NoBlock} \cup Block
    /\ current_job \in {NoJob} \cup Job
    /\ jobs \subseteq Job
    /\ job_counter \in 0 .. MaxJobs

\* What the connections write.
ShareTypes ==
    /\ miners \in [Miners -> ConnType]
    /\ submitted_shares \subseteq Key
    /\ IsABag(accepted) /\ BagToSet(accepted) \subseteq Key
    /\ batch \subseteq BatchType

LEMMA TypesFromInv ==
  ASSUME ServerInv
  PROVE  UpdaterTypes /\ ShareTypes
BY DEF ServerInv, StratumTypeOK, ShapesOK, UpdaterTypes, ShareTypes, TemplateType, UpdaterType,
       ConnType, BatchType

\* The type invariant follows from the two: a job that was sent has a template, whose
\* id the counter has reached.
LEMMA TypesSuffice ==
  ASSUME UpdaterTypes, ShareTypes, UpdaterInv, ConnectionsInv
  PROVE  StratumTypeOK /\ ShapesOK
<1>1. ASSUME NEW m \in Miners PROVE miners[m].sent \subseteq 1 .. job_counter
  <2>1. job_counter \in Nat /\ JobIds \subseteq Nat /\ \A i \in JobIds : i >= 1
    BY StratumAssumption DEF UpdaterTypes, JobIds
  <2>2. \A t \in templates : t.id \in JobIds /\ t.id <= job_counter
    BY DEF UpdaterTypes, TemplateType, UpdaterInv
  <2>3. \A i \in miners[m].sent : \E t \in templates : t.id = i
    BY DEF ConnectionsInv
  <2>4. ASSUME NEW i \in miners[m].sent PROVE i \in 1 .. job_counter
    <3>1. i \in JobIds /\ i <= job_counter
      BY <2>2, <2>3
    <3>2. i \in Nat /\ i >= 1
      BY <2>1, <3>1
    <3>3. job_counter \in Nat
      BY <2>1
    <3> QED
      BY <3>1, <3>2, <3>3, SMT
  <2> QED
    BY <2>4
<1>2. ASSUME NEW m \in Miners
      PROVE  /\ miners[m].at \in {"away", "idle", "greet", "record", "submit", "check"}
             /\ miners[m].job \in {NoJob} \cup Job
             /\ miners[m].share \in {NoShare} \cup Shares
  BY DEF ShareTypes, ConnType
<1>3. /\ updater.at \in {"poll", "drain", "register", "publish", "current", "notify"}
      /\ updater.job \in {NoJob} \cup Job /\ updater.to \subseteq Miners
  BY DEF UpdaterTypes, UpdaterType
<1>4. StratumTypeOK
  BY <1>1, <1>2, <1>3 DEF StratumTypeOK, UpdaterTypes, ShareTypes, TemplateType, BatchType
<1>5. ShapesOK
  BY DEF ShapesOK, UpdaterTypes, ShareTypes, UpdaterType, ConnType
<1> QED
  BY <1>4, <1>5

\* A template is registered under an id that no other has.
LEMMA NewTemplateId ==
  ASSUME ServerInv, updater.at = "register", NEW new \in TemplateType, new.id = job_counter
  PROVE  LET T == templates \cup {new}
         IN  T \subseteq TemplateType /\ \A t, u \in T : t.id = u.id => t = u
<1>1. \A t \in templates : t.id < job_counter /\ t.id \in Nat
  BY Numbers DEF ServerInv, UpdaterInv
<1>2. templates \subseteq TemplateType /\ \A t, u \in templates : t.id = u.id => t = u
  BY TypesFromInv DEF UpdaterTypes
<1>3. job_counter \in Nat
  BY Numbers
<1> QED
  BY <1>1, <1>2, <1>3

LEMMA UpdaterTypesStep ==
  ASSUME ServerInv, [Next]_vars
  PROVE  UpdaterTypes'
<1> USE DEF Upd
<1>0. UpdaterTypes
  BY TypesFromInv
<1>1. CASE Outside
  <2>1. UNCHANGED updateVars /\ node' \in [tip : Block, txs : TxSets]
    BY <1>1, OutsideFrame
  <2> QED
    BY <1>0, <2>1 DEF UpdaterTypes, updateVars
<1>2. CASE PollNewBlock
  <2>1. /\ updater' \in UpdaterType /\ job_counter' = job_counter + 1
        /\ job_counter + 1 \in JobIds /\ current_prev_hash' = node.tip /\ node.tip \in Block
        /\ UNCHANGED <<node, templates, current_job, jobs>>
    BY <1>2, PollNewBlockEffect, Numbers
  <2>2. job_counter' \in 0 .. MaxJobs
    BY <2>1, StratumAssumption DEF JobIds
  <2> QED
    BY <1>0, <2>1, <2>2 DEF UpdaterTypes
<1>3. CASE PollMerkleUpdate
  <2>1. /\ updater' \in UpdaterType /\ job_counter' = job_counter + 1
        /\ job_counter + 1 \in JobIds
        /\ UNCHANGED <<node, templates, current_prev_hash, current_job, jobs>>
    BY <1>3, PollMerkleUpdateEffect
  <2>2. job_counter' \in 0 .. MaxJobs
    BY <2>1, StratumAssumption DEF JobIds
  <2> QED
    BY <1>0, <2>1, <2>2 DEF UpdaterTypes
<1>4. CASE PollWithoutJob
  <2>1. /\ job_counter' = job_counter + 1
        /\ job_counter + (MaxBlock - current_prev_hash) < MaxJobs
        /\ UNCHANGED <<node, templates, updater, current_prev_hash, current_job, jobs>>
    BY <1>4 DEF PollWithoutJob
  <2>2. current_prev_hash <= MaxBlock
    BY <1>0, StratumAssumption DEF UpdaterTypes, Block, NoBlock
  <2>3. job_counter' \in 0 .. MaxJobs
    BY <2>1, <2>2, Numbers
  <2> QED
    BY <1>0, <2>1, <2>3 DEF UpdaterTypes
<1>5. CASE Drained
  BY <1>0, <1>5, DrainedEffect DEF UpdaterTypes
<1>6. CASE RegisterTemplate
  <2>1. PICK job \in Job :
           /\ updater' \in UpdaterType /\ job.job_id = updater.job.job_id
           /\ updater.at = "register"
           /\ Register(job) \in TemplateType /\ Register(job).id = job.job_id
           /\ templates' = templates \cup {Register(job)}
           /\ UNCHANGED <<node, current_prev_hash, current_job, jobs, job_counter>>
    BY <1>6, RegisterTemplateEffect
  <2>2. Register(job).id = job_counter
    BY <2>1 DEF ServerInv, UpdaterInv
  <2>3. templates' \subseteq TemplateType /\ \A t, u \in templates' : t.id = u.id => t = u
    BY <2>1, <2>2, NewTemplateId
  <2> QED
    BY <1>0, <2>1, <2>3 DEF UpdaterTypes
<1>7. ASSUME NEW landed \in BOOLEAN, RegisterFails(landed) PROVE UpdaterTypes'
  <2> DEFINE t == Register(updater.job)
  <2>1. /\ updater.at = "register" /\ updater' \in UpdaterType
        /\ t \in TemplateType /\ t.id = updater.job.job_id
        /\ templates' = templates \/ templates' = templates \cup {t}
        /\ UNCHANGED <<node, current_prev_hash, current_job, jobs, job_counter>>
    BY <1>7, RegisterFailsEffect
  <2>2. t.id = job_counter
    BY <2>1 DEF ServerInv, UpdaterInv
  <2>3. templates' \subseteq TemplateType /\ \A u, v \in templates' : u.id = v.id => u = v
    <3> HIDE DEF t
    <3> QED
      BY <1>0, <2>1, <2>2, NewTemplateId DEF UpdaterTypes
  <2> QED
    BY <1>0, <2>1, <2>3 DEF UpdaterTypes
<1>8. CASE InsertJob
  <2>1. jobs' \subseteq jobs \cup {updater.job}
    BY <1>8 DEF InsertJob, Trim
  <2> QED
    BY <1>0, <1>8, <2>1, InsertJobEffect DEF UpdaterTypes
<1>9. CASE SetCurrentJob
  BY <1>0, <1>9, SetCurrentJobEffect DEF UpdaterTypes
<1>10. ASSUME NEW m \in Miners, Notify(m) PROVE UpdaterTypes'
  BY <1>0, <1>10, NotifyUpdater DEF UpdaterTypes
<1>11. CASE Announced
  BY <1>0, <1>11, AnnouncedEffect DEF UpdaterTypes
<1> QED
  BY <1>1, <1>2, <1>3, <1>4, <1>5, <1>6, <1>7, <1>8, <1>9, <1>10, <1>11, NextCases, Zenon
     DEF UpdaterStep

LEMMA ShareTypesStep ==
  ASSUME ServerInv, [Next]_vars
  PROVE  ShareTypes'
<1>0. /\ ShareTypes /\ ShapesOK /\ ConnectionsInv /\ UpdaterInv /\ jobs \subseteq Job
      /\ current_job \in {NoJob} \cup Job
  BY TypesFromInv DEF ServerInv, StratumTypeOK
<1>1. ASSUME miners' \in [Miners -> ConnType], UNCHANGED <<submitted_shares, accepted>>,
             batch' \subseteq batch
      PROVE  ShareTypes'
  BY <1>0, <1>1 DEF ShareTypes
<1>2. ASSUME NEW m \in Miners,
             \/ Connect(m) \/ Disconnect(m) \/ Greet(m) \/ SendFirstJob(m)
             \/ \E job \in jobs, s \in Shares : LookUpJob(m, job, s)
             \/ RejectDuplicate(m)
             \/ \E txs \in TxSets : SubmitBlock(m, txs)
             \/ Notify(m)
      PROVE  ShareTypes'
  <2>1. UNCHANGED shareVars
    BY <1>2 DEF Connect, Disconnect, Greet, SendFirstJob, LookUpJob, RejectDuplicate,
                SubmitBlock, Notify
  <2>2. miners' \in [Miners -> ConnType]
    <3>1. CASE Connect(m)
      BY <1>0, <3>1, ConnectEffect DEF Conn
    <3>2. CASE Disconnect(m)
      BY <1>0, <3>2, DisconnectEffect DEF Conn
    <3>3. CASE Greet(m)
      BY <1>0, <3>3, GreetEffect DEF Conn
    <3>4. CASE SendFirstJob(m)
      BY <1>0, <3>4, SendFirstJobEffect DEF Conn
    <3>5. ASSUME NEW job \in jobs, NEW s \in Shares, LookUpJob(m, job, s)
          PROVE  miners' \in [Miners -> ConnType]
      BY <1>0, <3>5, LookUpJobEffect DEF Conn
    <3>6. CASE RejectDuplicate(m)
      BY <1>0, <3>6, AnsweredEffect DEF Conn, RejectDuplicate
    <3>7. ASSUME NEW txs \in TxSets, SubmitBlock(m, txs)
          PROVE  miners' \in [Miners -> ConnType]
      <4>1. miners' = [miners EXCEPT ![m].at = "check"]
        BY <3>7 DEF SubmitBlock
      <4> QED
        BY <1>0, <4>1, MovesOnEffect DEF Conn
    <3>8. CASE Notify(m)
      BY <1>0, <3>8, NotifyEffect DEF Conn
    <3> QED
      BY <1>2, <3>1, <3>2, <3>3, <3>4, <3>5, <3>6, <3>7, <3>8, Zenon
  <2> QED
    BY <1>1, <2>1, <2>2 DEF shareVars
<1>3. ASSUME NEW m \in Miners, NEW found \in BOOLEAN, RecordShare(m, found)
      PROVE  ShareTypes'
  BY <1>0, <1>3, RecordShareEffect DEF ShareTypes, Conn
<1>4. ASSUME NEW m \in Miners, NEW meets \in BOOLEAN, CheckDifficulty(m, meets)
      PROVE  ShareTypes'
  <2> DEFINE k == KeyOf(m)
  <2>1. /\ k \in Key /\ miners' \in [Miners -> ConnType] /\ batch' \subseteq BatchType
        /\ accepted' = accepted \/ accepted' = accepted (+) SetToBag({k})
        /\ UNCHANGED submitted_shares
    BY <1>4, CheckDifficultyEffect DEF Conn
  <2>2. IsABag(accepted) /\ BagToSet(accepted) \subseteq Key
    BY <1>0 DEF ShareTypes
  <2> HIDE DEF k
  <2>3. IsABag(accepted') /\ BagToSet(accepted') \subseteq Key
    <3>1. CASE accepted' = accepted
      BY <2>2, <3>1
    <3>2. CASE accepted' = accepted (+) SetToBag({k})
      <4>1. /\ IsABag(accepted (+) SetToBag({k}))
            /\ BagToSet(accepted (+) SetToBag({k})) = BagToSet(accepted) \cup {k}
        BY <2>2, AddCopy
      <4> QED
        BY <2>1, <2>2, <3>2, <4>1
    <3> QED
      BY <2>1, <3>1, <3>2
  <2> QED
    BY <1>0, <2>1, <2>3 DEF ShareTypes
<1>5. ASSUME \/ \E txs \in TxSets : NewTip(txs) \/ MempoolChange(txs)
             \/ FlushBatch
             \/ UNCHANGED vars
      PROVE  ShareTypes'
  <2>1. UNCHANGED <<miners, submitted_shares, accepted>> /\ batch' \subseteq batch
    BY <1>5 DEF NewTip, MempoolChange, FlushBatch, vars, shareVars
  <2> QED
    BY <1>0, <1>1, <2>1 DEF ShareTypes
<1>6. CASE Outside
  BY <1>2, <1>3, <1>4, <1>5, <1>6, Zenon DEF Outside
<1>7. CASE PollNewBlock
  BY <1>0, <1>7 DEF ShareTypes, PollNewBlock
<1>8. ASSUME \/ PollMerkleUpdate \/ PollWithoutJob \/ Drained
             \/ RegisterTemplate \/ \E landed \in BOOLEAN : RegisterFails(landed)
             \/ InsertJob \/ SetCurrentJob \/ Announced
      PROVE  ShareTypes'
  <2>1. UNCHANGED <<miners, submitted_shares, accepted>> /\ batch' \subseteq batch
    BY <1>8 DEF PollMerkleUpdate, PollWithoutJob, Drained, RegisterTemplate, RegisterFails,
                InsertJob, SetCurrentJob, Announced, shareVars
  <2> QED
    BY <1>0, <1>1, <2>1 DEF ShareTypes
<1> QED
  BY <1>2, <1>6, <1>7, <1>8, NextCases, Zenon DEF UpdaterStep

-----------------------------------------------------------------------------
(* The theorems.                                                           *)

LEMMA ServerInit ==
  ASSUME Init
  PROVE  ServerInv
<1>1. /\ updater.at = "poll" /\ updater.job = NoJob /\ updater.ahead = {} /\ updater.to = {}
      /\ updater \in UpdaterType
  BY DEF Init, Idle, UpdaterType
<1>2. \A m \in Miners : /\ miners[m].at = "away" /\ miners[m].job = NoJob
                        /\ miners[m].share = NoShare /\ miners[m].sent = {}
  BY DEF Init, Away
<1>3. miners \in [Miners -> ConnType]
  BY DEF Init, Away, ConnType
<1>4. /\ node \in [tip : {1}, txs : TxSets] /\ 1 \in Block /\ MaxJobs \in Nat
      /\ KeepJobs \in Nat /\ node.tip = 1
  BY StratumAssumption DEF Init, Block
<1>5. IsABag(accepted) /\ BagToSet(accepted) = {}
  BY DEF Init, EmptyBag, SetToBag, IsABag, BagToSet
<1>6. UpdaterTypes
  BY <1>1, <1>4 DEF Init, UpdaterTypes
<1>7. ShareTypes
  BY <1>3, <1>5 DEF Init, ShareTypes
<1>8. UpdaterInv
  BY <1>1, <1>4 DEF Init, UpdaterInv, NoBlock
<1>9. JobsInv
  BY <1>1, <1>4, FS_EmptySet DEF Init, JobsInv, Settled
<1>10. ConnectionsInv
  BY <1>2 DEF ConnectionsInv
<1>11. AcceptInv
  BY <1>5 DEF Init, AcceptInv
<1> QED
  BY <1>6, <1>7, <1>8, <1>9, <1>10, <1>11, TypesSuffice DEF ServerInv

LEMMA ServerStep ==
  ASSUME ServerInv, [Next]_vars
  PROVE  ServerInv'
<1>1. UpdaterInv' /\ JobsInv' /\ ConnectionsInv' /\ AcceptInv'
  BY UpdaterStepInv, JobsStepInv, ConnectionsStepInv, AcceptStepInv
<1>2. UpdaterTypes' /\ ShareTypes'
  BY UpdaterTypesStep, ShareTypesStep
<1>3. (UpdaterTypes /\ ShareTypes /\ UpdaterInv /\ ConnectionsInv => StratumTypeOK /\ ShapesOK)'
  BY TypesSuffice, PTL
<1> QED
  BY <1>1, <1>2, <1>3 DEF ServerInv

\* What the inductive invariant gives: miners work on registered templates only, and the
\* job a greeting hands out is one whose shares are accepted.
LEMMA ServerInvGives ==
  ASSUME ServerInv
  PROVE  StratumInv /\ AcceptedOncePerBlock
<1>1. WorkIsRegistered
  <2>1. \A m \in Miners : miners[m].sent \subseteq {t.id : t \in templates}
    BY DEF ServerInv, ConnectionsInv
  <2>2. ASSUME NEW job \in (jobs \cup {miners[m].job : m \in Miners}) \ {NoJob}
        PROVE  Registered(job)
    BY DEF ServerInv, JobsInv, ConnectionsInv
  <2> QED
    BY <2>1, <2>2 DEF WorkIsRegistered, Registered
<1>2. CurrentJobIsAccepted
  <2>1. current_job # NoJob => current_job \in jobs
    BY CurrentJobStands
  <2>2. \A m \in Miners : \A i \in miners[m].sent : KeptOrOld(i)
    BY DEF ServerInv, ConnectionsInv
  <2> QED
    BY <2>1, <2>2 DEF CurrentJobIsAccepted, KeptOrOld
<1>3. ASSUME NEW k \in BagToSet(accepted), NEW t \in templates, t.id = k.job_id
      PROVE  accepted[k] <= 1 + current_prev_hash - t.coinbase
  <2>1. k \in Key
    BY DEF ServerInv, StratumTypeOK
  <2>2. Copies(k) = accepted[k]
    BY DEF Copies, BagIn
  <2> DEFINE c == accepted[k]
             f == Cardinality(InFlight(k))
  <2>3. c + f <= (current_prev_hash - t.coinbase)
                     + (IF k \in submitted_shares THEN 1 ELSE 0)
    BY <1>3, <2>1, <2>2 DEF ServerInv, AcceptInv
  <2>4. c \in Nat /\ f \in Nat /\ t.coinbase \in Nat /\ current_prev_hash \in Nat
    BY <2>2, CountTypes, Numbers
  <2> HIDE DEF c, f
  <2>5. c <= 1 + current_prev_hash - t.coinbase
    BY <2>3, <2>4
  <2> QED
    BY <2>5 DEF c
<1> QED
  BY <1>1, <1>2, <1>3 DEF StratumInv, AcceptedOncePerBlock, ServerInv

\* The inductive invariant of the stratum server holds in every reachable state.
THEOREM ServerIsConsistent == Spec => []ServerInv
<1>1. Init => ServerInv
  BY ServerInit
<1>2. ServerInv /\ [Next]_vars => ServerInv'
  BY ServerStep
<1> QED
  BY <1>1, <1>2, PTL DEF Spec

\* For any number of connections, jobs kept and blocks: whatever a miner was sent, and
\* whatever its share is validated against, is a template registered on Sui with the same
\* contents, although registrations fail and tasks interleave (job_updater); the current
\* job is among those whose shares are accepted; and every variable has its type.
THEOREM MinersWorkOnRegisteredTemplates == Spec => []StratumInv
<1>1. ServerInv => StratumInv
  BY ServerInvGives
<1> QED
  BY <1>1, ServerIsConsistent, PTL

\* For any number of connections that submit at once: a share is accepted at most once
\* for every block the server has moved past since the job was made, and once more.
THEOREM SharesAreAcceptedOncePerBlock == Spec => []AcceptedOncePerBlock
<1>1. ServerInv => AcceptedOncePerBlock
  BY ServerInvGives
<1> QED
  BY <1>1, ServerIsConsistent, PTL

=============================================================================
