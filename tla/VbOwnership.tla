---------------------------- MODULE VbOwnership ----------------------------
(***************************************************************************)
(* How the eventing consumers share out one vbucket: who streams it, where *)
(* the stream starts, and what the checkpoint blob in the metadata bucket  *)
(* says about it.  One instance is a cluster whose source bucket has this  *)
(* single vbucket.  The actors are the goroutines of every consumer        *)
(* (consumer/*.go), the planner of every producer (producer/producer.go),  *)
(* the C++ worker of every consumer (v8_consumer/src) and the data service.*)
(* The metadata bucket is reached by single-document writes without a CAS, *)
(* so every read of the blob and every write of it is a step of its own    *)
(* wherever the code uses what it read.                                    *)
(***************************************************************************)
EXTENDS Integers, Sequences, FiniteSets, FiniteSetsExt

CONSTANTS
  Nodes,          \* eventing nodes
  Workers,        \* worker names, the same on every node
  None,           \* the empty string in a name field of the blob
  FirstOwner,     \* the consumer of the first plan
  MaxSeq,         \* the source vbucket holds the sequence numbers 1..MaxSeq
  Muts,           \* those that are mutations; the others are SEQNO_ADVANCED
  NoOpThreshold,  \* noOpMsgSendThreshold
  Budgets         \* how often the outside events may happen: one of these

Consumers == Nodes \X Workers
NodeOf(c) == c[1]
WorkerOf(c) == c[2]
Seqs == 0..MaxSeq
Outside == {"plans", "stops", "ends", "refusals", "failovers", "restarts", "respawns",
            "deaths", "checkpoints"}

ASSUME ConstantsOK ==
  /\ FirstOwner \in Consumers /\ None \notin Nodes \cup Workers \cup Consumers
  /\ MaxSeq \in Nat /\ Muts \subseteq 1..MaxSeq /\ NoOpThreshold \in Nat
  /\ Budgets \subseteq [Outside -> Nat]

VARIABLES
  blob,   \* the vbucketKVBlob in the metadata bucket
  kv,     \* the source vbucket: its histories, and which mutations of the
          \* present one have been handed to a handler (begun); whether a
          \* stream has ended by itself (ended)
  plan,   \* the plan the service manager announces
  node,   \* per node: what its producer has made of the plan
  co,     \* per consumer: the Consumer struct, its goroutines and its worker
  left    \* what is left of the budget of this behaviour

vars == <<blob, kv, plan, node, co, left>>

Spend(k) == left[k] > 0 /\ left' = [left EXCEPT ![k] = @ - 1]

-----------------------------------------------------------------------------
(* The histories of the source vbucket.  kv.roll[e] is the sequence number  *)
(* at which history e branched off; a vbuuid is the number of a history.    *)

Epoch == Len(kv.roll)
Shared(e) == Min({MaxSeq} \cup {kv.roll[i] : i \in (e + 1)..Epoch})
InHistory(e, seq) == seq <= Shared(e)

\* FailoverLog.FetchLogForSeqNo: the newest history that began at or below seq
FetchLogForSeqNo(seq) == Max({0} \cup {e \in 1..Epoch : kv.roll[e] <= seq})

-----------------------------------------------------------------------------
(* The checkpoint blob.                                                     *)

NoBlob == [exists |-> FALSE, node |-> None, worker |-> None, status |-> "",
           requester |-> None, seq |-> 0, vbuuid |-> 0, bootDone |-> FALSE]

\* what startDcp stores for a vbucket that has no blob
Created(c) == [NoBlob EXCEPT !.exists = TRUE, !.worker = WorkerOf(c), !.vbuuid = Epoch]

\* recreateCheckpointBlobCallback: what a MutateIn on a missing blob is retried on
Recreated(c) == [Created(c) EXCEPT !.status = "stopped"]
Ensure(c) == IF blob.exists THEN blob ELSE Recreated(c)

\* recreateCheckpointBlobsFromVbStatsCallback: the same for the callbacks that
\* rebuild the blob from vbProcessingStats
FromVbStats(c) ==
  IF blob.exists THEN blob
  ELSE [Created(c) EXCEPT !.status = "running", !.vbuuid = co[c].vbuuid]

RunsOn(b, c) == b.node = NodeOf(c) /\ b.worker = WorkerOf(c) /\ b.status = "running"

\* updateCheckpointCallback: the owner is cleared, the sequence number stored,
\* the vb_uuid left as it is
UpdateCheckpoint(b, seq, bootDone) ==
  [b EXCEPT !.node = None, !.worker = None, !.status = "stopped",
            !.requester = None, !.seq = seq, !.bootDone = bootDone]

SRR(b, c) == [b EXCEPT !.node = None, !.worker = None, !.status = "", !.requester = c]
SRF(b) == [b EXCEPT !.node = None, !.worker = None, !.status = "", !.requester = None]
SRS(b, c, vbuuid, bootDone) ==
  [b EXCEPT !.node = NodeOf(c), !.worker = WorkerOf(c), !.status = "running",
            !.requester = None, !.vbuuid = vbuuid, !.bootDone = bootDone]
SE(b) == [b EXCEPT !.requester = None]
MetadataCorrection(b, c) ==
  [b EXCEPT !.node = NodeOf(c), !.worker = WorkerOf(c), !.status = "running",
            !.requester = None]
UndoMetadataCorrection(b) ==
  [b EXCEPT !.node = None, !.worker = None, !.status = "stopped", !.requester = None]

-----------------------------------------------------------------------------
(* A consumer.  owned abbreviates the triple assigned_worker, node_uuid and *)
(* dcp_stream_status of vbProcessingStats, asked the pair                   *)
(* dcp_stream_requested_worker and dcp_stream_requested_node_uuid: each is  *)
(* always written as a whole.  handleStreamEnd runs in two goroutines, dcp  *)
(* (processDCPEvents) and filter (processFilterEvents), so its program      *)
(* counter is doubled.                                                      *)

EndIdle == [pc |-> "idle", seq |-> 0]
NoCopy == [seq |-> 0, vbuuid |-> 0, bootDone |-> FALSE]
Copy(b) == [seq |-> b.seq, vbuuid |-> b.vbuuid, bootDone |-> b.bootDone]

Fresh(c, owner) ==
  [ assigned |-> owner,            \* workerVbucketMap, vbEventingNodeAssignMap
    vbnos |-> owner = c,           \* the assignment the consumer was created with
    owned |-> FALSE, asked |-> FALSE, metaUpdated |-> FALSE, bootPending |-> FALSE,
    lastRead |-> 0, lastSent |-> 0, lastProc |-> 0, vbuuid |-> 0,
    enqueued |-> FALSE,            \* vbEnqueuedForStreamReq
    requested |-> FALSE,           \* vbStreamRequested
    inflight |-> FALSE,            \* inflightDcpStreams
    filtered |-> FALSE,            \* filterVbEvents
    restream |-> 0,                \* occurrences in vbsRemainingToRestream
    toClose |-> FALSE, toCleanup |-> FALSE,
    reqCh |-> <<>>, flogCh |-> <<>>, aggDCPFeed |-> <<>>, filterDataCh |-> <<>>,
    notif |-> 0,                   \* clusterStateChangeNotifCh
    ongoing |-> FALSE,             \* isRebalanceOngoing
    incomplete |-> FALSE,          \* prevRebalanceInComplete
    stopCh |-> "open",             \* stopVbOwnerTakeoverCh
    feed |-> "up", stream |-> "none", pos |-> 0, ask |-> [start |-> 0, vbuuid |-> 0],
    hist |-> 0,                    \* the history the stream was opened on
    queue |-> <<>>, processed |-> 0, vbSeq |-> 0, filters |-> <<>>, report |-> 0,
    boot |-> "cleanup", bootCopy |-> NoCopy, bootWaits |-> FALSE,
    dcp |-> EndIdle, filter |-> EndIdle,
    req |-> "idle", reqMsg |-> [start |-> 0, vbuuid |-> 0], reqCopy |-> NoCopy,
    flog |-> "idle", flogSeq |-> 0, flogCopy |-> NoCopy,
    ctl |-> "idle", ctlRestream |-> 0, ctlClose |-> FALSE, ctlCopy |-> NoCopy,
    upd |-> "idle", updOwn |-> FALSE, updLeft |-> FALSE,
    ckpt |-> "idle", ckptCopy |-> NoCopy ]

Alive(c) == NodeOf(c) \notin plan.dead
IsPlannerRunning(n) == node[n].planner \in {"planning", "assigned"}

checkIfCurrentConsumerShouldOwnVb(c) == co[c].assigned = c
checkIfCurrentNodeShouldOwnVb(c) == NodeOf(co[c].assigned) = NodeOf(c)
vbRemainingToOwn(c) == ~co[c].owned /\ checkIfCurrentConsumerShouldOwnVb(c)
vbRemainingToGiveUp(c) == co[c].owned /\ ~checkIfCurrentConsumerShouldOwnVb(c)
vbRemainingToStreamReq(c) == ~co[c].asked /\ checkIfCurrentConsumerShouldOwnVb(c)
vbRemainingToCloseStream(c) == co[c].asked /\ ~checkIfCurrentConsumerShouldOwnVb(c)

\* The owner of a record r of co after checkIfAlreadyEnqueued / addToEnqueueMap
\* and the send on reqStreamCh.
Enqueue(r, start, vbuuid) ==
  IF r.enqueued THEN r
  ELSE [r EXCEPT !.enqueued = TRUE, !.reqCh = Append(@, [start |-> start, vbuuid |-> vbuuid])]

\* Mutant: the stream is resumed after the next sequence number
UpdateVbOwnerAndStartLate(r, b) ==
  IF r.owned \/ r.enqueued THEN r
  ELSE [Enqueue(r, b.seq + 1, b.vbuuid) EXCEPT !.lastProc = b.seq + 1, !.lastRead = b.seq + 1]

\* updateVbOwnerAndStartDCPStream
UpdateVbOwnerAndStart(r, b) ==
  IF r.owned \/ r.enqueued THEN r
  ELSE [Enqueue(r, b.seq, b.vbuuid) EXCEPT !.lastProc = b.seq, !.lastRead = b.seq]

\* What updateCheckpoint does to the stats of the consumer
Released(r, seq) == [r EXCEPT !.owned = FALSE, !.lastProc = seq]

\* Mutant: the filter is installed although what it is for has been processed
VbFilterAlways(r, seq, ackTo) ==
  [r EXCEPT !.vbSeq = 0, !.filters = Append(@, seq), !.filterDataCh = @ \o ackTo]

\* sendVbFilterData, as the worker handles it (client.cc, oVbFilter): what is
\* still queued up to seq will be skipped; the answer is the last begun one
VbFilter(r, seq, ackTo) ==
  [r EXCEPT !.vbSeq = 0,
            !.filters = IF r.processed < seq THEN Append(@, seq) ELSE @,
            !.filterDataCh = @ \o ackTo]

Init ==
  /\ blob = NoBlob
  /\ kv = [roll |-> <<>>, begun |-> {}, ended |-> FALSE]
  /\ plan = [no |-> 0, owner |-> FirstOwner, stopped |-> FALSE, dead |-> {}]
  /\ node = [n \in Nodes |-> [seen |-> 0, planner |-> "idle", was |-> FirstOwner, stopMsg |-> FALSE,
                             firstRebalanceDone |-> FALSE, alive |-> Nodes]]
  /\ co = [c \in Consumers |-> Fresh(c, FirstOwner)]
  /\ left \in Budgets

\* A later state of the same system: every consumer is up, FirstOwner streams
\* the vbucket and nothing has been sent on it yet
Settled(c) ==
  LET r == [Fresh(c, FirstOwner) EXCEPT !.boot = "up"] IN
  IF c # FirstOwner THEN r
  ELSE [r EXCEPT !.owned = TRUE, !.asked = TRUE, !.requested = TRUE, !.stream = "open",
                 !.bootWaits = TRUE]

SettledInit ==
  /\ blob = [NoBlob EXCEPT !.exists = TRUE, !.node = NodeOf(FirstOwner),
                !.worker = WorkerOf(FirstOwner), !.status = "running", !.bootDone = TRUE]
  /\ kv = [roll |-> <<>>, begun |-> {}, ended |-> FALSE]
  /\ plan = [no |-> 0, owner |-> FirstOwner, stopped |-> FALSE, dead |-> {}]
  /\ node = [n \in Nodes |-> [seen |-> 0, planner |-> "idle", was |-> FirstOwner, stopMsg |-> FALSE,
                             firstRebalanceDone |-> FALSE, alive |-> Nodes]]
  /\ co = [c \in Consumers |-> Settled(c)]
  /\ left \in Budgets

\* A still later state: the stream of FirstOwner ended by itself while plan 1 moved
\* the vbucket to another consumer, whose stream is open by now; its late
\* handleStreamEnd then overwrote the blob, a tick of its controlRoutine dropped
\* the vbucket from what it restreams, checkAndUpdateMetadata of the other is
\* about to correct the blob, and the rebalance was stopped
Handed(c, to) ==
  LET r == [Fresh(c, to) EXCEPT !.boot = "up", !.vbnos = FirstOwner = c] IN
  IF c = FirstOwner THEN [r EXCEPT !.bootWaits = TRUE]
  ELSE IF c # to THEN r
  ELSE [r EXCEPT !.owned = TRUE, !.asked = TRUE, !.requested = TRUE, !.stream = "open",
                 !.upd = "correct", !.stopCh = "closed"]

HandoverInit ==
  \E to \in Consumers \ {FirstOwner} :
    /\ blob = [NoBlob EXCEPT !.exists = TRUE, !.status = "stopped", !.bootDone = TRUE]
    /\ kv = [roll |-> <<>>, begun |-> {}, ended |-> TRUE]
    /\ plan = [no |-> 1, owner |-> to, stopped |-> TRUE, dead |-> {}]
    /\ node = [n \in Nodes |-> [seen |-> 1, planner |-> "idle", was |-> FirstOwner,
                               stopMsg |-> FALSE, firstRebalanceDone |-> TRUE, alive |-> Nodes]]
    /\ co = [c \in Consumers |-> Handed(c, to)]
    /\ left = [k \in Outside |-> IF k = "plans" THEN 1 ELSE 0]

\* A step of consumer c that changes its own record only, or it and the blob
Become(c, r) == co' = [co EXCEPT ![c] = r] /\ UNCHANGED <<kv, plan, node, left>>
Local(c, r) == Become(c, r) /\ UNCHANGED blob

-----------------------------------------------------------------------------
(* Consumer.Serve: doCleanupForPreviouslyOwnedVbs, then startDcp, then the  *)
(* first vbsStateUpdate and the checkpoint loop.                            *)

BootCleanup(c) ==
  LET me == co[c] IN
  /\ me.boot = "cleanup" /\ ~IsPlannerRunning(NodeOf(c))
  /\ Local(c, IF ~me.vbnos /\ RunsOn(blob, c)
              THEN [me EXCEPT !.boot = "uncleaned", !.bootCopy = Copy(blob)]
              ELSE [me EXCEPT !.boot = "dcp"])

BootCleanupWrites(c) ==
  LET me == co[c] IN
  /\ me.boot = "uncleaned"
  /\ blob' = UpdateCheckpoint(blob, me.bootCopy.seq, me.bootCopy.bootDone)
  /\ Become(c, [Released(me, me.bootCopy.seq) EXCEPT !.boot = "dcp"])

StartDcp(c) ==
  LET me == co[c]
      mine == blob.node \in {NodeOf(c), None} /\ blob.worker \in {WorkerOf(c), None}
      start == IF blob.bootDone THEN blob.seq ELSE 0
  IN
  /\ me.boot = "dcp"
  /\ \/ /\ me.vbnos /\ ~blob.exists
        /\ Local(c, [me EXCEPT !.boot = "create", !.bootPending = TRUE])
     \/ /\ me.vbnos /\ blob.exists /\ mine
        /\ Local(c, [Enqueue(me, start, blob.vbuuid) EXCEPT
                       !.boot = "wait", !.bootWaits = ~me.enqueued,
                       !.bootPending = @ \/ (~me.enqueued /\ ~blob.bootDone)])
     \/ /\ ~me.vbnos \/ (blob.exists /\ ~mine)
        /\ Local(c, [me EXCEPT !.boot = "wait"])

StartDcpCreates(c) ==
  LET me == co[c] IN
  /\ me.boot = "create"
  /\ blob' = Created(c)
  /\ Become(c, [Enqueue(me, 0, Epoch) EXCEPT !.boot = "wait", !.bootWaits = ~me.enqueued])

\* checkIfVbStreamsOpenedCallback has returned nil
BootDone(c) ==
  LET me == co[c] IN
  /\ me.boot = "wait"
  /\ me.bootWaits => me.asked \/ ~checkIfCurrentConsumerShouldOwnVb(c)
  /\ Local(c, [me EXCEPT !.boot = "up", !.upd = IF @ = "idle" THEN "start" ELSE @])

Boot(c) ==
  \/ BootCleanup(c) \/ BootCleanupWrites(c) \/ StartDcp(c) \/ StartDcpCreates(c)
  \/ BootDone(c)

-----------------------------------------------------------------------------
(* processDCPEvents                                                         *)

TakesEvent(c, op) ==
  co[c].dcp.pc = "idle" /\ co[c].aggDCPFeed # <<>> /\ Head(co[c].aggDCPFeed).op = op

Rest(c) == [co[c] EXCEPT !.aggDCPFeed = Tail(@)]

\* DCP_MUTATION, DCP_DELETION, DCP_EXPIRATION: filterMutations, then sendEvent
DcpMutation(c) ==
  LET e == Head(co[c].aggDCPFeed) IN
  /\ TakesEvent(c, "event") /\ e.seq \in Muts
  /\ Local(c, IF co[c].filtered THEN Rest(c)
              ELSE [Rest(c) EXCEPT !.lastRead = e.seq, !.lastSent = e.seq,
                                   !.queue = Append(@, e)])

\* DCP_SEQNO_ADVANCED, DCP_SYSTEM_EVENT: checkAndSendNoOp
DcpSeqnoAdvanced(c) ==
  LET e == Head(co[c].aggDCPFeed)
      noOp == e.seq - co[c].lastSent >= NoOpThreshold
  IN
  /\ TakesEvent(c, "event") /\ e.seq \notin Muts
  /\ Local(c, [Rest(c) EXCEPT !.lastRead = e.seq,
                              !.lastSent = IF noOp THEN e.seq ELSE @,
                              !.queue = IF noOp THEN Append(@, e) ELSE @])

\* Mutant: a stream that is no longer wanted is kept
DcpStreamOpenedKept(c) ==
  LET e == Head(co[c].aggDCPFeed) IN
  /\ TakesEvent(c, "opened") /\ co[c].metaUpdated
  /\ blob' = SRS(FromVbStats(c), c, e.ep, blob.bootDone \/ co[c].bootPending)
  /\ Become(c, [Rest(c) EXCEPT
                  !.metaUpdated = FALSE, !.vbuuid = e.ep, !.bootPending = FALSE,
                  !.processed = co[c].lastProc, !.owned = TRUE, !.asked = TRUE,
                  !.flogCh = Append(@, [kind |-> "opened", seq |-> 0])])

\* DCP_STREAMREQ with SUCCESS; the loop waits until the request's own blob
\* update is done
DcpStreamOpened(c) ==
  LET e == Head(co[c].aggDCPFeed)
      unwanted == ~checkIfCurrentConsumerShouldOwnVb(c)
  IN
  /\ TakesEvent(c, "opened") /\ co[c].metaUpdated
  /\ blob' = SRS(FromVbStats(c), c, e.ep, blob.bootDone \/ co[c].bootPending)
  /\ Become(c, [Rest(c) EXCEPT
                  !.metaUpdated = FALSE, !.vbuuid = e.ep, !.bootPending = FALSE,
                  !.processed = co[c].lastProc,      \* sendUpdateProcessedSeqNo
                  !.owned = TRUE, !.asked = TRUE,
                  !.toClose = @ \/ unwanted, !.filtered = @ \/ unwanted,
                  !.flogCh = Append(@, [kind |-> "opened", seq |-> 0])])

\* DCP_STREAMREQ with ROLLBACK or another error
DcpStreamRefused(c) ==
  LET e == Head(co[c].aggDCPFeed) IN
  /\ TakesEvent(c, "rollback") \/ TakesEvent(c, "retry")
  /\ co[c].metaUpdated
  /\ blob' = SRF(Ensure(c))
  /\ Become(c, [Rest(c) EXCEPT
                  !.metaUpdated = FALSE,
                  !.flogCh = Append(@, [kind |-> e.op, seq |-> e.seq])])

\* Mutant: the worker is not asked how far it got
DcpStreamEndRead(c) ==
  /\ TakesEvent(c, "end")
  /\ Local(c, [Rest(c) EXCEPT !.dcp = [pc |-> "purge", seq |-> co[c].lastRead],
                              !.metaUpdated = FALSE])

DcpStreamEnd(c) ==
  LET me == co[c] IN
  /\ TakesEvent(c, "end")
  /\ Local(c, [(IF me.lastSent = 0
                THEN [Rest(c) EXCEPT !.dcp = [pc |-> "purge", seq |-> me.lastRead]]
                ELSE VbFilter(Rest(c), me.lastSent, <<me.processed>>))
               EXCEPT !.metaUpdated = FALSE])

processDCPEvents(c) ==
  \/ DcpMutation(c) \/ DcpSeqnoAdvanced(c) \/ DcpStreamOpened(c)
  \/ DcpStreamRefused(c) \/ DcpStreamEnd(c)

processFilterEvents(c) ==
  /\ co[c].filter.pc = "idle" /\ co[c].filterDataCh # <<>>
  /\ Local(c, [co[c] EXCEPT !.filter = [pc |-> "purge", seq |-> Head(co[c].filterDataCh)],
                            !.filterDataCh = Tail(@)])

-----------------------------------------------------------------------------
(* handleStreamEnd, in goroutine g = "dcp" or "filter"                      *)

EndPurge(c, g) ==
  /\ co[c][g].pc = "purge"
  /\ blob' = SE(FromVbStats(c))
  /\ Become(c, [co[c] EXCEPT !.requested = FALSE, !.inflight = FALSE, ![g].pc = "release"])

EndRelease(c, g) ==
  LET seq == co[c][g].seq
      r == [Released(co[c], seq) EXCEPT !.filtered = FALSE, !.asked = FALSE]
  IN
  /\ co[c][g].pc = "release"
  /\ blob' = UpdateCheckpoint(blob, seq, blob.bootDone)
  /\ Become(c, IF checkIfCurrentConsumerShouldOwnVb(c)
               THEN [r EXCEPT ![g].pc = "reread",
                              !.flogCh = Append(@, [kind |-> "end", seq |-> seq])]
               ELSE [r EXCEPT ![g] = EndIdle])

EndReread(c, g) ==
  /\ co[c][g].pc = "reread"
  /\ Local(c, [co[c] EXCEPT ![g] = [pc |-> "rewrite", seq |-> blob.seq]])

EndRewrite(c, g) ==
  /\ co[c][g].pc = "rewrite"
  /\ blob' = UpdateCheckpoint(blob, co[c][g].seq, blob.bootDone)
  /\ Become(c, [Released(co[c], co[c][g].seq) EXCEPT ![g] = EndIdle, !.restream = @ + 1])

handleStreamEnd(c) ==
  \E g \in {"dcp", "filter"} :
    EndPurge(c, g) \/ EndRelease(c, g) \/ EndReread(c, g) \/ EndRewrite(c, g)

-----------------------------------------------------------------------------
(* processReqStreamMessages and dcpRequestStreamHandle                      *)

ReqPop(c) ==
  LET me == [co[c] EXCEPT !.enqueued = FALSE, !.reqCh = Tail(@)] IN
  /\ co[c].req = "idle" /\ co[c].reqCh # <<>>
  /\ Local(c, CASE ~checkIfCurrentConsumerShouldOwnVb(c) ->
                     IF RunsOn(blob, c)
                     THEN [me EXCEPT !.req = "uncleaned", !.reqCopy = Copy(blob)]
                     ELSE me
                [] checkIfCurrentConsumerShouldOwnVb(c) /\ me.owned -> me
                [] checkIfCurrentConsumerShouldOwnVb(c) /\ ~me.owned
                   /\ IsPlannerRunning(NodeOf(c)) ->
                     [me EXCEPT !.restream = @ + 1, !.toCleanup = TRUE]
                [] OTHER ->
                     IF me.inflight THEN me
                     ELSE [me EXCEPT !.req = "ask", !.reqMsg = Head(co[c].reqCh)])

ReqCleanupWrites(c) ==
  /\ co[c].req = "uncleaned"
  /\ blob' = UpdateCheckpoint(blob, co[c].reqCopy.seq, co[c].reqCopy.bootDone)
  /\ Become(c, [Released(co[c], co[c].reqCopy.seq) EXCEPT !.req = "idle"])

ReqAsk(c) ==
  LET me == co[c] IN
  /\ me.req = "ask"
  /\ me.requested \/ me.feed = "up"
  /\ Local(c, IF me.requested THEN [me EXCEPT !.req = "idle"]
              ELSE [me EXCEPT !.req = "sent", !.requested = TRUE,
                              !.stream = "asked", !.ask = me.reqMsg])

\* DcpRequestStream returns an error: the connection is gone, or the answer is
\* that this data node does not have the vbucket
ReqAskFails(c) ==
  LET me == co[c] IN
  /\ me.req = "ask" /\ ~me.requested
  /\ \/ me.feed # "up" /\ UNCHANGED left
     \/ me.feed = "up" /\ Spend("refusals")
  /\ co' = [co EXCEPT ![c] =
       [me EXCEPT !.req = "idle", !.feed = "up",
                  !.restream = @ + IF checkIfCurrentConsumerShouldOwnVb(c) THEN 2 ELSE 1]]
  /\ UNCHANGED <<blob, kv, plan, node>>

ReqSent(c) ==
  LET me == co[c] IN
  /\ me.req = "sent"
  /\ Local(c, [me EXCEPT !.req = "record", !.lastRead = me.reqMsg.start,
                         !.lastProc = me.reqMsg.start, !.lastSent = 0, !.inflight = TRUE])

ReqRecord(c) ==
  /\ co[c].req = "record"
  /\ blob' = SRR(Ensure(c), c)
  /\ Become(c, [co[c] EXCEPT !.req = "idle", !.metaUpdated = TRUE, !.asked = TRUE])

processReqStreamMessages(c) ==
  \/ ReqPop(c) \/ ReqCleanupWrites(c) \/ ReqAsk(c) \/ ReqAskFails(c)
  \/ ReqSent(c) \/ ReqRecord(c)

-----------------------------------------------------------------------------
(* handleFailoverLog                                                        *)

FlogPop(c) ==
  LET e == Head(co[c].flogCh)
      me == [co[c] EXCEPT !.inflight = FALSE, !.flogCh = Tail(@)]
  IN
  /\ co[c].flog = "idle" /\ co[c].flogCh # <<>>
  /\ Local(c, IF e.kind \in {"end", "opened"} THEN me
              ELSE [me EXCEPT !.flog = e.kind, !.flogSeq = e.seq, !.flogCopy = Copy(blob)])

\* FetchLogForSeqNo fails on the log that the data service returned
FlogFails(c) ==
  /\ co[c].flog \in {"rollback", "retry"} /\ Spend("refusals")
  /\ co' = [co EXCEPT ![c].flog = "idle", ![c].restream = @ + 1, ![c].requested = FALSE]
  /\ UNCHANGED <<blob, kv, plan, node>>

\* A rollback in its five pieces: the stats, the blob, vbStreamRequested,
\* vbEnqueuedForStreamReq, and the filter with the request itself
FlogRollback(c) ==
  LET vbuuid == FetchLogForSeqNo(co[c].flogCopy.seq) IN
  /\ co[c].flog = "rollback"
  /\ Local(c, [co[c] EXCEPT !.flog = "store", !.flogCopy.vbuuid = vbuuid,
                            !.lastProc = co[c].flogSeq, !.vbuuid = vbuuid])

FlogStores(c) ==
  LET me == co[c] IN
  /\ me.flog = "store"
  /\ blob' = UpdateCheckpoint(blob, me.flogSeq, me.flogCopy.bootDone)
  /\ Become(c, [Released(me, me.flogSeq) EXCEPT !.flog = "purge"])

FlogPurges(c) ==
  /\ co[c].flog = "purge"
  /\ Local(c, [co[c] EXCEPT !.flog = "enqueue", !.requested = FALSE])

FlogEnqueues(c) ==
  /\ co[c].flog = "enqueue"
  /\ Local(c, [co[c] EXCEPT !.flog = IF co[c].enqueued THEN "idle" ELSE "send",
                            !.enqueued = TRUE])

FlogSends(c) ==
  LET me == co[c] IN
  /\ me.flog = "send"
  /\ Local(c, [VbFilter(me, me.flogSeq, <<>>) EXCEPT !.flog = "idle",
                 !.reqCh = Append(@, [start |-> me.flogSeq, vbuuid |-> me.flogCopy.vbuuid])])

FlogRetry(c) ==
  LET me == co[c] IN
  /\ me.flog = "retry"
  /\ Local(c, [Enqueue(me, me.flogCopy.seq, me.flogCopy.vbuuid) EXCEPT
                  !.flog = "idle", !.requested = FALSE])

handleFailoverLog(c) ==
  \/ FlogPop(c) \/ FlogFails(c) \/ FlogRollback(c) \/ FlogStores(c) \/ FlogPurges(c)
  \/ FlogEnqueues(c) \/ FlogSends(c) \/ FlogRetry(c)

-----------------------------------------------------------------------------
(* controlRoutine                                                           *)

\* The feed closes its connection and ends every stream on it
StreamDropped(r, how) ==
  [r EXCEPT !.feed = how, !.stream = "none",
            !.aggDCPFeed = IF r.stream = "none" THEN @
                           ELSE Append(@, [op |-> "end", seq |-> 0, ep |-> 0])]

Controlled(c) == co[c].boot \notin {"cleanup", "uncleaned"}

\* clusterStateChangeNotifCh; CloseAllRunningDcpFeeds takes streamReqRWMutex
CtlNotified(c) ==
  /\ Controlled(c) /\ co[c].ctl = "idle" /\ co[c].notif > 0
  /\ co[c].req \notin {"sent", "record"}
  /\ Local(c, [StreamDropped(co[c], "closed") EXCEPT
                 !.notif = @ - 1, !.asked = FALSE, !.stopCh = "open",
                 !.upd = IF @ = "idle" THEN "start" ELSE @])

\* The last part of a tick: vbsToRestream, the snapshot of ctlRestream entries
Restream(r, c) ==
  LET rest == r.restream - r.ctlRestream
      wanted == r.ctlRestream > 0 /\ ~r.owned /\ checkIfCurrentConsumerShouldOwnVb(c)
  IN [(IF wanted THEN UpdateVbOwnerAndStart(r, blob) ELSE r) EXCEPT
        !.restream = rest, !.ctlRestream = 0, !.ctlClose = FALSE,
        !.ctl = IF rest > 0 THEN "again" ELSE "idle"]

\* The middle part: DcpCloseStream of vbsRemainingToClose
CloseThenRestream(r, c) ==
  IF r.ctlClose /\ r.owned /\ ~checkIfCurrentConsumerShouldOwnVb(c)
  THEN [r EXCEPT !.ctl = "closed", !.stream = IF @ = "open" THEN "closing" ELSE @]
  ELSE Restream(r, c)

\* restartVbDcpStreamTicker, or the goto when something is left to restream.
\* A tick is one step up to its next write of the blob.
CtlTick(c) ==
  LET me == co[c]
      r == [me EXCEPT !.ctlRestream = me.restream, !.ctlClose = me.toClose]
      mustOwn == checkIfCurrentConsumerShouldOwnVb(c)
      look == me.toCleanup /\ ~IsPlannerRunning(NodeOf(c))
  IN
  /\ Controlled(c) /\ me.ctl \in {"idle", "again"}
  /\ me.restream > 0 \/ me.toClose \/ me.toCleanup
  /\ Local(c, IF look /\ ~mustOwn /\ RunsOn(blob, c)
              THEN [r EXCEPT !.ctl = "uncleaned", !.ctlCopy = Copy(blob)]
              ELSE CloseThenRestream([r EXCEPT !.toCleanup =
                     @ /\ ~(look /\ (~mustOwn \/ me.owned))], c))

CtlCleanupWrites(c) ==
  /\ co[c].ctl = "uncleaned"
  /\ blob' = UpdateCheckpoint(blob, co[c].ctlCopy.seq, co[c].ctlCopy.bootDone)
  /\ Become(c, [Released(co[c], co[c].ctlCopy.seq) EXCEPT !.ctl = "close", !.toCleanup = FALSE])

CtlClose(c) == co[c].ctl = "close" /\ Local(c, CloseThenRestream(co[c], c))

\* updateCheckpoint of a vbBlob that was declared and never read
CtlCloseWrites(c) ==
  /\ co[c].ctl = "closed"
  /\ blob' = UpdateCheckpoint(blob, 0, FALSE)
  /\ Become(c, [Released(co[c], 0) EXCEPT !.ctl = "restream"])

CtlRestream(c) == co[c].ctl = "restream" /\ Local(c, Restream(co[c], c))

controlRoutine(c) ==
  \/ CtlNotified(c) \/ CtlTick(c) \/ CtlCleanupWrites(c) \/ CtlClose(c)
  \/ CtlCloseWrites(c) \/ CtlRestream(c)

-----------------------------------------------------------------------------
(* vbsStateUpdate                                                           *)

\* the deferred function of vbsStateUpdate
StateUpdated(r) == [r EXCEPT !.upd = "idle", !.ongoing = FALSE, !.incomplete = r.updLeft]

UpdStart(c) ==
  LET some == vbRemainingToOwn(c) \/ vbRemainingToGiveUp(c)
      r == [co[c] EXCEPT !.incomplete = FALSE, !.updOwn = vbRemainingToOwn(c), !.updLeft = some]
  IN
  /\ co[c].upd = "start"
  /\ Local(c, IF some THEN [r EXCEPT !.upd = "try"] ELSE StateUpdated(r))

UpdTry(c) ==
  LET me == co[c]
      go == /\ me.updOwn /\ me.stopCh = "open" /\ ~me.inflight /\ ~me.enqueued
            /\ checkIfCurrentConsumerShouldOwnVb(c)
  IN
  /\ me.upd = "try"
  /\ Local(c, [me EXCEPT !.upd = IF go THEN "take" ELSE "post"])

\* Mutant: a node once known is taken to be alive
IsEventingNodeAliveAlways(c, n) == TRUE

IsEventingNodeAlive(c, n) == n \in node[NodeOf(c)].alive

\* Mutant: dcp_stream_status is not looked at
MayTakeOverRunning(c) == blob.requester \in {None, c}

\* doVbTakeover as retried by vbTakeoverCallback
MayTakeOver(c) ==
  IF blob.status = "running"
  THEN blob.node # NodeOf(c) /\ ~IsEventingNodeAlive(c, blob.node)
  ELSE \/ blob.requester \in {None, c}
       \/ /\ NodeOf(blob.requester) # NodeOf(c)
          /\ ~IsEventingNodeAlive(c, NodeOf(blob.requester))

UpdTake(c) ==
  LET me == co[c]
      done == [me EXCEPT !.upd = "post"]
      purged == [me EXCEPT !.requested = FALSE]
      elsewhere == blob.status = "running" /\ blob.node # NodeOf(c)
  IN
  /\ me.upd = "take"
  /\ Local(c, CASE ~me.ongoing -> [done EXCEPT !.enqueued = FALSE]
                [] me.ongoing /\ MayTakeOver(c) -> UpdateVbOwnerAndStart(done, blob)
                [] me.ongoing /\ RunsOn(blob, c) -> done
                [] OTHER ->
                     IF elsewhere /\ ~checkIfCurrentNodeShouldOwnVb(c)
                     THEN [purged EXCEPT !.upd = "post"] ELSE purged)

UpdPost(c) ==
  LET some == vbRemainingToOwn(c) \/ vbRemainingToGiveUp(c) IN
  /\ co[c].upd = "post"
  /\ Local(c, [co[c] EXCEPT !.stopCh = "open", !.updOwn = vbRemainingToOwn(c), !.updLeft = some,
                            !.upd = IF co[c].ongoing /\ some THEN "try" ELSE "meta"])

\* checkAndUpdateMetadata
UpdMeta(c) ==
  LET me == co[c] IN
  /\ me.upd = "meta"
  /\ Local(c, IF me.owned /\ checkIfCurrentConsumerShouldOwnVb(c) /\ ~RunsOn(blob, c)
              THEN [me EXCEPT !.upd = "correct"] ELSE StateUpdated(me))

\* Mutant: the assignment is not looked at again after the correction
UpdCorrectOnce(c) ==
  /\ co[c].upd = "correct"
  /\ blob' = MetadataCorrection(blob, c)
  /\ Become(c, StateUpdated(co[c]))

UpdCorrect(c) ==
  /\ co[c].upd = "correct"
  /\ blob' = MetadataCorrection(blob, c)
  /\ Become(c, IF checkIfCurrentConsumerShouldOwnVb(c) THEN StateUpdated(co[c])
               ELSE [co[c] EXCEPT !.upd = "undo"])

UpdUndo(c) ==
  /\ co[c].upd = "undo"
  /\ blob' = UndoMetadataCorrection(blob)
  /\ Become(c, StateUpdated(co[c]))

vbsStateUpdate(c) ==
  \/ UpdStart(c) \/ UpdTry(c) \/ UpdTake(c) \/ UpdPost(c) \/ UpdMeta(c)
  \/ UpdCorrect(c) \/ UpdUndo(c)

-----------------------------------------------------------------------------
(* doLastSeqNoCheckpoint                                                    *)

\* The ticker is not counted: it fires in a behaviour or it does not
Checkpoints == left["checkpoints"] > 0

\* Mutant: what was read is checkpointed, not what was processed
CkptReadEarly(c) ==
  /\ Checkpoints /\ co[c].boot = "up" /\ co[c].ckpt = "idle" /\ co[c].owned /\ blob.exists
  /\ Local(c, [co[c] EXCEPT !.ckpt = "write",
       !.ckptCopy = [seq |-> co[c].lastRead, vbuuid |-> co[c].vbuuid, bootDone |-> FALSE]])

CkptRead(c) ==
  LET me == co[c]
      steady == blob.node = NodeOf(c) /\ blob.status = "running"
      handover == /\ blob.worker = None /\ blob.status = "stopped"
                  /\ checkIfCurrentNodeShouldOwnVb(c) /\ checkIfCurrentConsumerShouldOwnVb(c)
  IN
  /\ Checkpoints /\ me.boot = "up" /\ me.ckpt = "idle" /\ me.owned
  /\ blob.exists /\ (steady \/ handover)
  /\ Local(c, [me EXCEPT !.ckpt = "write",
                  !.ckptCopy = [seq |-> me.lastProc, vbuuid |-> me.vbuuid, bootDone |-> FALSE]])

\* periodicCheckpointCallback
CkptWrite(c) ==
  /\ co[c].ckpt = "write"
  /\ blob' = [blob EXCEPT !.seq = co[c].ckptCopy.seq, !.vbuuid = co[c].ckptCopy.vbuuid]
  /\ Become(c, [co[c] EXCEPT !.ckpt = "idle", !.ckptCopy = NoCopy])

doLastSeqNoCheckpoint(c) == CkptRead(c) \/ CkptWrite(c)

-----------------------------------------------------------------------------
(* The C++ worker, and processedSeqNo's way back to the consumer            *)

WorkerRuns(c) ==
  LET e == Head(co[c].queue)
      r == [co[c] EXCEPT !.queue = Tail(@)]
      skip == co[c].filters # <<>> /\ e.seq <= Head(co[c].filters)
  IN
  /\ co[c].queue # <<>>
  /\ co' = [co EXCEPT ![c] =
       IF skip THEN [r EXCEPT !.filters = IF e.seq = Head(@) THEN Tail(@) ELSE @]
       ELSE [r EXCEPT !.processed = e.seq, !.vbSeq = e.seq]]
  /\ kv' = [kv EXCEPT !.begun =
       IF ~skip /\ e.seq \in Muts /\ InHistory(e.ep, e.seq) THEN @ \cup {e.seq} ELSE @]
  /\ UNCHANGED <<blob, plan, node, left>>

\* GetBucketOpsMessages
WorkerReports(c) ==
  /\ co[c].vbSeq > 0 /\ co[c].report = 0
  /\ Local(c, [co[c] EXCEPT !.report = co[c].vbSeq, !.vbSeq = 0])

\* bucketOpsResponse in routeResponse
BucketOpsResponse(c) ==
  /\ co[c].report > 0
  /\ Local(c, [co[c] EXCEPT !.report = 0, !.lastProc = Max({@, co[c].report})])

Worker(c) == WorkerRuns(c) \/ WorkerReports(c) \/ BucketOpsResponse(c)

-----------------------------------------------------------------------------
(* The data service, and the DCP feed of the consumer                       *)

Deliver(r, op, seq, ep) == [r EXCEPT !.aggDCPFeed = Append(@, [op |-> op, seq |-> seq, ep |-> ep])]

KvAnswers(c) ==
  LET me == co[c] IN
  /\ me.stream = "asked"
  /\ Local(c, IF InHistory(me.ask.vbuuid, me.ask.start)
              THEN [Deliver(me, "opened", 0, Epoch) EXCEPT
                      !.stream = "open", !.pos = me.ask.start, !.hist = Epoch]
              ELSE [Deliver(me, "rollback", Shared(me.ask.vbuuid), 0) EXCEPT !.stream = "none"])

KvRefuses(c) ==
  /\ co[c].stream = "asked" /\ Spend("refusals")
  /\ co' = [co EXCEPT ![c] = [Deliver(co[c], "retry", 0, 0) EXCEPT !.stream = "none"]]
  /\ UNCHANGED <<blob, kv, plan, node>>

KvSends(c) ==
  LET me == co[c] IN
  /\ me.stream \in {"open", "closing"} /\ me.pos < MaxSeq
  /\ Local(c, [Deliver(me, "event", me.pos + 1, me.hist) EXCEPT !.pos = @ + 1])

KvCloses(c) ==
  /\ co[c].stream = "closing"
  /\ Local(c, StreamDropped(co[c], co[c].feed))

\* addToAggChan drops a feed that was closed; the next request opens a new one
FeedReap(c) == co[c].feed = "closed" /\ Local(c, [co[c] EXCEPT !.feed = "up"])

\* The data service ends the stream, or the connection is lost with it
StreamEnds(c) ==
  /\ co[c].stream # "none" /\ co[c].feed = "up" /\ Spend("ends")
  /\ \E how \in {"up", "lost"} :
       /\ how = "up" => co[c].stream # "asked"
       /\ co' = [co EXCEPT ![c] = StreamDropped(co[c], how)]
  /\ kv' = [kv EXCEPT !.ended = TRUE]
  /\ UNCHANGED <<blob, plan, node>>

\* A replica that has history up to r only takes over
KvFailover ==
  /\ Spend("failovers")
  /\ \E r \in 0..(MaxSeq - 1) :
       kv' = [kv EXCEPT !.roll = Append(@, r), !.begun = {s \in @ : s <= r}]
  /\ co' = [c \in Consumers |->
              StreamDropped(co[c], IF co[c].feed = "up" THEN "lost" ELSE co[c].feed)]
  /\ UNCHANGED <<blob, plan, node>>

Kv(c) == KvAnswers(c) \/ KvSends(c) \/ KvCloses(c) \/ FeedReap(c)
KvFaults(c) == KvRefuses(c) \/ StreamEnds(c)

-----------------------------------------------------------------------------
(* Producers: the planner loop, stopping a rebalance, its progress          *)

\* NotifyClusterChange on a record that holds the new assignment
NotifyClusterChange(r, c) ==
  IF r.asked = (r.assigned = c) THEN r
  ELSE [r EXCEPT !.ongoing = TRUE, !.notif = @ + 1]

\* RebalanceTaskProgress: nothing is reported as remaining
NothingRemains(c) ==
  /\ ~vbRemainingToStreamReq(c) /\ ~vbRemainingToCloseStream(c)
  /\ co[c].boot = "up" /\ co[c].upd = "idle"

RebalanceDone ==
  /\ \A n \in Nodes \ plan.dead : node[n].seen = plan.no /\ node[n].planner = "idle"
  /\ \A c \in Consumers : Alive(c) => NothingRemains(c)

NewPlan ==
  /\ RebalanceDone \/ plan.stopped \/ NodeOf(plan.owner) \in plan.dead
  /\ \A n \in Nodes : ~node[n].stopMsg
  /\ Spend("plans")
  /\ \E o \in Consumers :
       Alive(o) /\ plan' = [plan EXCEPT !.no = @ + 1, !.owner = o, !.stopped = FALSE]
  /\ UNCHANGED <<blob, kv, node, co>>

\* StartRebalanceCType, StartFailoverCType: isPlannerRunning is set, the maps of
\* the consumers are replaced, isPlannerRunning is cleared, and the consumers
\* whose slice has changed are told
PlannerStarts(n) ==
  /\ n \notin plan.dead /\ node[n].seen # plan.no /\ node[n].planner = "idle"
  /\ node' = [node EXCEPT ![n].planner = "planning"]
  /\ UNCHANGED <<blob, kv, plan, co, left>>

PlannerAssigns(n) ==
  /\ n \notin plan.dead /\ node[n].planner = "planning"
  /\ node' = [node EXCEPT ![n] = [@ EXCEPT !.planner = "assigned", !.seen = plan.no,
                          !.was = co[CHOOSE c \in Consumers : NodeOf(c) = n].assigned,
                          !.alive = Nodes \ plan.dead]]
  /\ co' = [c \in Consumers |-> IF NodeOf(c) = n THEN [co[c] EXCEPT !.assigned = plan.owner]
                                ELSE co[c]]
  /\ UNCHANGED <<blob, kv, plan, left>>

PlannerFinishes(n) ==
  /\ n \notin plan.dead /\ node[n].planner = "assigned"
  /\ node' = [node EXCEPT ![n].planner = "notify"]
  /\ UNCHANGED <<blob, kv, plan, co, left>>

ProducerNotifies(n) ==
  /\ n \notin plan.dead /\ node[n].planner = "notify"
  /\ node' = [node EXCEPT ![n] = [@ EXCEPT !.planner = "idle", !.was = FirstOwner,
                                             !.firstRebalanceDone = TRUE]]
  /\ co' = [c \in Consumers |->
       LET sliceChanged == (node[n].was = c) # (co[c].assigned = c) IN
       IF NodeOf(c) = n /\ (sliceChanged \/ ~node[n].firstRebalanceDone \/ co[c].incomplete)
       THEN NotifyClusterChange(co[c], c) ELSE co[c]]
  /\ UNCHANGED <<blob, kv, plan, left>>

Planner(n) ==
  PlannerStarts(n) \/ PlannerAssigns(n) \/ PlannerFinishes(n) \/ ProducerNotifies(n)

RebalanceTaskProgress(c) ==
  /\ co[c].ongoing /\ NothingRemains(c)
  /\ Local(c, [co[c] EXCEPT !.ongoing = FALSE])

StopRebalance ==
  /\ plan.no > 0 /\ ~RebalanceDone /\ ~plan.stopped /\ Spend("stops")
  /\ plan' = [plan EXCEPT !.stopped = TRUE]
  /\ node' = [n \in Nodes |-> [node[n] EXCEPT !.stopMsg = n \notin plan.dead]]
  /\ UNCHANGED <<blob, kv, co>>

\* StopRebalanceCType: NotifyRebalanceStop on every consumer of the node
ProducerStops(n) ==
  /\ node[n].stopMsg /\ node[n].seen = plan.no /\ node[n].planner = "idle"
  /\ node' = [node EXCEPT ![n].stopMsg = FALSE]
  /\ co' = [c \in Consumers |->
       IF NodeOf(c) # n THEN co[c]
       ELSE [co[c] EXCEPT !.ongoing = FALSE,
                          !.stopCh = IF co[c].upd = "idle" THEN @ ELSE "closed"]]
  /\ UNCHANGED <<blob, kv, plan, left>>

Restarted(n) == [node[n] EXCEPT !.seen = plan.no, !.planner = "idle", !.stopMsg = FALSE,
                                !.firstRebalanceDone = FALSE, !.alive = Nodes \ plan.dead]

\* The eventing process of a node is restarted, and reads the present plan
NodeRestarts(n) ==
  /\ n \notin plan.dead /\ Spend("restarts")
  /\ node' = [node EXCEPT ![n] = Restarted(n)]
  /\ co' = [c \in Consumers |-> IF NodeOf(c) = n THEN Fresh(c, plan.owner) ELSE co[c]]
  /\ UNCHANGED <<blob, kv, plan>>

\* KillAndRespawnEventingConsumer: the node keeps the plan it has seen
ConsumerRespawns(c) ==
  /\ Alive(c) /\ Spend("respawns")
  /\ co' = [co EXCEPT ![c] = Fresh(c, co[c].assigned)]
  /\ UNCHANGED <<blob, kv, plan, node>>

NodeDies(n) ==
  /\ n \notin plan.dead /\ Nodes # plan.dead \cup {n} /\ Spend("deaths")
  /\ plan' = [plan EXCEPT !.dead = @ \cup {n}]
  /\ node' = [node EXCEPT ![n].planner = "idle", ![n].stopMsg = FALSE]
  /\ UNCHANGED <<blob, kv, co>>

Goroutine(c) ==
  \/ Boot(c) \/ processDCPEvents(c) \/ processFilterEvents(c) \/ handleStreamEnd(c)
  \/ processReqStreamMessages(c) \/ handleFailoverLog(c) \/ controlRoutine(c)
  \/ vbsStateUpdate(c) \/ doLastSeqNoCheckpoint(c) \/ Worker(c)

Producer ==
  \/ NewPlan \/ StopRebalance
  \/ \E n \in Nodes : Planner(n) \/ ProducerStops(n)

Faults ==
  \/ KvFailover
  \/ \E n \in Nodes : NodeRestarts(n) \/ NodeDies(n)
  \/ \E c \in Consumers : ConsumerRespawns(c) \/ (Alive(c) /\ KvFaults(c))

Next ==
  \/ \E c \in Consumers : Alive(c) /\ (Goroutine(c) \/ Kv(c) \/ RebalanceTaskProgress(c))
  \/ Producer
  \/ Faults

Spec == Init /\ [][Next]_vars
SettledSpec == SettledInit /\ [][Next]_vars
RebalanceSpec == (SettledInit \/ HandoverInit) /\ [][Next]_vars

\* The goroutines that only ever work off what was sent to them
Reactive(c) ==
  \/ Boot(c) \/ processDCPEvents(c) \/ processFilterEvents(c) \/ handleStreamEnd(c)
  \/ processReqStreamMessages(c) \/ handleFailoverLog(c) \/ Worker(c) \/ Kv(c)

Fairness ==
  /\ \A c \in Consumers :
       /\ WF_vars(Alive(c) /\ Reactive(c))
       /\ WF_vars(Alive(c) /\ controlRoutine(c)) /\ SF_vars(Alive(c) /\ CtlNotified(c))
       /\ WF_vars(Alive(c) /\ vbsStateUpdate(c))
  /\ \A n \in Nodes : WF_vars(Planner(n) \/ ProducerStops(n))

FairSpec == Spec /\ Fairness
FairSettledSpec == SettledSpec /\ Fairness

(* Properties                                                               *)

\* The blob has the fields a vbucketKVBlob can have, and no sequence number a
\* consumer, a request or a checkpoint in progress holds is outside the vbucket.
TypeOK ==
  /\ blob \in [exists : BOOLEAN, node : Nodes \cup {None}, worker : Workers \cup {None},
               status : {"", "running", "stopped"}, requester : Consumers \cup {None},
               seq : Seqs, vbuuid : 0..Epoch, bootDone : BOOLEAN]
  /\ plan.owner \in Consumers /\ plan.dead \subseteq Nodes /\ kv.begun \subseteq Muts
  /\ \A c \in Consumers :
       /\ {co[c].lastRead, co[c].lastSent, co[c].lastProc, co[c].pos, co[c].ask.start,
           co[c].processed, co[c].ckptCopy.seq, co[c].reqMsg.start} \subseteq Seqs
       /\ \A i \in DOMAIN co[c].reqCh : co[c].reqCh[i].start \in Seqs
       /\ co[c].feed \in {"up", "closed", "lost"}
       /\ co[c].stream \in {"none", "asked", "open", "closing"}

\* A checkpoint never covers a mutation that no handler was given: whatever the
\* order of mutations, filters, acknowledgements, stream ends and checkpoints, a
\* stream that starts at the stored last_processed_seq_no leaves out nothing
\* (doLastSeqNoCheckpoint, updateCheckpoint, handleStreamEnd).
NoMutationSkipped ==
  blob.vbuuid = Epoch => \A s \in Muts : s <= blob.seq => s \in kv.begun

\* While no stream ends by itself, no two live consumers hold the vbucket as their
\* running stream, although the lease is a document that is read and written
\* without a CAS (doVbTakeover, processReqStreamMessages, handleStreamEnd).
OneOwner ==
  ~kv.ended => \A c, d \in Consumers :
    Alive(c) /\ Alive(d) /\ co[c].owned /\ co[d].owned => c = d

\* The consumers keep the promise of VbContract at every step: the vbucket
\* passes from owner to owner by way of none, and the checkpoint moves only
\* over mutations that were handed to a handler.
Owner ==
  IF \E c \in Consumers : Alive(c) /\ co[c].owned
  THEN CHOOSE c \in Consumers : Alive(c) /\ co[c].owned ELSE None

Contract == INSTANCE VbContract WITH
  Owners <- Consumers, NoOwner <- None, owner <- Owner,
  begun <- kv.begun, checkpoint <- blob.seq

ImplementsContract == Contract!Spec

\* A consumer whose stream the plan has given to another one is going to close
\* it: it is listed in vbsRemainingToClose, or a notification waits that will
\* close its feeds, or the producer is about to send one, or the end of the
\* stream is already on its way
\* (DCP_STREAMREQ in processDCPEvents, controlRoutine).
EndUnderWay(c) ==
  \/ \E i \in DOMAIN co[c].aggDCPFeed : co[c].aggDCPFeed[i].op = "end"
  \/ co[c].filterDataCh # <<>> \/ co[c].dcp.pc # "idle" \/ co[c].filter.pc # "idle"

StrayStreamCloses ==
  \A c \in Consumers :
    Alive(c) /\ vbRemainingToGiveUp(c) =>
      \/ co[c].toClose \/ co[c].notif > 0 \/ EndUnderWay(c)
      \/ node[NodeOf(c)].planner # "idle"

\* A blob that says "running" names a consumer that owns the vbucket, or one the
\* plan has given it to, or one that is about to withdraw the claim (an undo, the
\* cleanup at boot, a stream request that is queued, handled or put off): a stray
\* claim would keep the planned owner from ever taking over, as the holder is
\* alive, also after streams have ended by themselves and the blob was overwritten
\* (checkAndUpdateMetadata, undoMetadataCorrectionCallback, doVbTakeover).
ClaimWithdrawn(c) ==
  \/ co[c].upd = "undo" \/ co[c].boot # "up"
  \/ co[c].reqCh # <<>> \/ co[c].req # "idle" \/ co[c].toCleanup

ClaimBacked ==
  \A c \in Consumers :
    Alive(c) /\ RunsOn(blob, c) =>
      co[c].owned \/ checkIfCurrentConsumerShouldOwnVb(c) \/ ClaimWithdrawn(c)

Streams(c) == co[c].owned /\ co[c].stream = "open"

\* The consumer the plan names is alive, and every live producer knows who is
Noticed ==
  /\ Alive(plan.owner)
  /\ \A n \in Nodes \ plan.dead : node[n].alive = Nodes \ plan.dead

\* Whatever races a plan, a failover of the data service or the death of a node
\* leads to, the planned owner ends up with an open stream and keeps it: it
\* takes over from a dead node the planners have noticed, and reopens what was
\* lost (vbsStateUpdate, doVbTakeover, vbsRemainingToRestream).
PlannedOwnerStreams == <>[](Noticed => Streams(plan.owner))

\* Every mutation of the present history is handed to a handler in the end,
\* also when a failover of the data service took back some of them or the
\* consumer they were sent to died (handleFailoverLog, sendVbFilterData).
AllBegun == <>[](Noticed => Muts \subseteq kv.begun)
=============================================================================
