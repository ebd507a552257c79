---------------------------- MODULE WalletLedger ----------------------------
(***************************************************************************)
(* The ledger of one wallet: which coins it offers to spend.  TransactionDAO *)
(* keeps transactions, outputs and inputs in SQL; WalletSyncService writes *)
(* them from the blocks the scan matches, from payments seen in the        *)
(* mempool, from its own broadcasts before they confirm, and undoes them   *)
(* on a reorg.  A transaction has at most one output of ours, which is     *)
(* named after it, and a block carries one transaction of interest.        *)
(***************************************************************************)
EXTENDS Naturals, Sequences

CONSTANTS
  Txs,         \* transactions
  Ins,         \* the outputs each spends
  Pays,        \* those with an output of ours
  Local,       \* those this wallet may sign
  Settled,     \* those confirmed and recorded at first
  MaxHeight,   \* bound on blocks
  MaxFaults,   \* bound on reorgs, evictions, lost broadcasts and restarts
  Excluded     \* situations this instance leaves out, see Allowed

ASSUME LedgerAssumption ==
  /\ Pays \subseteq Txs /\ Local \subseteq Txs /\ Settled \subseteq Pays \ Local
  /\ DOMAIN Ins = Txs
  /\ \A t \in Local : Ins[t] \subseteq Pays
  /\ \A t \in Txs \ Settled : Ins[t] # {}
  /\ \A t \in Settled : Ins[t] \intersect Txs = {}
  /\ \A t, u \in Settled : t # u => Ins[t] \intersect Ins[u] = {}
  /\ "nobody" \notin Txs
  /\ MaxHeight \in Nat \ {0} /\ MaxFaults \in Nat

VARIABLES
  at,          \* height of each transaction in the chain, 0 if not in it
  tip,         \* height of the chain
  mempool,     \* what the network relays
  scanned,     \* the filter scan's height
  coins,       \* WatchSet: outputs of ours not spent yet
  seeded,      \* WatchSet: inputs of the rows that were unconfirmed when it was seeded
  held,        \* the scan waits for a reseed
  queue,       \* persistQueue: tasks in order
  row,         \* transactions: block_height, NoRow if none
  pushed,      \* transactions: rows that are local, recent and not instant locked
  spentIn,     \* transaction_outputs: spent_in_txid of our output
  spentAt,     \* transaction_outputs: spent_at_height, 0 if null
  cursor,      \* wallet_sync_state: cfilter_cursor_height
  call,        \* each local transaction's broadcastTransaction call
  faults       \* how many so far, and what reorgs orphaned

chain == <<at, tip, mempool>>
scan == <<scanned, coins, seeded, held>>
store == <<row, pushed, spentIn, spentAt, cursor>>
vars == <<chain, scan, queue, store, call, faults>>

NoRow == MaxHeight + 1
Pending == 0
Nobody == "nobody"

\* A bug for Offered: coins stay on offer until a block spends them.
Offered_UntilConfirmed == {i \in Pays : row[i] # NoRow /\ spentAt[i] = 0}

\* What getUtxos returns.
Offered == {i \in Pays : row[i] # NoRow /\ spentIn[i] = Nobody}

\* Outputs that unconfirmed rows spend: getUnconfirmedInputOutpoints.
UnconfirmedInputs == UNION {Ins[t] : t \in {u \in Txs : row[u] = Pending}}

Spends(i) == {t \in Txs : i \in Ins[t]}
Rivals(t) == {u \in Txs \ {t} : Ins[u] \intersect Ins[t] # {}}
InChain == {t \in Txs : at[t] > 0}

Init ==
  /\ at = [t \in Txs |-> IF t \in Settled THEN 1 ELSE 0]
  /\ tip = 1
  /\ mempool = {}
  /\ scanned = 1 /\ coins = Settled /\ seeded = {} /\ held = FALSE
  /\ queue = <<>>
  /\ row = [t \in Txs |-> IF t \in Settled THEN 1 ELSE NoRow]
  /\ pushed = {}
  /\ spentIn = [t \in Pays |-> Nobody]
  /\ spentAt = [t \in Pays |-> 0]
  /\ cursor = 1
  /\ call = [t \in Local |-> "idle"]
  /\ faults = [count |-> 0, orphaned |-> {}]

Fault ==
  /\ faults.count < MaxFaults
  /\ faults' = [faults EXCEPT !.count = @ + 1]

Allowed(situation, happens) == happens => situation \notin Excluded

-----------------------------------------------------------------------------
(* The network *)

\* What is left of a set of unconfirmed transactions when t confirms, or leaves:
\* no rival of t, nothing that spends what is gone.
Drop(set, gone) ==
  LET lost == set \intersect gone
      children == {u \in set : Ins[u] \intersect lost # {}}
  IN  set \ (gone \union children)

\* A transaction reaches mempools: a local one once it was sent.
Enter(t) ==
  /\ t \notin mempool \union InChain
  /\ t \in Local => call[t] \in {"sent", "answered"}
  /\ Ins[t] \intersect Txs \subseteq mempool \union InChain
  /\ Rivals(t) \intersect (mempool \union InChain) = {}
  /\ mempool' = mempool \union {t}
  /\ UNCHANGED <<at, tip, scan, queue, store, call, faults>>

\* A block carries a transaction of the mempool, or a rival the mempools we see
\* do not hold.
Mine(t) ==
  /\ tip < MaxHeight
  /\ t \in mempool \/ (t \notin Local \union InChain /\ Rivals(t) # {})
  /\ Ins[t] \intersect Txs \subseteq InChain
  /\ Rivals(t) \intersect InChain = {}
  /\ tip' = tip + 1
  /\ at' = [at EXCEPT ![t] = tip + 1]
  /\ mempool' = Drop(mempool, Rivals(t)) \ {t}
  /\ UNCHANGED <<scan, queue, store, call, faults>>

\* Mempools forget a transaction and what spends it, not within the seconds that
\* a broadcast takes.
Evict(t) ==
  /\ t \in mempool /\ Fault
  /\ t \in Local => call[t] = "idle"
  /\ mempool' = Drop(mempool, {t})
  /\ UNCHANGED <<at, tip, scan, queue, store, call>>

\* onChainRewound: the blocks above k are orphaned, the scan waits and main is
\* told.  Nodes keep the transactions, or do not.
Reorg(k) ==
  LET orphaned == {t \in Txs : at[t] > k} IN
  /\ k < tip /\ k >= 1
  /\ faults.count < MaxFaults
  /\ faults' = [count |-> faults.count + 1, orphaned |-> faults.orphaned \union orphaned]
  /\ tip' = k
  /\ at' = [t \in Txs |-> IF at[t] > k THEN 0 ELSE at[t]]
  /\ \/ mempool' = mempool \union orphaned
     \/ mempool' = {t \in mempool : Ins[t] \intersect orphaned = {}}
  /\ scanned' = IF scanned > k THEN k ELSE scanned
  /\ held' = TRUE
  /\ queue' = queue \o <<[type |-> "reset", height |-> k], [type |-> "rewind", height |-> k]>>
  /\ UNCHANGED <<coins, seeded, store, call>>

-----------------------------------------------------------------------------
(* The scan *)

\* WatchSet.applyBlock: the inputs that spend what is watched.
Matched(t) == Ins[t] \intersect (coins \union seeded)

\* A block that touches something of ours goes to the queue; at the tip the
\* cursor follows.
Scan ==
  LET h == scanned + 1
      ours == {t \in Txs : at[t] = h /\ (Matched(t) # {} \/ t \in Pays \ coins)}
      blocks == {<<[type |-> "block", height |-> h, tx |-> t, spends |-> Matched(t)]>> : t \in ours}
      done == IF h = tip THEN <<[type |-> "cursor", height |-> h]>> ELSE <<>>
  IN
  /\ ~held /\ scanned < tip
  /\ scanned' = h
  /\ \E block \in IF ours = {} THEN {<<>>} ELSE blocks : queue' = queue \o block \o done
  /\ coins' = (coins \ UNION {Ins[t] : t \in ours}) \union (ours \intersect Pays)
  /\ UNCHANGED <<chain, seeded, held, store, call, faults>>

\* onTx of the lock pool: a mempool transaction pays us, our own change included.
Incoming(t) ==
  /\ t \in mempool \intersect Pays
  /\ row[t] = NoRow /\ \A n \in DOMAIN queue : queue[n] # [type |-> "incoming", tx |-> t]
  /\ queue' = Append(queue, [type |-> "incoming", tx |-> t])
  /\ UNCHANGED <<chain, scan, store, call, faults>>
-----------------------------------------------------------------------------
(* TransactionDAO *)

\* A bug for Losers: nothing is displaced.
Losers_None(t, known) == {}

\* Pending rows that held a coin t now spends on the chain: conflicted.
Losers(t, known) ==
  {u \in Txs \ {t} : row[u] = Pending /\ \E i \in known : spentIn[i] = u}

\* Coins marked spent by t before it had a height.
Pinned(t) == {i \in Pays : spentIn[i] = t /\ spentAt[i] = 0}

\* abandonWithinTrx: the outputs of what is abandoned are gone, and the coins it
\* held pending are free; a confirmed spend is never freed.
Freed(losers, by, spent) ==
  {i \in Pays : i \in losers \/ (by[i] \in losers /\ spent[i] = 0)}

\* A bug for ApplyBlock: a row that is there stays as it was recorded.
ApplyBlock_Ignores(h, t, spends) ==
  LET known == {i \in spends \intersect Pays : row[i] # NoRow}
      losers == Losers(t, known)
      by == [i \in Pays |-> IF i \in known THEN t ELSE spentIn[i]]
      spent == [i \in Pays |-> IF i \in known \union Pinned(t) THEN h ELSE spentAt[i]]
      freed == Freed(losers, by, spent)
  IN
  /\ row' = [u \in Txs |-> IF u = t /\ row[t] = NoRow THEN h ELSE IF u \in losers THEN NoRow ELSE row[u]]
  /\ pushed' = pushed \ losers
  /\ spentIn' = [i \in Pays |-> IF i \in freed THEN Nobody ELSE by[i]]
  /\ spentAt' = [i \in Pays |-> IF i \in freed THEN 0 ELSE spent[i]]
  /\ cursor' = IF h > cursor THEN h ELSE cursor

\* applyBlock, one SQL transaction.
ApplyBlock(h, t, spends) ==
  LET known == {i \in spends \intersect Pays : row[i] # NoRow}
      losers == Losers(t, known)
      by == [i \in Pays |-> IF i \in known THEN t ELSE spentIn[i]]
      spent == [i \in Pays |-> IF i \in known \union Pinned(t) THEN h ELSE spentAt[i]]
      freed == Freed(losers, by, spent)
  IN
  /\ row' = [u \in Txs |-> IF u = t THEN h ELSE IF u \in losers THEN NoRow ELSE row[u]]
  /\ pushed' = pushed \ losers
  /\ spentIn' = [i \in Pays |-> IF i \in freed THEN Nobody ELSE by[i]]
  /\ spentAt' = [i \in Pays |-> IF i \in freed THEN 0 ELSE spent[i]]
  /\ cursor' = IF h > cursor THEN h ELSE cursor

\* recordPendingTx: an existing row stays as it is, and so does a recorded spend.
RecordPending(t, mine) ==
  /\ row' = [row EXCEPT ![t] = IF @ = NoRow THEN Pending ELSE @]
  /\ pushed' = IF row[t] = NoRow /\ mine THEN pushed \union {t} ELSE pushed
  /\ spentIn' = [i \in Pays |->
       IF i \in Ins[t] /\ row[i] # NoRow /\ spentIn[i] = Nobody THEN t ELSE spentIn[i]]
  /\ UNCHANGED <<spentAt, cursor>>

\* An hour passes, or an InstantLock is recorded: the row is past pushing again,
\* a reorg does not change that.
NoLongerPushed(t) ==
  /\ t \in pushed
  /\ pushed' = pushed \ {t}
  /\ UNCHANGED <<chain, scan, queue, row, spentIn, spentAt, cursor, call, faults>>

\* A bug for RewindRows: the spends of orphaned blocks stay.
RewindRows_KeepsSpends(k) ==
  /\ row' = [t \in Txs |-> IF row[t] \in (k + 1)..MaxHeight THEN Pending ELSE row[t]]
  /\ cursor' = IF cursor > k THEN k ELSE cursor
  /\ UNCHANGED <<pushed, spentIn, spentAt>>

\* rewindToHeight: orphaned rows are unconfirmed, orphaned spends undone.
RewindRows(k) ==
  /\ row' = [t \in Txs |-> IF row[t] \in (k + 1)..MaxHeight THEN Pending ELSE row[t]]
  /\ spentIn' = [i \in Pays |-> IF spentAt[i] > k THEN Nobody ELSE spentIn[i]]
  /\ spentAt' = [i \in Pays |-> IF spentAt[i] > k THEN 0 ELSE spentAt[i]]
  /\ cursor' = IF cursor > k THEN k ELSE cursor
  /\ UNCHANGED pushed

-----------------------------------------------------------------------------
(* The persist queue *)

\* What the worker is seeded with: getUtxos and getUnconfirmedInputOutpoints.
Seed ==
  /\ coins' = Offered'
  /\ seeded' = UnconfirmedInputs'

\* The head task.  A rewind ends with a reseed, which lets the scan go on.
Persist ==
  /\ queue # <<>>
  /\ queue' = Tail(queue)
  /\ LET task == Head(queue) IN
     \/ /\ task.type = "block"
        /\ ApplyBlock(task.height, task.tx, task.spends)
        /\ UNCHANGED <<coins, seeded, held>>
     \/ /\ task.type = "cursor"
        /\ cursor' = IF task.height > cursor THEN task.height ELSE cursor
        /\ UNCHANGED <<coins, seeded, held, row, pushed, spentIn, spentAt>>
     \/ /\ task.type = "reset"
        /\ cursor' = task.height
        /\ UNCHANGED <<coins, seeded, held, row, pushed, spentIn, spentAt>>
     \/ /\ task.type = "incoming"
        /\ RecordPending(task.tx, FALSE)
        /\ UNCHANGED <<coins, seeded, held>>
     \/ /\ task.type = "rewind"
        /\ RewindRows(task.height)
        /\ Seed /\ held' = FALSE
  /\ UNCHANGED <<chain, scanned, call, faults>>

\* The app dies and starts again: queue and calls are gone, the scan starts at
\* the cursor with what SQL holds.
Restart ==
  /\ Fault
  /\ queue' = <<>>
  /\ call' = [t \in Local |-> "idle"]
  /\ scanned' = IF cursor < tip THEN cursor ELSE tip
  /\ held' = FALSE
  /\ UNCHANGED store
  /\ Seed
  /\ UNCHANGED chain

-----------------------------------------------------------------------------
(* Sending *)

\* ensureReady of the p2p provider: the phase is synced.
Synced == scanned = tip /\ ~held

\* send up to the signed transaction: coins the wallet offers.
Build(t) ==
  /\ call[t] = "idle" /\ row[t] = NoRow
  /\ Synced /\ Ins[t] \subseteq Offered
  /\ call' = [call EXCEPT ![t] = "built"]
  /\ UNCHANGED <<chain, scan, queue, store, faults>>

\* broadcastTransaction posts it to the child.
Broadcast(t) ==
  /\ call[t] = "built"
  /\ call' = [call EXCEPT ![t] = "sent"]
  /\ UNCHANGED <<chain, scan, queue, store, faults>>

\* rebroadcastPending: a pending row that is still pushed is sent again.
Rebroadcast(t) ==
  /\ call[t] = "idle" /\ row[t] = Pending /\ t \in pushed
  /\ call' = [call EXCEPT ![t] = "sent"]
  /\ UNCHANGED <<chain, scan, queue, store, faults>>

\* The session's answer: a witness saw it in a mempool, or a lock came.
Answered(t) ==
  /\ call[t] = "sent" /\ t \in mempool \union InChain
  /\ call' = [call EXCEPT ![t] = "answered"]
  /\ UNCHANGED <<chain, scan, queue, store, faults>>

\* Or with pinned peers: delivered, which is no proof that it was taken.
Delivered(t) ==
  /\ call[t] = "sent"
  /\ call' = [call EXCEPT ![t] = "answered"]
  /\ UNCHANGED <<chain, scan, queue, store, faults>>

\* Or an error: timeout, reject, exit of the child, wherever the bytes went.
NotHeard(t) ==
  /\ call[t] = "sent" /\ Fault
  /\ call' = [call EXCEPT ![t] = "idle"]
  /\ UNCHANGED <<chain, scan, queue, store>>

\* A rebroadcast that fails changes nothing, and the next minute tries again.
NotHeardAgain(t) ==
  /\ call[t] = "sent" /\ row[t] # NoRow
  /\ call' = [call EXCEPT ![t] = "idle"]
  /\ UNCHANGED <<chain, scan, queue, store, faults>>

\* recordOptimisticSpend, past the persist queue.
Record(t) ==
  /\ call[t] = "answered"
  /\ RecordPending(t, TRUE)
  /\ call' = [call EXCEPT ![t] = "idle"]
  /\ UNCHANGED <<chain, scan, queue, faults>>

\* Or another wallet was selected meanwhile: its ledger gets the record.
RecordElsewhere(t) ==
  /\ call[t] = "answered" /\ Fault
  /\ call' = [call EXCEPT ![t] = "idle"]
  /\ UNCHANGED <<chain, scan, queue, store>>
-----------------------------------------------------------------------------
(* Situations an instance can leave out *)

Rewinding == \E n \in DOMAIN queue : queue[n].type = "rewind"
Calling == \E t \in Local : call[t] # "idle"
\* The network has a transaction the ledger will not know after a restart.
Unsaved == \E t \in Local : call[t] \in {"sent", "answered"} /\ t \in mempool \union InChain /\ row[t] = NoRow
Sent == {t \in Local : call[t] # "idle" \/ row[t] = Pending}
\* Somebody took the coins of t before it was recorded.
Lost(t) == Rivals(t) \intersect (InChain \union faults.orphaned \union Sent) # {}
\* A rival of something a transaction of ours builds on.
Undercuts(t) == \E u \in Rivals(t), v \in Sent : u \in Ins[v]

Next ==
  \/ \E t \in Txs :
       \/ Allowed("rival of a parent", Undercuts(t)) /\ Enter(t)
       \/ /\ Allowed("rival of a parent", Undercuts(t))
          /\ Allowed("rival of an orphan", Rivals(t) \intersect faults.orphaned # {})
          /\ Mine(t)
       \/ Evict(t)
       \/ Allowed("own change noticed", t \in Local) /\ Incoming(t)
  \/ \E k \in 1..MaxHeight : 
       /\ Allowed("reorg ahead of the scan", scanned < k)
       /\ Allowed("reorg while one is unsaved", Rewinding)
       /\ Reorg(k)
  \/ Scan
  \/ /\ Allowed("record of a loser", queue # <<>> /\ Head(queue).type = "incoming" /\ Lost(Head(queue).tx))
     /\ Persist
  \/ /\ Allowed("restart with a rewind unsaved", Rewinding)
     /\ Allowed("restart with a record unsaved", Unsaved)
     /\ Restart
  \/ \E t \in Local :
       \/ /\ Allowed("send beside a send", Calling)
          /\ Allowed("rival of an orphan", Rivals(t) \intersect faults.orphaned # {})
          /\ Build(t)
       \/ Broadcast(t) \/ Rebroadcast(t) \/ NoLongerPushed(t) \/ Answered(t)
       \/ Allowed("pinned peers", row[t] = NoRow /\ t \notin mempool \union InChain) /\ Delivered(t)
       \/ Allowed("unheard of success", t \in mempool \union InChain) /\ NotHeard(t)
       \/ NotHeardAgain(t)
       \/ Allowed("record of a loser", Lost(t)) /\ Record(t)
       \/ Allowed("another wallet selected", row[t] = NoRow) /\ RecordElsewhere(t)

Spec == Init /\ [][Next]_vars

\* Blocks come, the scan and the queue go on, and so do calls, which end one way
\* or the other, and the rebroadcasts of every minute.
FairSpec ==
  /\ Spec
  /\ WF_vars(Scan) /\ WF_vars(Persist)
  /\ \A t \in Txs : WF_vars(t \in mempool /\ Mine(t))
  /\ \A t \in Local :
       /\ WF_vars(Broadcast(t)) /\ WF_vars(Answered(t)) /\ WF_vars(Record(t))
       /\ WF_vars(Rebroadcast(t)) /\ WF_vars(NotHeardAgain(t)) /\ SF_vars(Enter(t))

-----------------------------------------------------------------------------
(* Properties *)

Caught == Synced /\ queue = <<>>

TypeOK ==
  /\ at \in [Txs -> 0..MaxHeight] /\ tip \in 1..MaxHeight
  /\ mempool \subseteq Txs \ InChain
  /\ scanned \in 0..tip /\ coins \subseteq Pays /\ held \in BOOLEAN
  /\ row \in [Txs -> 0..NoRow]
  /\ pushed \subseteq {t \in Local : row[t] # NoRow}
  /\ spentIn \in [Pays -> Txs \union {Nobody}]
  /\ spentAt \in [Pays -> 0..MaxHeight]
  /\ \A i \in Pays : spentAt[i] > 0 => spentIn[i] # Nobody
  /\ cursor \in 0..MaxHeight
  /\ call \in [Local -> {"idle", "built", "sent", "answered"}]

\* A coin that is not offered although no block spends it is held by a row that
\* is still pending and really spends it: no coin is lost to a row that is gone.
HeldByPending ==
  \A i \in Pays :
    spentIn[i] # Nobody /\ spentAt[i] = 0
      => row[i] # NoRow /\ row[spentIn[i]] = Pending /\ i \in Ins[spentIn[i]]

Ours(t) == t \in Pays \/ Ins[t] \intersect Pays # {}

\* When the scan has caught up, the confirmed rows are the transactions of ours
\* in the chain, at their heights, whatever was recorded early or orphaned.
RowsAreChain ==
  Caught => \A t \in Txs :
    /\ row[t] \in 1..MaxHeight => at[t] = row[t]
    /\ Ours(t) /\ at[t] > 0 => row[t] = at[t]

\* And a coin is marked spent by a confirmed transaction exactly if that
\* transaction is in the chain and spends it.
SpendsAreChain ==
  Caught => \A i \in Pays : row[i] # NoRow =>
    /\ spentAt[i] > 0 => spentIn[i] \in InChain /\ i \in Ins[spentIn[i]] /\ spentAt[i] = at[spentIn[i]]
    /\ \A t \in Spends(i) \intersect InChain : spentIn[i] = t /\ spentAt[i] = at[t]

\* SQL is a function of the chain and of what is pending, once the queue has
\* drained, whatever was recorded early, orphaned or displaced on the way
\* (applyBlock, rewindToHeight, recordPendingTx); and no coin is held by a row
\* that is gone.
LedgerIsChain == TypeOK /\ HeldByPending /\ RowsAreChain /\ SpendsAreChain

\* Whatever lost its coins to another transaction of the chain is dropped: it
\* neither holds coins nor offers change that will never exist.
NoGhost ==
  Caught => \A t \in Txs : row[t] = Pending =>
    /\ Rivals(t) \intersect InChain = {}
    /\ \A i \in Ins[t] \intersect Txs : Rivals(i) \intersect InChain = {}

\* The wallet never has two transactions of its own out that spend one coin,
\* unless one of them has already lost to somebody else's.
OneSpender ==
  \A t, u \in Local :
    t # u /\ Ins[t] \intersect Ins[u] # {} /\ t \in Sent /\ u \in Sent
      => ((Rivals(t) \union Rivals(u)) \ Local) \intersect (InChain \union faults.orphaned) # {}

\* Nobody knows of t any more, and it is not sent again: it stays pending, and so
\* does what spends its change.
Forsaken(t) ==
  /\ row[t] = Pending /\ t \notin pushed
  /\ t \notin mempool \union InChain /\ Rivals(t) \intersect InChain = {}
  /\ call[t] = "idle"
ForsakenParent(t) == \E u \in Ins[t] \intersect Local : Forsaken(u)

\* A broadcast that was recorded ends: confirmed, or displaced and dropped, also
\* when mempools forget it meanwhile and as long as it is pushed again.
PendingSettles ==
  \A t \in Local : row[t] = Pending ~> (row[t] # Pending \/ Forsaken(t) \/ ForsakenParent(t))
=============================================================================
