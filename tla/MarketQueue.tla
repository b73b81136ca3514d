---------------------------- MODULE MarketQueue ----------------------------
(***************************************************************************)
(* The listing queues of the auction (marketapp_queue.go,                   *)
(* marketapp_rejection.go, marketapp_source.go and the auction half of      *)
(* marketapp_plan.go).                                                      *)
(*                                                                         *)
(* Items wait in the normal or in the special queue; a round takes from     *)
(* both, lists what the database does not hold, and moves what the service  *)
(* refuses to the rejected queue, from which only every RetryEvery-th round *)
(* takes a few.  A round is one job under jobMu; the feedback of its        *)
(* workers, the queue resets of the policy and of the commands, and the     *)
(* files the candidates come from interleave with it at every unlock of     *)
(* stateMu.                                                                 *)
(***************************************************************************)
EXTENDS Integers, Sequences, FiniteSets, SequencesExt

CONSTANTS Items,           \* item ids, numbers in the order sortCatalogAuctionIDs gives
          Special,         \* those with a specialAuctionKind
          Seed,            \* those of the embedded fallback list
          Records,         \* records one row may ask for (auctionTargetRecords)
          Limits,          \* MaxActions of the rounds; 0 is the full gap
          DefaultMax,      \* defaultMarketMaxActions
          RetryEvery,      \* auctionRejectedRetryEvery
          RetryDivisor,    \* auctionRejectedRetryDivisor
          SpecialDivisor,  \* auctionSpecialBudgetDivisor
          Workers,         \* executors of a job
          Changes,         \* of "catalog", "iteminfo", "filter": what may change while running
          MaxDisturb       \* bound on sales, losses, resets, cancellations, changes and given items

ASSUME QueueAssumption ==
    /\ Items \subseteq Nat \ {0} /\ IsFiniteSet(Items)
    /\ Special \subseteq Items /\ Seed \subseteq Items
    /\ Records \subseteq Nat \ {0} /\ Limits \subseteq Nat
    /\ {DefaultMax, RetryEvery, RetryDivisor, SpecialDivisor, Workers} \subseteq Nat \ {0}
    /\ Changes \subseteq {"catalog", "iteminfo", "filter"} /\ MaxDisturb \in Nat

VARIABLES
    queue, special, rejected,  \* auctionQueue, auctionSpecialQueue, auctionRejected
    meta,                      \* keys of auctionRejectedMeta
    tick,                      \* auctionRejectedTick
    source,                    \* auctionQueueSource
    catalog, iteminfo,         \* the exported catalogue and iteminfo.dat can be read
    listed,                    \* items the configured filters allow
    stock, landing,            \* items in auction_main; acknowledged and not yet there
    pc,                        \* the job: "idle", "reload", "apply", "select", "exec"
    pvfReady, have, max,       \* what the job has loaded: catalogue, stock, its limit
    candidates,                \* [normal, special, source], between reading and applying
    actions,                   \* the records still to be sent, by item
    refused,                   \* history: refused, and since then neither stocked nor reset
    left                       \* disturbances left

queues == <<queue, special, rejected, meta, tick, source>>
files == <<catalog, iteminfo, listed>>
db == <<stock, landing>>
locals == <<pvfReady, have, max, candidates>>
vars == <<queues, files, db, pc, locals, actions, refused, left>>

NoCandidates == [normal |-> <<>>, special |-> <<>>, source |-> ""]

Init ==
    /\ queue = <<>> /\ special = <<>> /\ rejected = <<>>
    /\ meta = {} /\ tick = 0 /\ source = ""
    /\ catalog \in BOOLEAN /\ listed = Items
    /\ iteminfo \in IF "iteminfo" \in Changes THEN BOOLEAN ELSE {TRUE}
    /\ stock = {} /\ landing = {}
    /\ pc = "idle" /\ pvfReady = FALSE /\ have = {} /\ max = 0
    /\ candidates = NoCandidates /\ actions = <<>>
    /\ refused = {} /\ left = MaxDisturb

-----------------------------------------------------------------------------
(* Candidates and rows *)

Sorted(S) == SetToSortSeq(S, <)
Without(s, S) == SelectSeq(s, LAMBDA i : i \notin S)
Within(s, S) == SelectSeq(s, LAMBDA i : i \in S)

\* What a reload finds: nothing while iteminfo.dat cannot be read.
AuctionQueueCandidates ==
    IF ~pvfReady
    THEN [normal |-> Sorted(Seed), special |-> <<>>, source |-> "fallback"]
    ELSE IF ~iteminfo
    THEN [normal |-> <<>>, special |-> <<>>, source |-> "pvf_iteminfo_missing"]
    ELSE [normal |-> Sorted(listed \ Special), special |-> Sorted(listed \cap Special),
          source |-> "pvf_iteminfo"]

\* The items for which a round gets a row.
RowFor == IF pvfReady THEN listed ELSE Seed

QueueNeedsReload ==
    \/ queue = <<>> /\ special = <<>>
    \/ pvfReady /\ source # "pvf_iteminfo"

-----------------------------------------------------------------------------
(* Budgets and passes *)

AtLeastOne(n) == IF n <= 0 THEN 1 ELSE n
AtMost(n, m) == IF n > m THEN m ELSE n

RetryDue(rej) == rej # <<>> /\ tick + 1 >= RetryEvery

\* A budget that forgets the cooldown in full-gap rounds.
RejectedRetryBudgetFullGap(rej, limit) ==
    IF max = 0 THEN limit
    ELSE IF RetryDue(rej) THEN AtMost(AtLeastOne(limit \div RetryDivisor), limit) ELSE 0

RejectedRetryBudget(rej, limit) ==
    IF RetryDue(rej) THEN AtMost(AtLeastOne(limit \div RetryDivisor), limit) ELSE 0

\* A budget of 0 means "no ceiling" for the normal and the special queue.
QueueBudget(rej, spec) ==
    IF max = 0
    THEN [normal |-> 0, special |-> 0, rejected |-> RejectedRetryBudget(rej, DefaultMax)]
    ELSE LET r == RejectedRetryBudget(rej, max)
             s == IF spec # <<>> /\ max - r > 1
                  THEN AtLeastOne((max - r) \div SpecialDivisor) ELSE 0
         IN [normal |-> max - r - s, special |-> s, rejected |-> r]

\* A pass that forgets the items over the ceiling.
SelectRowsDropping(q, ceiling, recs) ==
    LET Takes(i, planned) ==
            /\ i \notin have /\ i \in RowFor
            /\ ceiling = 0 \/ planned = 0 \/ planned + recs[i] <= ceiling
        planned[k \in 0..Len(q)] ==
            IF k = 0 THEN 0
            ELSE planned[k-1] + (IF Takes(q[k], planned[k-1]) THEN recs[q[k]] ELSE 0)
        taken == {q[k] : k \in {j \in 1..Len(q) : Takes(q[j], planned[j-1])}}
    IN [rows |-> Within(q, taken), queue |-> Within(q, taken \cup have)]

\* One pass over q: stocked items and items over the ceiling rotate to the back,
\* items without a row leave, and the pass ends when the ceiling is reached.
SelectRows(q, ceiling, recs) ==
    LET Takes(i, planned) ==
            /\ i \notin have /\ i \in RowFor
            /\ ceiling = 0 \/ planned = 0 \/ planned + recs[i] <= ceiling
        planned[k \in 0..Len(q)] ==
            IF k = 0 THEN 0
            ELSE planned[k-1] + (IF Takes(q[k], planned[k-1]) THEN recs[q[k]] ELSE 0)
        full == {k \in 1..Len(q) : ceiling > 0 /\ planned[k] >= ceiling}
        last == IF full = {} THEN Len(q) ELSE Min(full)
        taken == {q[k] : k \in {j \in 1..last : Takes(q[j], planned[j-1])}}
        seen == SubSeq(q, 1, last)
    IN [rows |-> Within(seen, taken),
        queue |-> SubSeq(q, last + 1, Len(q)) \o Within(seen, have \cup RowFor)]

\* The actions of the selected rows, one per record.
RowActions(rows, recs) ==
    FlattenSeq([k \in 1..Len(rows) |-> [j \in 1..recs[rows[k]] |-> rows[k]]])

LimitActions(as) == IF max > 0 /\ Len(as) > max THEN SubSeq(as, 1, max) ELSE as

-----------------------------------------------------------------------------
(* The job *)

\* A bounded event outside the rounds of the loop.
Disturb == left > 0 /\ left' = left - 1

\* The job reads the catalogue, the stock and its limit.
PlanBegin ==
    /\ pc = "idle"
    /\ pvfReady' = catalog /\ have' = stock
    /\ max' \in Limits
    /\ pc' = "reload"
    /\ UNCHANGED <<queues, files, db, candidates, actions, refused, left>>

PlanReload ==
    /\ pc = "reload"
    /\ IF QueueNeedsReload
       THEN /\ candidates' = AuctionQueueCandidates
            /\ pc' = "apply"
       ELSE /\ pc' = "select"
            /\ UNCHANGED candidates
    /\ UNCHANGED <<queues, files, db, pvfReady, have, max, actions, refused, left>>

\* Filled queues are replaced only by the first load from the catalogue.
KeepsQueues ==
    /\ queue # <<>> \/ special # <<>>
    /\ candidates.source # "pvf_iteminfo" \/ source = "pvf_iteminfo"

\* A reload that puts rejected items back among the others.
ApplyCandidatesAll ==
    /\ rejected' = Within(rejected, Range(candidates.normal) \cup Range(candidates.special))
    /\ meta' = meta \cap Range(rejected')
    /\ queue' = candidates.normal /\ special' = candidates.special
    /\ source' = candidates.source

ApplyCandidates ==
    LET ids == Range(candidates.normal) \cup Range(candidates.special)
        rej == Within(rejected, ids)
    IN /\ rejected' = rej
       /\ meta' = meta \cap Range(rej)
       /\ queue' = Without(candidates.normal, Range(rej))
       /\ special' = Without(candidates.special, Range(rej))
       /\ source' = candidates.source

PlanApply ==
    /\ pc = "apply"
    /\ IF KeepsQueues THEN UNCHANGED <<queue, special, rejected, meta, source>>
                      ELSE ApplyCandidates
    /\ pc' = "select"
    /\ candidates' = NoCandidates
    /\ UNCHANGED <<tick, files, db, pvfReady, have, max, actions, refused, left>>

\* Rejected items that are in stock go back to their queue.
Returned == IF have = {} THEN {} ELSE Range(rejected) \cap have
ToSpecial == IF pvfReady THEN Returned \cap Special ELSE {}
Append2(q, S) == q \o Without(Within(rejected, S), Range(q))

PlanSelect ==
    /\ pc = "select"
    /\ \E recs \in [Items -> Records] :
        LET rej == Without(rejected, Returned)
            norm == Append2(queue, Returned \ ToSpecial)
            spec == Append2(special, ToSpecial)
            budget == QueueBudget(rej, spec)
            Skip(q) == [rows |-> <<>>, queue |-> q]
            ps == IF max = 0 \/ budget.special # 0
                  THEN SelectRows(spec, budget.special, recs) ELSE Skip(spec)
            pn == SelectRows(norm, budget.normal, recs)
            pr == IF budget.rejected # 0
                  THEN SelectRows(rej, budget.rejected, recs) ELSE Skip(rej)
        IN /\ queue' = pn.queue /\ special' = ps.queue /\ rejected' = pr.queue
           /\ tick' = IF rej = <<>> \/ RetryDue(rej) THEN 0 ELSE tick + 1
           /\ actions' = LimitActions(RowActions(ps.rows \o pn.rows \o pr.rows, recs))
    /\ meta' = meta \ Returned
    /\ refused' = refused \ have
    /\ pc' = "exec"
    /\ UNCHANGED <<source, files, db, locals, left>>

\* A job for given items leaves the queues alone and ignores the filters.
PlanTarget ==
    /\ Disturb
    /\ pc = "reload"
    /\ \E ids \in SUBSET Items :
        LET rows == IF pvfReady THEN ids ELSE ids \cap Seed
        IN actions' = IF pvfReady /\ ~iteminfo THEN <<>>
                      ELSE LimitActions(Sorted(rows \ have))
    /\ pc' = "exec"
    /\ refused' = refused \ Range(actions')
    /\ UNCHANGED <<queues, files, db, locals>>

\* One of the records in flight is answered: acknowledged, or refused or failed.
Answered(k) == actions' = RemoveAt(actions, k)

ActionOK ==
    /\ pc = "exec"
    /\ \E k \in 1..AtMost(Len(actions), Workers) :
        /\ landing' = landing \cup {actions[k]}
        /\ Answered(k)
    /\ UNCHANGED <<queues, files, stock, pc, locals, refused, left>>

MarkRejected(i) ==
    /\ queue' = Without(queue, {i})
    /\ special' = Without(special, {i})
    /\ rejected' = IF Contains(rejected, i) THEN rejected ELSE Append(rejected, i)
    /\ meta' = meta \cup {i}

ActionRefused ==
    /\ pc = "exec"
    /\ \E k \in 1..AtMost(Len(actions), Workers) :
        /\ MarkRejected(actions[k])
        /\ refused' = refused \cup {actions[k]}
        /\ Answered(k)
    /\ UNCHANGED <<tick, source, files, db, pc, locals, left>>

JobEnd ==
    /\ pc = "exec" /\ actions = <<>>
    /\ pc' = "idle"
    /\ have' = {} /\ max' = 0 /\ pvfReady' = FALSE
    /\ UNCHANGED <<queues, files, db, candidates, actions, refused, left>>

-----------------------------------------------------------------------------
(* Around the job *)

\* Cancelled, or stopped by the first failure: the rest is not sent.
Cancel ==
    /\ Disturb
    /\ pc = "exec" /\ actions # <<>>
    /\ actions' = <<>>
    /\ UNCHANGED <<queues, files, db, pc, locals, refused>>

\* The policy, a clear, a rebuild or an ItemInfo sync starts over.
ResetAuctionQueues ==
    /\ Disturb
    /\ queue' = <<>> /\ special' = <<>> /\ rejected' = <<>>
    /\ meta' = {} /\ tick' = 0 /\ source' = ""
    /\ refused' = {}
    /\ UNCHANGED <<files, db, pc, locals, actions>>

\* The auction service writes what it acknowledged, late; or never does.
Land ==
    /\ landing # {}
    /\ \E i \in landing : landing' = landing \ {i} /\ stock' = stock \cup {i}
    /\ UNCHANGED <<queues, files, pc, locals, actions, refused, left>>

Lose ==
    /\ Disturb
    /\ \E i \in landing : landing' = landing \ {i}
    /\ UNCHANGED <<queues, files, stock, pc, locals, actions, refused>>

\* Players buy, or the collector takes back, the last record of an item.
Sell ==
    /\ Disturb
    /\ \E i \in stock : stock' = stock \ {i}
    /\ UNCHANGED <<queues, files, landing, pc, locals, actions, refused>>

\* Files appear, and, where allowed, become unreadable or change.
FilesAppear ==
    /\ ~(catalog /\ iteminfo)
    /\ catalog' \in {catalog, TRUE} /\ iteminfo' \in {iteminfo, TRUE}
    /\ <<catalog, iteminfo>>' # <<catalog, iteminfo>>
    /\ UNCHANGED <<queues, listed, db, pc, locals, actions, refused, left>>

FilesChange ==
    /\ Disturb
    /\ \/ "catalog" \in Changes /\ catalog /\ catalog' = FALSE /\ UNCHANGED <<iteminfo, listed>>
       \/ "iteminfo" \in Changes /\ iteminfo /\ iteminfo' = FALSE /\ UNCHANGED <<catalog, listed>>
       \/ /\ "filter" \in Changes
          /\ \E i \in Items : listed' \in {listed \ {i}, listed \cup {i}} \ {listed}
          /\ UNCHANGED <<catalog, iteminfo>>
    /\ UNCHANGED <<queues, db, pc, locals, actions, refused>>

Job == \/ PlanBegin \/ PlanReload \/ PlanApply \/ PlanSelect
       \/ ActionOK \/ ActionRefused \/ JobEnd

Next == \/ Job \/ PlanTarget
        \/ Cancel \/ ResetAuctionQueues \/ Land \/ Lose \/ Sell
        \/ FilesAppear \/ FilesChange

Spec == Init /\ [][Next]_vars

\* The loop runs round after round, every action is answered or fails by its
\* timeout, and the service writes what it acknowledged and did not lose.
FairSpec == Spec /\ WF_vars(Job) /\ WF_vars(Land)

-----------------------------------------------------------------------------
(* Properties *)

\* The variables hold what their declarations say; tick never reaches RetryEvery
\* between rounds (auctionQueueSnapshotLocked shows RetryEvery - tick as a wait).
TypeOK ==
    /\ {queue, special, rejected, actions} \subseteq Seq(Items)
    /\ {meta, listed, stock, landing, have, refused} \subseteq SUBSET Items
    /\ tick \in 0..(RetryEvery - 1)
    /\ source \in {"", "fallback", "pvf_iteminfo", "pvf_iteminfo_missing"}
    /\ {catalog, iteminfo, pvfReady} \subseteq BOOLEAN
    /\ pc \in {"idle", "reload", "apply", "select", "exec"}
    /\ max \in Limits \cup {0} /\ left \in 0..MaxDisturb

\* An item waits in one place: it is never twice in the queues, whatever the
\* order of refusals, stock seen, reloads and resets; and a rejected item always
\* has its record (reason and count) in auctionRejectedMeta.
OnePlace ==
    /\ IsInjective(queue \o special \o rejected)
    /\ Range(rejected) \subseteq meta

\* While the queues come from the catalogue, no allowed item falls out of them:
\* what a round skips, lists or has refused is still in one of the three.
NoneLost ==
    source = "pvf_iteminfo" => listed \subseteq Range(queue \o special \o rejected)

\* What the service refused is listed again only by every RetryEvery-th round, and
\* then at most the rejected budget's rows (auctionRejectedRetryBudgetLocked), unless
\* the item has been seen in stock, named explicitly, or the queues were reset.
RetryRound ==
    LET again == Range(actions') \cap refused'
        limit == IF max = 0 THEN DefaultMax ELSE max
    IN again # {} => /\ tick = RetryEvery - 1 /\ tick' = 0
                     /\ Cardinality(again) <= AtLeastOne(limit \div RetryDivisor)

RetryRounds == [][PlanSelect => RetryRound]_vars

\* Once the files can be read for good, every allowed item is in stock again and
\* again, or is listed again and again: no queue and no item is starved.
EveryItemTried ==
    <>[](catalog /\ iteminfo) =>
        \A i \in Items : []<>(i \in stock \cup Range(actions) \/ i \notin listed)
=============================================================================
