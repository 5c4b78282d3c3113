--------------------------- MODULE NavPublication ---------------------------
(***************************************************************************)
(* Valuations of a security token: a publisher drafts one, publishes it in *)
(* the oracle on chain (NAVOracle) and reports the transaction; the server *)
(* copies the oracle's events into its database (services/nav.ts).         *)
(*                                                                         *)
(* There is no indexer of its own: every request that reads valuations     *)
(* first runs syncNavOracleHistory, so as many copies run at once as there *)
(* are requests.  One action is what a handler does between two awaits.    *)
(* Figures are left out; a block is a unit of time.                        *)
(***************************************************************************)
EXTENDS Naturals, Sequences, FiniteSetsExt

CONSTANTS
  Handlers,            \* requests that the server serves at once
  Marks,               \* the statuses an administrator sets
  Interval,            \* minAttestationInterval, in blocks
  MaxAttestations,     \* bound: attestations on chain
  MaxBlock,            \* bound: blocks
  MaxDrafts,           \* bound: drafts at once
  MaxWrites            \* bound: transactions reported, here or for another token, statuses set by hand

ASSUME NavAssumption ==
  /\ MaxAttestations \in Nat /\ MaxBlock \in Nat /\ MaxWrites \in Nat /\ Interval \in Nat
  /\ MaxDrafts \in Nat
  /\ Marks \subseteq {"DISPUTED", "PUBLISHED", "SUPERSEDED"}

Indexes == 1 .. MaxAttestations

VARIABLES
  block,       \* the chain's height
  chain,       \* the oracle's attestations, each the block it was mined in
  rows,        \* the status of the row of an attestation
  detailed,    \* attestations whose rows have the publisher's asset breakdown
  drafts,      \* how many drafts there are
  indexed,     \* lastIndexedBlock, 0 if it is null
  handlers,    \* the handlers' progress and locals
  writes

stored == <<rows, detailed, drafts, indexed>>
vars == <<block, chain, stored, handlers, writes>>

Idle == [op |-> "none", at |-> "idle", target |-> 0, mark |-> "none", from |-> 0, count |-> 0,
         upto |-> 0, todo |-> {}, latest |-> 0, since |-> 0, raced |-> FALSE]

Init ==
  /\ block = 0 /\ chain = <<>>
  /\ rows = [i \in Indexes |-> "none"]
  /\ detailed = {} /\ drafts = 0 /\ indexed = 0
  /\ handlers = [h \in Handlers |-> Idle]
  /\ writes = 0

Rows == {i \in Indexes : rows[i] # "none"}

\* The row with the highest index that is published; 0 if there is none.
Current == Max({0} \cup {i \in Rows : rows[i] = "PUBLISHED"})

-----------------------------------------------------------------------------
(* The chain *)

Tick ==
  /\ block < MaxBlock
  /\ block' = block + 1
  /\ UNCHANGED <<chain, stored, handlers, writes>>

\* publishNAV: an interval after the attestation before, drafted or not.
PublishNAV ==
  /\ block < MaxBlock /\ Len(chain) < MaxAttestations
  /\ chain # <<>> => block + 1 >= chain[Len(chain)] + Interval
  /\ block' = block + 1
  /\ chain' = Append(chain, block + 1)
  /\ UNCHANGED <<stored, handlers, writes>>

-----------------------------------------------------------------------------
(* Handlers *)

\* A reader that is raced is not asked how new its answer is.
Races(x) == IF x.op = "read" THEN [x EXCEPT !.raced = TRUE, !.since = 0] ELSE x

\* h goes on; if it wrote rows, it raced the readers.
Step(h, local, wrote) ==
  handlers' = [g \in Handlers |->
    IF g = h THEN local ELSE IF wrote THEN Races(handlers[g]) ELSE handlers[g]]

GoTo(h, at) == Step(h, [handlers[h] EXCEPT !.at = at], FALSE)

\* GET current, history, attestation or holder-value; POST attestation, with
\* the transaction of attestation i; PATCH of the status of attestation i.
Begin(h, op, i, m) ==
  /\ handlers[h].at = "idle"
  /\ LET race == op = "read" /\ \E g \in Handlers : handlers[g].at # "idle" IN
     Step(h, [Idle EXCEPT !.op = op, !.target = i, !.mark = m, !.raced = race,
              !.since = IF op = "read" /\ ~ race THEN Len(chain) ELSE 0,
              !.at = IF op = "finalize" THEN "validate" ELSE "sync"], FALSE)
  /\ UNCHANGED <<block, chain, stored>>

BeginAny(h) ==
  \/ Begin(h, "read", 0, "none") /\ UNCHANGED writes
  \/ /\ writes < MaxWrites /\ writes' = writes + 1
     /\ \E i \in 1 .. Len(chain) :
          \/ Begin(h, "finalize", i, "none")
          \/ \E m \in Marks : Begin(h, "patch", i, m)

\* The interval is asked of the newest row that is published, be it the one
\* that is about to be finalized.
TooEarly == Current # 0 /\ block < chain[Current] + Interval

\* validateNavAttestationInput.
Validate(h) ==
  /\ handlers[h].at = "validate"
  /\ IF TooEarly THEN Step(h, Idle, FALSE) ELSE GoTo(h, "sync")
  /\ UNCHANGED <<block, chain, stored, writes>>

\* POST attestation/draft, which makes the same checks.
CreateNavDraft ==
  /\ ~ TooEarly
  /\ drafts < MaxDrafts
  /\ drafts' = drafts + 1
  /\ UNCHANGED <<block, chain, rows, detailed, indexed, handlers, writes>>

-----------------------------------------------------------------------------
(* syncNavOracleHistory *)

SyncRegistration(h) ==
  /\ handlers[h].at = "sync"
  /\ Step(h, [handlers[h] EXCEPT !.at = "count", !.from = indexed + 1], FALSE)
  /\ UNCHANGED <<block, chain, stored, writes>>

SyncCount(h) ==
  /\ handlers[h].at = "count"
  /\ Step(h, [handlers[h] EXCEPT !.at = "height", !.count = Len(chain)], FALSE)
  /\ UNCHANGED <<block, chain, stored, writes>>

SyncHeight(h) ==
  /\ handlers[h].at = "height"
  /\ Step(h, [handlers[h] EXCEPT !.upto = block,
              !.at = IF handlers[h].count = 0 THEN "empty" ELSE "logs"], FALSE)
  /\ UNCHANGED <<block, chain, stored, writes>>

\* What the handler does once the rows are in order.
AfterSync(h) ==
  CASE handlers[h].op = "finalize"  -> [handlers[h] EXCEPT !.at = "store", !.upto = 0, !.latest = 0]
    [] handlers[h].op = "finalized" -> Idle
    [] OTHER -> [handlers[h] EXCEPT !.at = "answer", !.upto = 0, !.latest = 0]

SyncEmpty(h) ==
  /\ handlers[h].at = "empty"
  /\ indexed' = handlers[h].upto
  /\ Step(h, AfterSync(h), FALSE)
  /\ UNCHANGED <<block, chain, rows, detailed, drafts, writes>>

\* The events of blocks lo to hi; blocks once mined do not change.
LogsIn(lo, hi) == {i \in 1 .. Len(chain) : chain[i] \in lo .. hi}

\* Variant: the missing rows are not looked for.
FoundFromLast(h) == LogsIn(handlers[h].from, handlers[h].upto)

\* If nothing is new and rows are missing, everything is read again.
Found(h) ==
  LET new == LogsIn(handlers[h].from, handlers[h].upto) IN
  IF new = {} /\ Cardinality(Rows) < handlers[h].count
  THEN LogsIn(0, handlers[h].upto) ELSE new

SyncLogs(h) ==
  /\ handlers[h].at = "logs"
  /\ Step(h, [handlers[h] EXCEPT !.at = "upsert", !.todo = Found(h), !.from = 0, !.count = 0], FALSE)
  /\ UNCHANGED <<block, chain, stored, writes>>

\* upsertAttestationFromEvent, one event after the other.
SyncUpsert(h) ==
  /\ handlers[h].at = "upsert" /\ handlers[h].todo # {}
  /\ LET i == Min(handlers[h].todo) IN
     /\ rows' = [rows EXCEPT ![i] = "PUBLISHED"]
     /\ Step(h, [handlers[h] EXCEPT !.todo = @ \ {i}], TRUE)
  /\ UNCHANGED <<block, chain, detailed, drafts, indexed, writes>>

SyncIndexed(h) ==
  /\ handlers[h].at = "upsert" /\ handlers[h].todo = {}
  /\ indexed' = handlers[h].upto
  /\ Step(h, [handlers[h] EXCEPT !.at = "latest", !.upto = 0], FALSE)
  /\ UNCHANGED <<block, chain, rows, detailed, drafts, writes>>

-----------------------------------------------------------------------------
(* markSupersededAttestations *)

MarkLatest(h) ==
  /\ handlers[h].at = "latest"
  /\ IF Rows = {} THEN Step(h, AfterSync(h), FALSE)
     ELSE Step(h, [handlers[h] EXCEPT !.at = "mark", !.latest = Max(Rows)], FALSE)
  /\ UNCHANGED <<block, chain, stored, writes>>

\* Variant: the older rows keep their statuses.
MarkedLatest(l) == [rows EXCEPT ![l] = "PUBLISHED"]

Marked(l) ==
  [i \in Indexes |-> IF i = l THEN "PUBLISHED"
                     ELSE IF rows[i] = "PUBLISHED" THEN "SUPERSEDED" ELSE rows[i]]

\* One transaction, on the row that was the latest when it was asked; if that
\* row is gone, it fails.
MarkSuperseded(h) ==
  /\ handlers[h].at = "mark"
  /\ IF handlers[h].latest \in Rows
     THEN rows' = Marked(handlers[h].latest) /\ Step(h, AfterSync(h), TRUE)
     ELSE Step(h, Idle, FALSE) /\ UNCHANGED rows
  /\ UNCHANGED <<block, chain, detailed, drafts, indexed, writes>>

-----------------------------------------------------------------------------
(* What the request was for *)

\* getCurrentNav reads the current row; a patch writes the status of its own.
Answer(h) ==
  LET i == handlers[h].target
      hit == handlers[h].op = "patch" /\ i \in Rows
  IN
  /\ handlers[h].at = "answer"
  /\ rows' = IF hit THEN [rows EXCEPT ![i] = handlers[h].mark] ELSE rows
  /\ Step(h, Idle, hit)
  /\ UNCHANGED <<block, chain, detailed, drafts, indexed, writes>>

\* finalizePublishedNavAttestation: the row gets the breakdown of the draft
\* named, if there is one, which is deleted.
StoreDraft(h) ==
  LET i == handlers[h].target IN
  /\ handlers[h].at = "store" /\ i \in Rows
  /\ rows' = [rows EXCEPT ![i] = "PUBLISHED"]
  /\ detailed' = detailed \cup {i}
  /\ drafts' = drafts \/ (drafts > 0 /\ drafts' = drafts - 1)
  /\ Step(h, [handlers[h] EXCEPT !.op = "finalized", !.at = "latest"], TRUE)
  /\ UNCHANGED <<block, chain, indexed, writes>>

\* What x knows of row j when it is deleted: it is not found by its id again.
Loses(x, j) == [Races(x) EXCEPT !.latest = IF @ = j THEN 0 ELSE @]

\* The draft named may be any row, the one of attestation j too.
StoreOver(h, j) ==
  LET i == handlers[h].target IN
  /\ handlers[h].at = "store" /\ i \in Rows /\ j \in Rows \ {i}
  /\ rows' = [rows EXCEPT ![i] = "PUBLISHED", ![j] = "none"]
  /\ detailed' = (detailed \ {j}) \cup {i}
  /\ handlers' = [g \in Handlers |->
       IF g = h THEN [handlers[h] EXCEPT !.op = "finalized", !.at = "latest"] ELSE Loses(handlers[g], j)]
  /\ UNCHANGED <<block, chain, drafts, indexed, writes>>

\* There is no row, or it was named itself, and the transaction rolls back.
StoreNothing(h) ==
  /\ handlers[h].at = "store"
  /\ Step(h, Idle, FALSE)
  /\ UNCHANGED <<block, chain, stored, writes>>

\* A valuation of another token is reported, with row j for its draft.
StoreElsewhere(j) ==
  /\ writes < MaxWrites /\ writes' = writes + 1
  /\ j \in Rows
  /\ rows' = [rows EXCEPT ![j] = "none"]
  /\ detailed' = detailed \ {j}
  /\ handlers' = [g \in Handlers |-> Loses(handlers[g], j)]
  /\ UNCHANGED <<block, chain, drafts, indexed>>

\* A call to an endpoint or to the database fails, or the server restarts.
Fail(h) ==
  /\ handlers[h].at # "idle"
  /\ Step(h, Idle, FALSE)
  /\ UNCHANGED <<block, chain, stored, writes>>

Sync(h) ==
  \/ SyncRegistration(h) \/ SyncCount(h) \/ SyncHeight(h) \/ SyncEmpty(h)
  \/ SyncLogs(h) \/ SyncUpsert(h) \/ SyncIndexed(h)

Serve(h) == Validate(h) \/ Sync(h) \/ MarkLatest(h) \/ MarkSuperseded(h)
            \/ Answer(h) \/ StoreDraft(h) \/ StoreNothing(h) \/ \E j \in Indexes : StoreOver(h, j)

Next ==
  \/ Tick \/ PublishNAV \/ CreateNavDraft \/ \E j \in Indexes : StoreElsewhere(j)
  \/ \E h \in Handlers : BeginAny(h) \/ Serve(h) \/ Fail(h)

Spec == Init /\ [][Next]_vars

\* The server goes on with a request that it serves.
FairSpec == Spec /\ \A h \in Handlers : WF_vars(Serve(h))

-----------------------------------------------------------------------------
(* Properties *)

Reads(h) == handlers[h].at = "answer" /\ handlers[h].op = "read"

\* A request that no other one overlaps answers with the newest valuation
\* there was on chain when it came, and leaves one valuation current, the
\* highest there is, whatever requests before it missed, failed half way, marked,
\* deleted or left behind (getCurrentNav, syncNavOracleHistory,
\* markSupersededAttestations).
LoneReadIsFresh ==
  \A h \in Handlers : Reads(h) /\ ~ handlers[h].raced =>
    /\ Current >= handlers[h].since
    /\ \A i \in Rows : rows[i] = "PUBLISHED" <=> i = Max(Rows)

\* The database is the chain's: every attestation has its row, the last one is
\* current and no other is.
Mirrors ==
  /\ Rows = 1 .. Len(chain)
  /\ \A i \in Rows : rows[i] = "PUBLISHED" <=> i = Len(chain)

\* As long as valuations are read, the database becomes the chain's and stays
\* so: gaps that overlapping or failing requests leave are filled, and the marks
\* that they set from an older reading are set right.
ReadsEndInTheChain ==
  ([]<>(\E h \in Handlers : Reads(h))) => <>[]Mirrors

\* What a publisher reports was mined in time: the interval is not a reason to
\* refuse it ("A new NAV attestation cannot be published until").
ReportsAreNotTooEarly ==
  \A h \in Handlers : handlers[h].at = "validate" => ~ TooEarly
=============================================================================
