------------------------------ MODULE NavProofs ------------------------------
(***************************************************************************)
(* For every number of requests, attestations and blocks: a request for a  *)
(* valuation that no other one overlaps answers with the newest.           *)
(*                                                                         *)
(* The argument does not rest on what earlier requests left in the         *)
(* database.  If the events from the last indexed block on are not empty,  *)
(* one of them is as new as the valuation that was newest when the request *)
(* came, because attestations are mined in their order; if they are empty, *)
(* either a row is missing and everything is read again, or there are as   *)
(* many rows as attestations, and the highest of so many is no older.      *)
(* Rows are of attestations only, so that a request that finds none on     *)
(* chain finds none in the database either.                                *)
(***************************************************************************)
EXTENDS NavPublication, SumsProofs

Statuses == {"none", "PUBLISHED", "SUPERSEDED", "DISPUTED"}

Places == {"idle", "validate", "sync", "count", "height", "empty", "logs", "upsert", "latest",
           "mark", "answer", "store"}

Locals == [op : {"none", "read", "finalize", "finalized", "patch"}, at : Places, target : Nat,
           mark : Statuses, from : Nat, count : Nat, upto : Nat, todo : SUBSET Indexes,
           latest : Nat, since : Nat, raced : BOOLEAN]

NavTypes ==
  /\ block \in Nat /\ indexed \in Nat
  /\ chain \in Seq(Nat) /\ Len(chain) <= MaxAttestations
  /\ rows \in [Indexes -> Statuses]
  /\ handlers \in [Handlers -> Locals]

\* Attestations are mined one after the other.
ChainGrows ==
  /\ \A i \in 1 .. Len(chain) : chain[i] <= block
  /\ \A i, j \in 1 .. Len(chain) : i < j => chain[i] < chain[j]

RowsIn(r) == {i \in Indexes : r[i] # "none"}

\* One of S is as new as the n-th attestation.
AsNewAs(S, n) == n = 0 \/ \E i \in S : i >= n

\* One valuation is current, the highest.
OneCurrent(r) == \A i \in RowsIn(r) : r[i] = "PUBLISHED" <=> \A j \in RowsIn(r) : j <= i

\* What a request to read that raced nobody knows, by how far it has come, when
\* the rows are r and the chain is c.
Knows(x, r, c) ==
  x.op = "read" /\ ~ x.raced =>
    /\ x.since <= Len(c)
    /\ x.at \in {"height", "logs", "empty"} => x.since <= x.count
    /\ x.at = "empty" => x.count = 0
    /\ x.at \in {"height", "empty"} /\ x.count = 0 => RowsIn(r) = {}
    /\ x.at = "logs" /\ x.since # 0 => c[x.since] <= x.upto
    /\ x.at = "upsert" => AsNewAs(x.todo \cup RowsIn(r), x.since)
    /\ x.at = "latest" => AsNewAs(RowsIn(r), x.since)
    /\ x.at = "mark" => /\ x.latest \in RowsIn(r) /\ x.latest >= x.since
                        /\ \A j \in RowsIn(r) : j <= x.latest
    /\ x.at = "answer" => /\ AsNewAs({i \in RowsIn(r) : r[i] = "PUBLISHED"}, x.since)
                          /\ OneCurrent(r)

\* What a handler is about to write is of one of n attestations.
Writes(x, n) ==
  /\ x.todo \subseteq 1 .. n
  /\ x.op = "patch" => x.mark \in Marks

\* Rows, breakdowns and what a handler is about to write are of attestations.
OfTheChain ==
  /\ RowsIn(rows) \subseteq 1 .. Len(chain) /\ detailed \subseteq RowsIn(rows)
  /\ \A h \in Handlers : Writes(handlers[h], Len(chain))

NavInv == NavTypes /\ ChainGrows /\ \A h \in Handlers : Knows(handlers[h], rows, chain)

-----------------------------------------------------------------------------
(* Numbers *)

LEMMA IndexesAreFinite ==
  /\ MaxAttestations \in Nat /\ Indexes \subseteq Nat /\ \A i \in Indexes : i > 0
  /\ \A S \in SUBSET Indexes : IsFiniteSet(S)
<1>1. MaxAttestations \in Nat
  BY NavAssumption
<1>2. IsFiniteSet(1 .. MaxAttestations)
  BY <1>1, FS_Interval
<1>3. Indexes \subseteq Nat /\ \A i \in Indexes : i > 0
  BY <1>1 DEF Indexes
<1>4. ASSUME NEW S \in SUBSET Indexes PROVE IsFiniteSet(S)
  BY <1>2, <1>4, FS_Subset DEF Indexes
<1>5. QED BY <1>1, <1>3, <1>4

\* A set of indexes has a highest one.
LEMMA MaxIsHighest ==
  ASSUME NEW S, S \subseteq Nat, NEW b \in Nat, \A s \in S : s <= b, S # {}
  PROVE  Max(S) \in S /\ \A s \in S : s <= Max(S)
<1> DEFINE B == {n \in Nat : \A s \in S : s <= n}
<1>1. B \subseteq Nat /\ B # {}
  OBVIOUS
<1>2. PICK n \in B : \A m \in B : n <= m
  <2> HIDE DEF B
  <2>1. QED BY <1>1, LeastNatural
<1>3. n \in S
  <2>1. SUFFICES ASSUME n \notin S PROVE FALSE
    OBVIOUS
  <2>2. \A s \in S : s \in Nat /\ s <= n /\ s # n
    BY <1>2, <2>1
  <2>3. n # 0
    <3>1. PICK s \in S : TRUE
      OBVIOUS
    <3>2. s \in Nat /\ s <= n /\ s # n
      BY <2>2
    <3>3. QED BY <3>2
  <2>4. n - 1 \in Nat /\ \A s \in S : s <= n - 1
    BY <1>2, <2>2, <2>3
  <2>5. n - 1 \in B
    BY <2>4
  <2>6. QED BY <1>2, <2>4, <2>5
<1>4. \E x \in S : \A y \in S : x >= y
  BY <1>2, <1>3
<1>5. Max(S) \in S /\ \A y \in S : Max(S) >= y
  BY <1>4, Zenon DEF Max
<1>6. QED BY <1>5

LEMMA MinIsLowest ==
  ASSUME NEW S, S \subseteq Nat, S # {}
  PROVE  Min(S) \in S /\ \A s \in S : Min(S) <= s
<1>1. \E x \in S : \A y \in S : x <= y
  BY LeastNatural
<1>2. QED BY <1>1, Zenon DEF Min

\* The highest of n indexes is at least n.
LEMMA HighestOfMany ==
  ASSUME NEW S \in SUBSET Indexes, NEW n \in Nat, n <= Cardinality(S)
  PROVE  AsNewAs(S, n)
<1>1. CASE S = {}
  <2>1. Cardinality(S) = 0
    BY <1>1, FS_EmptySet
  <2>2. QED BY <2>1 DEF AsNewAs
<1>2. CASE S # {}
  <2>1. S \subseteq Nat /\ MaxAttestations \in Nat /\ \A s \in S : s <= MaxAttestations
    BY IndexesAreFinite DEF Indexes
  <2> DEFINE m == Max(S)
  <2>2. m \in S /\ \A s \in S : s <= m
    BY <1>2, <2>1, MaxIsHighest
  <2> HIDE DEF m
  <2>3. m \in Nat /\ S \subseteq 1 .. m
    BY <2>1, <2>2, IndexesAreFinite
  <2>4. IsFiniteSet(1 .. m) /\ Cardinality(1 .. m) = m
    BY <2>3, FS_Interval
  <2>5. Cardinality(S) <= Cardinality(1 .. m)
    BY <2>3, <2>4, FS_Subset
  <2>6. IsFiniteSet(S)
    BY IndexesAreFinite
  <2>7. Cardinality(S) \in Nat
    BY <2>6, FS_CardinalityType
  <2>8. m >= n
    BY <2>3, <2>4, <2>5, <2>7
  <2>9. QED BY <2>2, <2>8 DEF AsNewAs
<1>3. QED BY <1>1, <1>2

-----------------------------------------------------------------------------
(* Steps *)

LEMMA Beginning == Init => NavInv
<1>1. SUFFICES ASSUME Init PROVE NavInv
  OBVIOUS
<1>2. /\ block = 0 /\ chain = <<>> /\ indexed = 0 /\ rows = [i \in Indexes |-> "none"]
      /\ handlers = [h \in Handlers |-> Idle]
  BY <1>1 DEF Init
<1>3. Idle \in Locals /\ Idle.op = "none"
  BY DEF Idle, Locals, Statuses, Places
<1>4. NavTypes
  <2>1. chain \in Seq(Nat) /\ Len(chain) = 0 /\ MaxAttestations \in Nat
    BY <1>2, NavAssumption
  <2>2. QED BY <1>2, <1>3, <2>1 DEF NavTypes, Statuses
<1>5. ChainGrows
  BY <1>2 DEF ChainGrows
<1>6. \A h \in Handlers : Knows(handlers[h], rows, chain)
  BY <1>2, <1>3 DEF Knows
<1>7. QED BY <1>4, <1>5, <1>6 DEF NavInv

\* One request goes on.  The others know what they knew, for if a row was
\* written they have raced it.
LEMMA OneGoesOn ==
  ASSUME NavInv, NEW h \in Handlers, NEW local \in Locals, NEW wrote \in BOOLEAN,
         Step(h, local, wrote),
         UNCHANGED <<block, chain>>, indexed' \in Nat, rows' \in [Indexes -> Statuses],
         wrote \/ rows' = rows,
         Knows(local, rows', chain)
  PROVE  NavInv'
<1>1. NavTypes /\ ChainGrows /\ \A g \in Handlers : Knows(handlers[g], rows, chain)
  BY DEF NavInv
<1>2. handlers \in [Handlers -> Locals]
  BY <1>1 DEF NavTypes
<1>3. ASSUME NEW g \in Handlers
      PROVE  handlers'[g] \in Locals /\ Knows(handlers'[g], rows', chain)
  <2>1. handlers'[g] = IF g = h THEN local
                       ELSE IF wrote THEN Races(handlers[g]) ELSE handlers[g]
    BY DEF Step
  <2>2. CASE g = h
    BY <2>1, <2>2
  <2>3. CASE g # h /\ wrote /\ handlers[g].op = "read"
    <3>1. handlers'[g] = [handlers[g] EXCEPT !.raced = TRUE, !.since = 0]
      BY <2>1, <2>3 DEF Races
    <3>2. handlers'[g] \in Locals /\ handlers'[g].raced
      <4> DEFINE x == handlers[g]
      <4>1. x \in Locals /\ handlers'[g] = [x EXCEPT !.raced = TRUE, !.since = 0]
        BY <1>2, <3>1
      <4> HIDE DEF x
      <4>2. [x EXCEPT !.raced = TRUE, !.since = 0] \in Locals
        BY <4>1 DEF Locals
      <4>3. [x EXCEPT !.raced = TRUE, !.since = 0].raced
        BY <4>1 DEF Locals
      <4>4. QED BY <4>1, <4>2, <4>3
    <3>3. QED BY <3>2 DEF Knows
  <2>4. CASE g # h /\ ~ (wrote /\ handlers[g].op = "read")
    <3>1. handlers'[g] = handlers[g] /\ handlers[g] \in Locals
      BY <1>2, <2>1, <2>4 DEF Races
    <3>2. Knows(handlers[g], rows, chain)
      BY <1>1
    <3>3. CASE handlers[g].op = "read"
      BY <2>4, <3>1, <3>2, <3>3
    <3>4. CASE handlers[g].op # "read"
      BY <3>1, <3>4 DEF Knows
    <3>5. QED BY <3>3, <3>4
  <2>5. QED BY <2>2, <2>3, <2>4
<1>4. handlers' = [g \in Handlers |-> handlers'[g]]
  BY DEF Step
<1>5. handlers' \in [Handlers -> Locals]
  BY <1>3, <1>4
<1>6. NavTypes'
  BY <1>1, <1>5 DEF NavTypes
<1>7. ChainGrows'
  BY <1>1 DEF ChainGrows
<1>8. \A g \in Handlers : Knows(handlers'[g], rows', chain')
  BY <1>3
<1>9. QED BY <1>6, <1>7, <1>8 DEF NavInv

LEMMA LocalsOf ==
  ASSUME NavInv, NEW h \in Handlers
  PROVE  /\ handlers[h] \in Locals /\ Knows(handlers[h], rows, chain)
         /\ rows \in [Indexes -> Statuses] /\ indexed \in Nat /\ block \in Nat
         /\ chain \in Seq(Nat) /\ Len(chain) <= MaxAttestations
BY DEF NavInv, NavTypes

LEMMA IdleKnows == ASSUME NEW r, NEW c PROVE Idle \in Locals /\ Knows(Idle, r, c)
BY DEF Idle, Locals, Places, Statuses, Knows

LEMMA ChainSteps ==
  ASSUME NavInv, Tick \/ PublishNAV \/ CreateNavDraft
  PROVE  NavInv'
<1>1. NavTypes /\ ChainGrows /\ \A h \in Handlers : Knows(handlers[h], rows, chain)
  BY DEF NavInv
<1>2. UNCHANGED <<rows, indexed, handlers>>
  BY DEF Tick, PublishNAV, CreateNavDraft, stored
<1>3. CASE UNCHANGED chain /\ block' \in Nat /\ block' >= block
  <2>1. NavTypes'
    BY <1>1, <1>2, <1>3 DEF NavTypes
  <2>2. ChainGrows'
    <3>1. \A i \in 1 .. Len(chain) : chain[i] <= block'
      <4> TAKE i \in 1 .. Len(chain)
      <4>1. chain[i] <= block /\ chain[i] \in Nat /\ block \in Nat
        BY <1>1 DEF NavTypes, ChainGrows
      <4>2. QED BY <1>3, <4>1
    <3>2. QED BY <1>1, <1>3, <3>1 DEF ChainGrows
  <2>3. \A h \in Handlers : Knows(handlers'[h], rows', chain')
    BY <1>1, <1>2, <1>3
  <2>4. QED BY <2>1, <2>2, <2>3 DEF NavInv
<1>4. CASE PublishNAV
  <2>1. block' = block + 1 /\ chain' = Append(chain, block + 1) /\ Len(chain) < MaxAttestations
    BY <1>4 DEF PublishNAV
  <2>2. block \in Nat /\ chain \in Seq(Nat) /\ MaxAttestations \in Nat
    BY <1>1, NavAssumption DEF NavTypes
  <2>3. /\ chain' \in Seq(Nat) /\ Len(chain') = Len(chain) + 1 /\ Len(chain) \in Nat
        /\ chain'[Len(chain) + 1] = block + 1
        /\ \A i \in 1 .. Len(chain) : chain'[i] = chain[i]
    BY <2>1, <2>2
  <2>4. NavTypes'
    BY <1>1, <1>2, <2>1, <2>2, <2>3 DEF NavTypes
  <2>5. \A i \in 1 .. Len(chain) : chain[i] \in Nat /\ chain[i] <= block
    BY <1>1, <2>2 DEF ChainGrows
  <2>6. ASSUME NEW i \in 1 .. Len(chain')
        PROVE  chain'[i] <= block'
    <3>1. CASE i \in 1 .. Len(chain)
      BY <2>1, <2>2, <2>3, <2>5, <3>1
    <3>2. CASE i = Len(chain) + 1
      BY <2>1, <2>2, <2>3, <3>2
    <3>3. QED BY <2>3, <3>1, <3>2
  <2>7. ASSUME NEW i \in 1 .. Len(chain'), NEW j \in 1 .. Len(chain'), i < j
        PROVE  chain'[i] < chain'[j]
    <3>1. i \in 1 .. Len(chain)
      BY <2>3, <2>7
    <3>2. CASE j \in 1 .. Len(chain)
      <4>1. chain[i] < chain[j]
        BY <1>1, <2>7, <3>1, <3>2 DEF ChainGrows
      <4>2. QED BY <2>3, <3>1, <3>2, <4>1
    <3>3. CASE j = Len(chain) + 1
      <4>1. chain'[i] = chain[i] /\ chain[i] \in Nat /\ chain[i] <= block
        BY <2>3, <2>5, <3>1
      <4>2. QED BY <2>2, <2>3, <3>3, <4>1
    <3>4. QED BY <2>3, <3>2, <3>3
  <2>8. ChainGrows'
    BY <2>6, <2>7 DEF ChainGrows
  <2>9. ASSUME NEW h \in Handlers
        PROVE  Knows(handlers'[h], rows', chain')
    <3> DEFINE x == handlers[h]
    <3>1. Knows(x, rows, chain) /\ x \in Locals
      BY <1>1 DEF NavTypes
    <3>2. x.since \in Nat
      BY <3>1 DEF Locals
    <3> HIDE DEF x
    <3>3. x.since <= Len(chain) /\ x.since # 0 => chain'[x.since] = chain[x.since]
      BY <2>3, <3>2
    <3>4. x.since <= Len(chain) => x.since <= Len(chain')
      BY <2>3, <3>2
    <3>5. Knows(x, rows, chain')
      BY <3>1, <3>3, <3>4 DEF Knows
    <3>6. QED BY <1>2, <3>5 DEF x
  <2>10. QED BY <2>4, <2>8, <2>9 DEF NavInv
<1>5. CASE Tick
  BY <1>1, <1>3, <1>5 DEF Tick, NavTypes
<1>6. CASE CreateNavDraft
  BY <1>1, <1>3, <1>6 DEF CreateNavDraft, NavTypes
<1>7. QED BY <1>4, <1>5, <1>6

LEMMA BeginKeeps ==
  ASSUME NavInv, NEW h \in Handlers, BeginAny(h)
  PROVE  NavInv'
<1>1. PICK op \in {"read", "finalize", "patch"}, i \in Nat, m \in Statuses : Begin(h, op, i, m)
  <2>1. CASE Begin(h, "read", 0, "none")
    BY <2>1 DEF Statuses
  <2>2. CASE \E i \in 1 .. Len(chain) :
               Begin(h, "finalize", i, "none") \/ \E m \in Marks : Begin(h, "patch", i, m)
    <3>1. Len(chain) \in Nat /\ Marks \subseteq Statuses /\ "none" \in Statuses
      BY LocalsOf, NavAssumption DEF Statuses
    <3>2. 1 .. Len(chain) \subseteq Nat
      BY <3>1
    <3>3. QED BY <2>2, <3>1, <3>2
  <2>3. QED BY <2>1, <2>2 DEF BeginAny
<1> DEFINE race  == op = "read" /\ \E g \in Handlers : handlers[g].at # "idle"
           since == IF op = "read" /\ ~ race THEN Len(chain) ELSE 0
           at    == IF op = "finalize" THEN "validate" ELSE "sync"
           local == [Idle EXCEPT !.op = op, !.target = i, !.mark = m, !.raced = race,
                                 !.since = since, !.at = at]
<1>2. Step(h, local, FALSE) /\ UNCHANGED <<block, chain, rows, indexed>>
  BY <1>1 DEF Begin, stored
<1>3. since \in Nat /\ race \in BOOLEAN /\ at \in {"validate", "sync"}
      /\ (op = "read" /\ ~ race => since = Len(chain))
  BY LocalsOf
<1> HIDE DEF since, race, at
<1>4. /\ local \in Locals /\ local.op = op /\ local.since = since /\ local.at = at
      /\ local.raced = race
  BY <1>3 DEF Idle, Locals, Places, Statuses
<1> HIDE DEF local
<1>5. Knows(local, rows, chain)
  BY <1>3, <1>4, LocalsOf DEF Knows
<1>6. rows' = rows /\ indexed' \in Nat /\ rows' \in [Indexes -> Statuses]
  BY <1>2, LocalsOf
<1>7. QED BY <1>2, <1>4, <1>5, <1>6, OneGoesOn

\* A step that writes no row.
LEMMA ReadingStep ==
  ASSUME NavInv, NEW h \in Handlers, NEW local \in Locals, Step(h, local, FALSE),
         UNCHANGED <<block, chain, rows>>, indexed' \in Nat, Knows(local, rows, chain)
  PROVE  NavInv'
<1>1. rows' = rows /\ rows' \in [Indexes -> Statuses] /\ Knows(local, rows', chain)
  BY LocalsOf
<1>2. UNCHANGED <<block, chain>>
  OBVIOUS
<1>3. QED BY <1>1, <1>2, OneGoesOn

LEMMA ValidateKeeps ==
  ASSUME NavInv, NEW h \in Handlers, Validate(h)
  PROVE  NavInv'
<1>1. UNCHANGED <<block, chain, rows, indexed>>
  BY DEF Validate, stored
<1>2. CASE Step(h, Idle, FALSE)
  BY <1>1, <1>2, IdleKnows, LocalsOf, ReadingStep
<1>3. CASE GoTo(h, "sync")
  <2> DEFINE local == [handlers[h] EXCEPT !.at = "sync"]
  <2>1. Step(h, local, FALSE)
    BY <1>3 DEF GoTo
  <2>2. local \in Locals /\ local.at = "sync" /\ local.op = handlers[h].op
        /\ local.raced = handlers[h].raced /\ local.since = handlers[h].since
    BY LocalsOf DEF Locals, Places
  <2> HIDE DEF local
  <2>3. Knows(local, rows, chain)
    BY <2>2, LocalsOf DEF Knows
  <2>4. QED BY <1>1, <2>1, <2>2, <2>3, LocalsOf, ReadingStep
<1>4. QED BY <1>2, <1>3 DEF Validate

\* The registration, the number of attestations and the height.
LEMMA AskingKeeps ==
  ASSUME NavInv, OfTheChain, NEW h \in Handlers, SyncRegistration(h) \/ SyncCount(h) \/ SyncHeight(h)
  PROVE  NavInv'
<1> DEFINE x == handlers[h]
<1>1. x \in Locals /\ Knows(x, rows, chain) /\ indexed \in Nat /\ block \in Nat
      /\ Len(chain) \in Nat /\ chain \in Seq(Nat)
  BY LocalsOf
<1>2. UNCHANGED <<block, chain, rows, indexed>>
  BY DEF SyncRegistration, SyncCount, SyncHeight, stored
<1>3. CASE SyncRegistration(h)
  <2> DEFINE local == [x EXCEPT !.at = "count", !.from = indexed + 1]
  <2>1. Step(h, local, FALSE)
    BY <1>3 DEF SyncRegistration
  <2>2. /\ local \in Locals /\ local.at = "count" /\ local.op = x.op
        /\ local.raced = x.raced /\ local.since = x.since
    <3> DEFINE n == indexed + 1
    <3>1. n \in Nat
      BY <1>1
    <3> HIDE DEF n, x
    <3>2. QED BY <1>1, <3>1 DEF Locals, Places, n
  <2> HIDE DEF local, x
  <2>3. Knows(local, rows, chain)
    BY <1>1, <2>2 DEF Knows
  <2>4. QED BY <1>1, <1>2, <2>1, <2>2, <2>3, ReadingStep
<1>4. CASE SyncCount(h)
  <2> DEFINE local == [x EXCEPT !.at = "height", !.count = Len(chain)]
  <2>1. Step(h, local, FALSE)
    BY <1>4 DEF SyncCount
  <2>2. /\ local \in Locals /\ local.at = "height" /\ local.op = x.op /\ local.count = Len(chain)
        /\ local.raced = x.raced /\ local.since = x.since
    BY <1>1 DEF Locals, Places
  <2> HIDE DEF local, x
  <2>3. Len(chain) = 0 => RowsIn(rows) = {}
    BY DEF OfTheChain
  <2>4. Knows(local, rows, chain)
    BY <1>1, <2>2, <2>3 DEF Knows
  <2>5. QED BY <1>1, <1>2, <2>1, <2>2, <2>4, ReadingStep
<1>5. CASE SyncHeight(h)
  <2> DEFINE at    == IF x.count = 0 THEN "empty" ELSE "logs"
             local == [x EXCEPT !.upto = block, !.at = at]
  <2>1. Step(h, local, FALSE) /\ x.at = "height"
    BY <1>5 DEF SyncHeight
  <2>2. at \in {"empty", "logs"} /\ (at = "empty" => x.count = 0)
    OBVIOUS
  <2> HIDE DEF at
  <2>3. /\ local \in Locals /\ local.at = at /\ local.op = x.op /\ local.count = x.count
        /\ local.raced = x.raced /\ local.since = x.since /\ local.upto = block
    BY <1>1, <2>2 DEF Locals, Places
  <2>4. x.since \in Nat
    BY <1>1 DEF Locals
  <2> HIDE DEF local, x
  <2>5. x.since # 0 /\ x.since <= Len(chain) => chain[x.since] <= block
    BY <1>1, <2>4 DEF NavInv, ChainGrows
  <2>6. Knows(local, rows, chain)
    BY <1>1, <2>1, <2>2, <2>3, <2>5 DEF Knows
  <2>7. QED BY <1>1, <1>2, <2>1, <2>3, <2>6, ReadingStep
<1>6. QED BY <1>3, <1>4, <1>5

\* A request that has its rows in order reads, or goes on with what it came for.
LEMMA AfterSyncIs ==
  ASSUME NavInv, NEW h \in Handlers
  PROVE  /\ AfterSync(h) \in Locals
         /\ AfterSync(h).op = "read" => /\ AfterSync(h).at = "answer"
                                        /\ handlers[h].op = "read"
                                        /\ AfterSync(h).since = handlers[h].since
                                        /\ AfterSync(h).raced = handlers[h].raced
<1> DEFINE x == handlers[h]
<1>1. x \in Locals
  BY LocalsOf
<1>2. CASE x.op = "finalize"
  <2> DEFINE y == [x EXCEPT !.at = "store", !.upto = 0, !.latest = 0]
  <2>1. AfterSync(h) = y
    BY <1>2 DEF AfterSync
  <2> HIDE DEF x
  <2>2. y \in Locals /\ y.op = x.op
    BY <1>1 DEF Locals, Places
  <2> HIDE DEF y
  <2>3. QED BY <1>2, <2>1, <2>2
<1>3. CASE x.op = "finalized"
  <2>1. AfterSync(h) = Idle
    BY <1>3 DEF AfterSync
  <2>2. Idle \in Locals /\ Idle.op = "none"
    BY IdleKnows DEF Idle
  <2>3. QED BY <2>1, <2>2
<1>4. CASE x.op # "finalize" /\ x.op # "finalized"
  <2> DEFINE y == [x EXCEPT !.at = "answer", !.upto = 0, !.latest = 0]
  <2>1. AfterSync(h) = y
    BY <1>4 DEF AfterSync
  <2> HIDE DEF x
  <2>2. /\ y \in Locals /\ y.op = x.op /\ y.at = "answer"
        /\ y.since = x.since /\ y.raced = x.raced
    BY <1>1 DEF Locals, Places
  <2> HIDE DEF y
  <2>3. QED BY <2>1, <2>2 DEF x
<1>5. QED BY <1>2, <1>3, <1>4

\* So what it knows after the synchronisation is what the rows say.
LEMMA KnowsAfterSync ==
  ASSUME NavInv, NEW h \in Handlers, NEW r,
         handlers[h].op = "read" /\ ~ handlers[h].raced =>
           AsNewAs({i \in RowsIn(r) : r[i] = "PUBLISHED"}, handlers[h].since) /\ OneCurrent(r)
  PROVE  Knows(AfterSync(h), r, chain)
<1>1. Knows(handlers[h], rows, chain)
  BY LocalsOf
<1> DEFINE y == AfterSync(h)
<1>2. y.op = "read" => /\ y.at = "answer" /\ handlers[h].op = "read"
                       /\ y.since = handlers[h].since /\ y.raced = handlers[h].raced
  BY AfterSyncIs
<1> HIDE DEF y
<1>3. Knows(y, r, chain)
  BY <1>1, <1>2 DEF Knows
<1>4. QED BY <1>3 DEF y

LEMMA EmptyKeeps ==
  ASSUME NavInv, NEW h \in Handlers, SyncEmpty(h)
  PROVE  NavInv'
<1> DEFINE x == handlers[h]
<1>1. x \in Locals /\ Knows(x, rows, chain)
  BY LocalsOf
<1>2. /\ x.at = "empty" /\ indexed' = x.upto /\ Step(h, AfterSync(h), FALSE)
      /\ UNCHANGED <<block, chain, rows>>
  BY DEF SyncEmpty
<1>3. x.upto \in Nat /\ x.since \in Nat /\ x.count \in Nat
  BY <1>1 DEF Locals
<1>4. x.op = "read" /\ ~ x.raced
        => AsNewAs({i \in RowsIn(rows) : rows[i] = "PUBLISHED"}, x.since) /\ OneCurrent(rows)
  <2> HIDE DEF x
  <2>1. x.op = "read" /\ ~ x.raced => x.since = 0 /\ RowsIn(rows) = {}
    BY <1>1, <1>2, <1>3 DEF Knows
  <2>2. QED BY <2>1 DEF AsNewAs, OneCurrent
<1>5. Knows(AfterSync(h), rows, chain)
  BY <1>4, KnowsAfterSync
<1>6. AfterSync(h) \in Locals
  BY AfterSyncIs
<1>7. indexed' \in Nat
  BY <1>2, <1>3
<1>8. QED BY <1>2, <1>5, <1>6, <1>7, ReadingStep

LEMMA LogsAreIndexes ==
  ASSUME NavInv, NEW lo, NEW hi
  PROVE  LogsIn(lo, hi) \subseteq Indexes
<1>1. chain \in Seq(Nat) /\ Len(chain) <= MaxAttestations /\ MaxAttestations \in Nat
  BY NavAssumption DEF NavInv, NavTypes
<1>2. Len(chain) \in Nat
  BY <1>1
<1>3. 1 .. Len(chain) \subseteq 1 .. MaxAttestations
  BY <1>1, <1>2
<1>4. QED BY <1>3 DEF LogsIn, Indexes

\* What is found and what is there are together as new as what was newest.
LEMMA FoundIsNew ==
  ASSUME NavInv, NEW h \in Handlers, handlers[h].at = "logs",
         handlers[h].op = "read", ~ handlers[h].raced
  PROVE  AsNewAs(Found(h) \cup Rows, handlers[h].since)
<1> DEFINE x     == handlers[h]
           new   == LogsIn(x.from, x.upto)
           since == x.since
<1>1. x \in Locals /\ Knows(x, rows, chain) /\ chain \in Seq(Nat) /\ Len(chain) \in Nat
  BY LocalsOf
<1>2. x.from \in Nat /\ x.upto \in Nat /\ x.count \in Nat /\ since \in Nat
  BY <1>1 DEF Locals
<1>3. since <= Len(chain) /\ since <= x.count /\ (since # 0 => chain[since] <= x.upto)
  BY <1>1 DEF Knows
<1>4. Found(h) = IF new = {} /\ Cardinality(Rows) < x.count THEN LogsIn(0, x.upto) ELSE new
  BY DEF Found
<1>5. \A i, j \in 1 .. Len(chain) : i < j => chain[i] < chain[j]
  BY DEF NavInv, ChainGrows
<1>6. \A i \in 1 .. Len(chain) : chain[i] \in Nat
  BY <1>1
<1>7. \A lo, hi : LogsIn(lo, hi) = {i \in 1 .. Len(chain) : chain[i] \in lo .. hi}
  BY DEF LogsIn
<1> HIDE DEF x, since, new
<1>8. SUFFICES ASSUME since # 0 PROVE \E i \in Found(h) \cup Rows : i >= since
  BY DEF AsNewAs, since, x
<1>9. since \in 1 .. Len(chain) /\ chain[since] <= x.upto /\ chain[since] \in Nat
  BY <1>2, <1>3, <1>6, <1>8
<1>10. CASE new = {} /\ Cardinality(Rows) < x.count
  <2>1. since \in LogsIn(0, x.upto)
    BY <1>2, <1>7, <1>9
  <2>2. QED BY <1>2, <1>4, <1>10, <2>1
<1>11. CASE new = {} /\ ~ (Cardinality(Rows) < x.count)
  <2>1. Rows \in SUBSET Indexes
    BY DEF Rows
  <2>2. Cardinality(Rows) \in Nat
    BY <2>1, IndexesAreFinite, FS_CardinalityType
  <2>3. since <= Cardinality(Rows)
    BY <1>2, <1>3, <1>11, <2>2
  <2>4. AsNewAs(Rows, since)
    BY <1>2, <2>1, <2>3, HighestOfMany
  <2>5. QED BY <1>8, <2>4 DEF AsNewAs
<1>12. CASE new # {}
  <2>1. Found(h) = new
    BY <1>4, <1>12
  <2>2. CASE chain[since] >= x.from
    <3>1. since \in new
      BY <1>2, <1>7, <1>9, <2>2 DEF new
    <3>2. QED BY <1>2, <2>1, <3>1
  <2>3. CASE chain[since] < x.from
    <3>1. PICK i \in new : TRUE
      BY <1>12
    <3>2. i \in 1 .. Len(chain) /\ chain[i] \in Nat /\ chain[i] >= x.from
      BY <1>2, <1>6, <1>7, <3>1 DEF new
    <3>3. chain[since] < chain[i]
      BY <1>2, <1>9, <2>3, <3>2
    <3>4. ~ (i < since) /\ i # since
      <4>1. i < since => chain[i] < chain[since]
        BY <1>5, <1>9, <3>2
      <4>2. QED BY <1>9, <3>2, <3>3, <4>1
    <3>5. i >= since
      BY <1>1, <1>2, <3>2, <3>4
    <3>6. QED BY <2>1, <3>1, <3>5
  <2>4. QED BY <1>2, <1>9, <2>2, <2>3
<1>13. QED BY <1>10, <1>11, <1>12

LEMMA LogsKeep ==
  ASSUME NavInv, NEW h \in Handlers, SyncLogs(h)
  PROVE  NavInv'
<1> DEFINE x     == handlers[h]
           local == [x EXCEPT !.at = "upsert", !.todo = Found(h), !.from = 0, !.count = 0]
<1>1. x \in Locals
  BY LocalsOf
<1>2. x.at = "logs" /\ Step(h, local, FALSE) /\ UNCHANGED <<block, chain, rows, indexed>>
  BY DEF SyncLogs, stored
<1>3. Found(h) \in SUBSET Indexes
  BY LogsAreIndexes DEF Found
<1>4. /\ local \in Locals /\ local.at = "upsert" /\ local.op = x.op /\ local.todo = Found(h)
      /\ local.raced = x.raced /\ local.since = x.since
  <2> DEFINE F == Found(h)
  <2>1. F \in SUBSET Indexes
    BY <1>3
  <2> HIDE DEF x, F
  <2>2. QED BY <1>1, <2>1 DEF Locals, Places, F
<1>5. x.op = "read" /\ ~ x.raced => AsNewAs(Found(h) \cup Rows, x.since) /\ x.since <= Len(chain)
  BY <1>2, FoundIsNew, LocalsOf DEF Knows
<1>6. Rows = RowsIn(rows)
  BY DEF Rows, RowsIn
<1> HIDE DEF local, x
<1>7. Knows(local, rows, chain)
  BY <1>4, <1>5, <1>6 DEF Knows
<1>8. indexed' \in Nat
  BY <1>2, LocalsOf
<1>9. QED BY <1>2, <1>4, <1>7, <1>8, ReadingStep

LEMMA RowsGrow ==
  ASSUME NEW r \in [Indexes -> Statuses], NEW i \in Indexes, NEW s \in Statuses
  PROVE  /\ [r EXCEPT ![i] = s] \in [Indexes -> Statuses]
         /\ s # "none" => RowsIn([r EXCEPT ![i] = s]) = RowsIn(r) \cup {i}
BY DEF RowsIn

LEMMA UpsertKeeps ==
  ASSUME NavInv, NEW h \in Handlers, SyncUpsert(h)
  PROVE  NavInv'
<1> DEFINE x     == handlers[h]
           i     == Min(x.todo)
           local == [x EXCEPT !.todo = @ \ {i}]
           r     == [rows EXCEPT ![i] = "PUBLISHED"]
<1>1. x \in Locals /\ Knows(x, rows, chain) /\ rows \in [Indexes -> Statuses] /\ indexed \in Nat
  BY LocalsOf
<1>2. x.at = "upsert" /\ x.todo # {} /\ rows' = r /\ Step(h, local, TRUE)
      /\ UNCHANGED <<block, chain, indexed>>
  BY DEF SyncUpsert
<1>3. x.todo \subseteq Indexes
  BY <1>1 DEF Locals
<1>4. i \in x.todo
  <2>1. x.todo \subseteq Nat
    BY <1>3, IndexesAreFinite
  <2>2. QED BY <1>2, <2>1, MinIsLowest
<1> HIDE DEF i
<1>5. /\ local \in Locals /\ local.at = x.at /\ local.op = x.op /\ local.todo = x.todo \ {i}
      /\ local.raced = x.raced /\ local.since = x.since
  <2> HIDE DEF x
  <2>1. QED BY <1>1, <1>3 DEF Locals
<1>6. r \in [Indexes -> Statuses] /\ RowsIn(r) = RowsIn(rows) \cup {i}
  <2>1. "PUBLISHED" \in Statuses /\ i \in Indexes
    BY <1>3, <1>4 DEF Statuses
  <2>2. QED BY <1>1, <2>1, RowsGrow
<1> HIDE DEF local, r, x
<1>7. local.todo \cup RowsIn(r) = x.todo \cup RowsIn(rows)
  BY <1>4, <1>5, <1>6
<1>8. Knows(local, r, chain)
  BY <1>1, <1>2, <1>5, <1>7 DEF Knows
<1>9. rows' \in [Indexes -> Statuses] /\ indexed' \in Nat /\ Knows(local, rows', chain)
  BY <1>1, <1>2, <1>6, <1>8
<1>10. UNCHANGED <<block, chain>>
  BY <1>2
<1>11. QED BY <1>2, <1>5, <1>9, <1>10, OneGoesOn

LEMMA IndexedKeeps ==
  ASSUME NavInv, NEW h \in Handlers, SyncIndexed(h)
  PROVE  NavInv'
<1> DEFINE x     == handlers[h]
           local == [x EXCEPT !.at = "latest", !.upto = 0]
<1>1. x \in Locals /\ Knows(x, rows, chain)
  BY LocalsOf
<1>2. x.at = "upsert" /\ x.todo = {} /\ indexed' = x.upto /\ Step(h, local, FALSE)
      /\ UNCHANGED <<block, chain, rows>>
  BY DEF SyncIndexed
<1> HIDE DEF x
<1>3. /\ local \in Locals /\ local.at = "latest" /\ local.op = x.op
      /\ local.raced = x.raced /\ local.since = x.since
  BY <1>1 DEF Locals, Places
<1>4. indexed' \in Nat
  BY <1>1, <1>2 DEF Locals
<1> HIDE DEF local
<1>5. x.todo \cup RowsIn(rows) = RowsIn(rows)
  BY <1>2
<1>6. Knows(local, rows, chain)
  BY <1>1, <1>2, <1>3, <1>5 DEF Knows
<1>7. QED BY <1>2, <1>3, <1>4, <1>6, ReadingStep

LEMMA LatestKeeps ==
  ASSUME NavInv, NEW h \in Handlers, MarkLatest(h)
  PROVE  NavInv'
<1> DEFINE x == handlers[h]
<1>1. x \in Locals /\ Knows(x, rows, chain) /\ indexed \in Nat
  BY LocalsOf
<1>2. x.at = "latest" /\ UNCHANGED <<block, chain, rows, indexed>>
  BY DEF MarkLatest, stored
<1>3. Rows = RowsIn(rows) /\ Rows \subseteq Indexes
  BY DEF Rows, RowsIn
<1>4. x.op = "read" /\ ~ x.raced => AsNewAs(RowsIn(rows), x.since) /\ x.since <= Len(chain)
  <2> HIDE DEF x
  <2>1. QED BY <1>1, <1>2 DEF Knows
<1>5. indexed' \in Nat
  BY <1>1, <1>2
<1>6. CASE Rows = {}
  <2>1. Step(h, AfterSync(h), FALSE)
    BY <1>6 DEF MarkLatest
  <2>2. x.op = "read" /\ ~ x.raced
          => AsNewAs({i \in RowsIn(rows) : rows[i] = "PUBLISHED"}, x.since) /\ OneCurrent(rows)
    <3> HIDE DEF x
    <3>1. QED BY <1>3, <1>4, <1>6 DEF AsNewAs, OneCurrent
  <2>3. Knows(AfterSync(h), rows, chain)
    BY <2>2, KnowsAfterSync
  <2>4. QED BY <1>2, <1>5, <2>1, <2>3, AfterSyncIs, ReadingStep
<1>7. CASE Rows # {}
  <2> DEFINE m     == Max(Rows)
             local == [x EXCEPT !.at = "mark", !.latest = m]
  <2>1. Step(h, local, FALSE)
    BY <1>7 DEF MarkLatest
  <2>2. m \in Rows /\ \A i \in Rows : i <= m
    <3>1. Rows \subseteq Nat /\ MaxAttestations \in Nat /\ \A i \in Rows : i <= MaxAttestations
      BY <1>3, IndexesAreFinite DEF Indexes
    <3>2. QED BY <1>7, <3>1, MaxIsHighest
  <2>3. m \in Nat
    BY <1>3, <2>2, IndexesAreFinite
  <2> HIDE DEF m, x
  <2>4. /\ local \in Locals /\ local.at = "mark" /\ local.op = x.op /\ local.latest = m
        /\ local.raced = x.raced /\ local.since = x.since
    BY <1>1, <2>3 DEF Locals, Places
  <2>5. AsNewAs(RowsIn(rows), x.since) => m >= x.since
    <3>1. x.since \in Nat
      BY <1>1 DEF Locals
    <3>2. CASE x.since = 0
      BY <2>3, <3>2
    <3>3. CASE x.since # 0
      <4>1. SUFFICES ASSUME NEW i \in Rows, i >= x.since PROVE m >= x.since
        BY <1>3, <3>3 DEF AsNewAs
      <4>2. i \in Nat /\ i <= m
        BY <1>3, <2>2, IndexesAreFinite
      <4>3. QED BY <2>3, <3>1, <4>1, <4>2
    <3>4. QED BY <3>2, <3>3
  <2> HIDE DEF local
  <2>6. Knows(local, rows, chain)
    BY <1>3, <1>4, <2>2, <2>4, <2>5 DEF Knows
  <2>7. QED BY <1>2, <1>5, <2>1, <2>4, <2>6, ReadingStep
<1>8. QED BY <1>6, <1>7

LEMMA SupersededKeeps ==
  ASSUME NavInv, NEW h \in Handlers, MarkSuperseded(h)
  PROVE  NavInv'
<1> DEFINE x == handlers[h]
           l == x.latest
           r == Marked(l)
<1>0. CASE l \notin Rows
  <2>1. Step(h, Idle, FALSE) /\ UNCHANGED <<block, chain, rows, indexed>>
    BY <1>0 DEF MarkSuperseded
  <2>2. QED BY <2>1, IdleKnows, LocalsOf, ReadingStep
<1>1. x \in Locals /\ Knows(x, rows, chain) /\ rows \in [Indexes -> Statuses] /\ indexed \in Nat
  BY LocalsOf
<1>2. x.at = "mark" /\ (l \in Rows => rows' = r /\ Step(h, AfterSync(h), TRUE))
      /\ UNCHANGED <<block, chain, indexed>>
  BY DEF MarkSuperseded
<1>3. r = [i \in Indexes |-> IF i = l THEN "PUBLISHED"
                             ELSE IF rows[i] = "PUBLISHED" THEN "SUPERSEDED" ELSE rows[i]]
  BY DEF Marked
<1>4. r \in [Indexes -> Statuses]
  BY <1>1, <1>3 DEF Statuses
<1>5. l \in RowsIn(rows) => l \in {i \in RowsIn(r) : r[i] = "PUBLISHED"}
  BY <1>3 DEF RowsIn
<1>6. x.op = "read" /\ ~ x.raced
        => l \in RowsIn(rows) /\ l >= x.since /\ \A j \in RowsIn(rows) : j <= l
  <2> HIDE DEF r
  <2>1. QED BY <1>1, <1>2 DEF Knows
<1>7. l \in RowsIn(rows) /\ (\A j \in RowsIn(rows) : j <= l) => OneCurrent(r)
  <2>1. SUFFICES ASSUME l \in RowsIn(rows), \A j \in RowsIn(rows) : j <= l PROVE OneCurrent(r)
    OBVIOUS
  <2>2. RowsIn(r) = RowsIn(rows)
    BY <1>3, <2>1 DEF RowsIn
  <2>3. \A i \in RowsIn(r) : r[i] = "PUBLISHED" <=> i = l
    BY <1>3 DEF RowsIn
  <2>4. RowsIn(r) \subseteq Nat
    BY IndexesAreFinite DEF RowsIn
  <2> HIDE DEF r
  <2>5. QED BY <2>1, <2>2, <2>3, <2>4 DEF OneCurrent
<1> HIDE DEF r
<1>8. x.op = "read" /\ ~ x.raced
        => AsNewAs({i \in RowsIn(r) : r[i] = "PUBLISHED"}, x.since) /\ OneCurrent(r)
  BY <1>5, <1>6, <1>7 DEF AsNewAs
<1>9. Knows(AfterSync(h), r, chain)
  BY <1>8, KnowsAfterSync
<1>10. ASSUME l \in Rows
       PROVE  /\ rows' \in [Indexes -> Statuses] /\ indexed' \in Nat
              /\ Knows(AfterSync(h), rows', chain) /\ UNCHANGED <<block, chain>>
              /\ Step(h, AfterSync(h), TRUE)
  BY <1>1, <1>2, <1>4, <1>9, <1>10
<1>11. AfterSync(h) \in Locals
  BY AfterSyncIs
<1>12. QED BY <1>0, <1>10, <1>11, OneGoesOn

LEMMA AnswerKeeps ==
  ASSUME NavInv, NEW h \in Handlers, Answer(h)
  PROVE  NavInv'
<1> DEFINE i   == handlers[h].target
           m   == handlers[h].mark
           hit == handlers[h].op = "patch" /\ i \in Rows
<1>1. /\ rows' = IF hit THEN [rows EXCEPT ![i] = m] ELSE rows
      /\ Step(h, Idle, hit) /\ UNCHANGED <<block, chain, indexed>>
  BY DEF Answer
<1>2. rows \in [Indexes -> Statuses] /\ indexed \in Nat /\ m \in Statuses
  BY LocalsOf DEF Locals
<1>3. rows' \in [Indexes -> Statuses]
  BY <1>1, <1>2
<1>4. hit \in BOOLEAN /\ (hit \/ rows' = rows)
  BY <1>1
<1> HIDE DEF hit
<1>5. Idle \in Locals /\ Knows(Idle, rows', chain) /\ indexed' \in Nat /\ UNCHANGED <<block, chain>>
  BY <1>1, <1>2, IdleKnows
<1>6. QED BY <1>1, <1>3, <1>4, <1>5, OneGoesOn

LEMMA StoreKeeps ==
  ASSUME NavInv, NEW h \in Handlers, StoreDraft(h) \/ StoreNothing(h)
  PROVE  NavInv'
<1> DEFINE x     == handlers[h]
           i     == x.target
           local == [x EXCEPT !.op = "finalized", !.at = "latest"]
<1>1. UNCHANGED <<block, chain, indexed>>
  BY DEF StoreDraft, StoreNothing, stored
<1>2. x \in Locals /\ rows \in [Indexes -> Statuses] /\ indexed \in Nat
  BY LocalsOf
<1>3. CASE StoreDraft(h)
  <2>1. rows' = [rows EXCEPT ![i] = "PUBLISHED"] /\ Step(h, local, TRUE) /\ i \in Rows
    BY <1>3 DEF StoreDraft
  <2>2. i \in Indexes /\ "PUBLISHED" \in Statuses
    BY <2>1 DEF Rows, Statuses
  <2>3. rows' \in [Indexes -> Statuses]
    BY <1>2, <2>1, <2>2
  <2> HIDE DEF x
  <2>4. local \in Locals /\ local.op = "finalized"
    BY <1>2 DEF Locals, Places
  <2> HIDE DEF local
  <2>5. Knows(local, rows', chain)
    BY <2>4 DEF Knows
  <2>6. indexed' \in Nat /\ UNCHANGED <<block, chain>>
    BY <1>1, <1>2
  <2>7. QED BY <2>1, <2>3, <2>4, <2>5, <2>6, OneGoesOn
<1>4. CASE StoreNothing(h)
  <2>1. Step(h, Idle, FALSE) /\ rows' = rows
    BY <1>4 DEF StoreNothing, stored
  <2>2. QED BY <1>1, <1>2, <2>1, IdleKnows, ReadingStep
<1>5. QED BY <1>3, <1>4

\* Whoever reads while a row is deleted has raced the deletion.
LEMMA LosesKnows ==
  ASSUME NEW x \in Locals, NEW j \in Nat, NEW r, NEW c
  PROVE  /\ Loses(x, j) \in Locals /\ Knows(Loses(x, j), r, c)
         /\ Loses(x, j).todo = x.todo /\ Loses(x, j).op = x.op /\ Loses(x, j).mark = x.mark
<1> DEFINE y == Loses(x, j)
<1>1. /\ y \in Locals /\ y.todo = x.todo /\ y.op = x.op /\ y.mark = x.mark
      /\ y.raced = (x.raced \/ x.op = "read")
  BY DEF Loses, Races, Locals
<1> HIDE DEF y
<1>2. Knows(y, r, c)
  BY <1>1 DEF Knows
<1>3. QED BY <1>1, <1>2 DEF y

\* A row is deleted, by h or by the report of another token's valuation.
LEMMA DeletingKeeps ==
  ASSUME NavInv, NEW j \in Indexes, (\E h \in Handlers : StoreOver(h, j)) \/ StoreElsewhere(j)
  PROVE  NavInv'
<1>1. NavTypes /\ ChainGrows /\ handlers \in [Handlers -> Locals] /\ j \in Nat
  BY IndexesAreFinite DEF NavInv, NavTypes
<1>2. UNCHANGED <<block, chain, indexed>>
  BY DEF StoreOver, StoreElsewhere
<1>3. rows' \in [Indexes -> Statuses]
  <2>1. rows \in [Indexes -> Statuses] /\ {"PUBLISHED", "none"} \subseteq Statuses
    BY <1>1 DEF NavTypes, Statuses
  <2>2. CASE StoreElsewhere(j)
    BY <2>1, <2>2 DEF StoreElsewhere
  <2>3. CASE \E h \in Handlers : StoreOver(h, j)
    <3>1. PICK h \in Handlers : StoreOver(h, j)
      BY <2>3
    <3> DEFINE i == handlers[h].target
    <3>2. rows' = [rows EXCEPT ![i] = "PUBLISHED", ![j] = "none"]
      BY <3>1 DEF StoreOver
    <3> HIDE DEF i
    <3>3. QED BY <2>1, <3>2
  <2>4. QED BY <2>2, <2>3
<1>4. /\ handlers' = [g \in Handlers |-> handlers'[g]]
      /\ \A g \in Handlers : \/ handlers'[g] = Loses(handlers[g], j)
                             \/ handlers'[g] = [handlers[g] EXCEPT !.op = "finalized", !.at = "latest"]
  BY DEF StoreOver, StoreElsewhere
<1>5. ASSUME NEW g \in Handlers
      PROVE  handlers'[g] \in Locals /\ Knows(handlers'[g], rows', chain')
  <2> DEFINE x == handlers[g]
             y == [x EXCEPT !.op = "finalized", !.at = "latest"]
  <2>1. x \in Locals
    BY <1>1
  <2>2. handlers'[g] = Loses(x, j) \/ handlers'[g] = y
    BY <1>4
  <2> HIDE DEF x
  <2>3. y \in Locals /\ y.op = "finalized"
    BY <2>1 DEF Locals, Places
  <2> HIDE DEF y
  <2>4. Knows(y, rows', chain')
    BY <2>3 DEF Knows
  <2>5. QED BY <1>1, <2>1, <2>2, <2>3, <2>4, LosesKnows
<1>6. handlers' \in [Handlers -> Locals]
  BY <1>4, <1>5
<1>7. NavTypes' /\ ChainGrows'
  BY <1>1, <1>2, <1>3, <1>6 DEF NavTypes, ChainGrows
<1>8. QED BY <1>5, <1>7 DEF NavInv

LEMMA FailKeeps ==
  ASSUME NavInv, NEW h \in Handlers, Fail(h)
  PROVE  NavInv'
<1>1. Step(h, Idle, FALSE) /\ UNCHANGED <<block, chain, rows, indexed>>
  BY DEF Fail, stored
<1>2. QED BY <1>1, IdleKnows, LocalsOf, ReadingStep

-----------------------------------------------------------------------------
(* Rows are of attestations *)

\* A step of one handler that leaves rows and breakdowns of attestations.
LEMMA OneStaysOfTheChain ==
  ASSUME NavInv, OfTheChain, NEW h \in Handlers, NEW local, NEW wrote \in BOOLEAN,
         Step(h, local, wrote), chain' = chain,
         RowsIn(rows') \subseteq 1 .. Len(chain),
         detailed' \subseteq RowsIn(rows'), Writes(local, Len(chain))
  PROVE  OfTheChain'
<1>1. ASSUME NEW g \in Handlers
      PROVE  Writes(handlers'[g], Len(chain))
  <2> DEFINE y == handlers[g]
  <2>1. y \in Locals /\ Writes(y, Len(chain))
    BY LocalsOf DEF OfTheChain
  <2>2. handlers'[g] = IF g = h THEN local
                       ELSE IF wrote THEN Races(y) ELSE y
    BY DEF Step
  <2> HIDE DEF y
  <2>3. Writes(Races(y), Len(chain))
    BY <2>1 DEF Locals, Writes, Races
  <2>4. CASE g = h
    BY <2>2, <2>4 DEF Writes
  <2>5. CASE g # h
    BY <2>1, <2>2, <2>3, <2>5 DEF Writes
  <2>6. QED BY <2>4, <2>5
<1>2. QED BY <1>1 DEF OfTheChain

LEMMA IdleIsOfTheChain == ASSUME NEW n PROVE Writes(Idle, n)
BY DEF Idle, Writes

LEMMA BeginStaysOfTheChain ==
  ASSUME NavInv, OfTheChain, NEW h \in Handlers, BeginAny(h) \/ Fail(h)
  PROVE  OfTheChain'
<1>1. PICK local : /\ Step(h, local, FALSE) /\ Writes(local, Len(chain))
                   /\ UNCHANGED <<chain, rows, detailed>>
  <2>1. CASE Fail(h)
    <3>1. Step(h, Idle, FALSE) /\ UNCHANGED <<chain, rows, detailed>>
      BY <2>1 DEF Fail, stored
    <3>2. QED BY <3>1, IdleIsOfTheChain
  <2>2. CASE BeginAny(h)
    <3>1. PICK op, i, m : Begin(h, op, i, m) /\ (op = "patch" => m \in Marks)
      BY <2>2 DEF BeginAny
    <3> DEFINE race  == op = "read" /\ \E g \in Handlers : handlers[g].at # "idle"
               since == IF op = "read" /\ ~ race THEN Len(chain) ELSE 0
               at    == IF op = "finalize" THEN "validate" ELSE "sync"
               local == [Idle EXCEPT !.op = op, !.target = i, !.mark = m, !.raced = race,
                                 !.since = since, !.at = at]
    <3>2. Step(h, local, FALSE) /\ UNCHANGED <<chain, rows, detailed>>
      BY <3>1 DEF Begin, stored
    <3>3. at # "mark"
      OBVIOUS
    <3> HIDE DEF race, since, at
    <3>4. local.todo = {} /\ local.at = at /\ local.op = op /\ local.mark = m
      BY DEF Idle
    <3> HIDE DEF local
    <3>5. Writes(local, Len(chain))
      BY <3>1, <3>3, <3>4 DEF Writes
    <3>6. QED BY <3>2, <3>5
  <2>3. QED BY <2>1, <2>2
<1>2. /\ RowsIn(rows') \subseteq 1 .. Len(chain)
      /\ detailed' \subseteq RowsIn(rows')
  BY <1>1 DEF OfTheChain
<1>3. QED BY <1>1, <1>2, OneStaysOfTheChain

\* After the synchronisation nothing is left to write.
LEMMA AfterSyncIsOfTheChain ==
  ASSUME NavInv, OfTheChain, NEW h \in Handlers
  PROVE  Writes(AfterSync(h), Len(chain))
<1> DEFINE x == handlers[h]
<1>1. x \in Locals /\ Writes(x, Len(chain))
  BY LocalsOf DEF OfTheChain
<1>2. \/ AfterSync(h) = Idle
      \/ \E at \in {"store", "answer"} : AfterSync(h) = [x EXCEPT !.at = at, !.upto = 0, !.latest = 0]
  BY DEF AfterSync
<1> HIDE DEF x
<1>3. \A at \in {"store", "answer"} :
        Writes([x EXCEPT !.at = at, !.upto = 0, !.latest = 0], Len(chain))
  BY <1>1 DEF Locals, Writes
<1>4. QED BY <1>1, <1>2, <1>3, IdleIsOfTheChain

\* The steps that read.
LEMMA ReadingStaysOfTheChain ==
  ASSUME NavInv, OfTheChain, NEW h \in Handlers,
         Validate(h) \/ SyncRegistration(h) \/ SyncCount(h) \/ SyncHeight(h) \/ SyncEmpty(h)
           \/ SyncLogs(h) \/ SyncIndexed(h) \/ MarkLatest(h)
  PROVE  OfTheChain'
<1> DEFINE x == handlers[h]
           n == Len(chain)
<1>1. x \in Locals /\ Writes(x, n)
  BY LocalsOf DEF OfTheChain
<1>2. UNCHANGED <<chain, rows, detailed>>
  BY DEF Validate, SyncRegistration, SyncCount, SyncHeight, SyncEmpty, SyncLogs, SyncIndexed, MarkLatest, stored
<1>3. Writes(Idle, n) /\ Writes(AfterSync(h), n)
  BY IdleIsOfTheChain, AfterSyncIsOfTheChain
<1>4. Found(h) \subseteq 1 .. Len(chain)
  BY DEF Found, LogsIn
<1>5. Rows # {} => Max(Rows) \in RowsIn(rows)
  <2>1. Rows = RowsIn(rows) /\ Rows \subseteq Nat /\ MaxAttestations \in Nat
        /\ \A i \in Rows : i <= MaxAttestations
    BY IndexesAreFinite DEF Rows, RowsIn, Indexes
  <2>2. QED BY <2>1, MaxIsHighest
<1>6. \E local : Step(h, local, FALSE) /\ Writes(local, n)
  <2> DEFINE y1 == [x EXCEPT !.at = "sync"]
             y2 == [x EXCEPT !.at = "count", !.from = indexed + 1]
             y3 == [x EXCEPT !.at = "height", !.count = Len(chain)]
             y4(at) == [x EXCEPT !.upto = block, !.at = at]
             y5 == [x EXCEPT !.at = "upsert", !.todo = Found(h), !.from = 0, !.count = 0]
             y6 == [x EXCEPT !.at = "latest", !.upto = 0]
             y7 == [x EXCEPT !.at = "mark", !.latest = Max(Rows)]
  <2>1. CASE Validate(h) \/ SyncEmpty(h)
    <3>1. Step(h, Idle, FALSE) \/ Step(h, AfterSync(h), FALSE) \/ Step(h, y1, FALSE)
      BY <2>1 DEF Validate, GoTo, SyncEmpty
    <3> HIDE DEF x
    <3>2. Writes(y1, n)
      BY <1>1 DEF Locals, Writes
    <3>3. QED BY <1>3, <3>1, <3>2
  <2>2. CASE SyncRegistration(h) \/ SyncCount(h)
    <3>1. Step(h, y2, FALSE) \/ Step(h, y3, FALSE)
      BY <2>2 DEF SyncRegistration, SyncCount
    <3> DEFINE m == indexed + 1
    <3> HIDE DEF x, n, m
    <3>2. Writes(y2, n) /\ Writes(y3, n)
      BY <1>1 DEF Locals, Writes
    <3>3. QED BY <3>1, <3>2
  <2>3. CASE SyncHeight(h)
    <3>1. PICK at \in {"empty", "logs"} : Step(h, y4(at), FALSE)
      BY <2>3 DEF SyncHeight
    <3> HIDE DEF x
    <3>2. Writes(y4(at), n)
      BY <1>1, <3>1 DEF Locals, Writes
    <3>3. QED BY <3>1, <3>2
  <2>4. CASE SyncLogs(h)
    <3>1. Step(h, y5, FALSE)
      BY <2>4 DEF SyncLogs
    <3> DEFINE F == Found(h)
    <3>2. F \subseteq 1 .. n
      BY <1>4
    <3> HIDE DEF x, n, F
    <3>3. Writes(y5, n)
      BY <1>1, <3>2 DEF Locals, Writes, F
    <3>4. QED BY <3>1, <3>3
  <2>5. CASE SyncIndexed(h)
    <3>1. Step(h, y6, FALSE)
      BY <2>5 DEF SyncIndexed
    <3> HIDE DEF x
    <3>2. Writes(y6, n)
      BY <1>1 DEF Locals, Writes
    <3>3. QED BY <3>1, <3>2
  <2>6. CASE MarkLatest(h)
    <3>1. Step(h, AfterSync(h), FALSE) \/ (Rows # {} /\ Step(h, y7, FALSE))
      BY <2>6 DEF MarkLatest
    <3> DEFINE m == Max(Rows)
    <3>2. Rows # {} => m \in RowsIn(rows)
      BY <1>5
    <3> HIDE DEF x, n, m
    <3>3. Rows # {} => Writes(y7, n)
      BY <1>1, <3>2 DEF Locals, Writes, m
    <3>4. QED BY <1>3, <3>1, <3>3
  <2>7. QED BY <2>1, <2>2, <2>3, <2>4, <2>5, <2>6
<1>7. PICK local : Step(h, local, FALSE) /\ Writes(local, n)
  BY <1>6
<1>8. /\ RowsIn(rows') \subseteq 1 .. Len(chain)
      /\ detailed' \subseteq RowsIn(rows')
  BY <1>2 DEF OfTheChain
<1>9. QED BY <1>2, <1>7, <1>8, OneStaysOfTheChain

\* The steps that write rows.
LEMMA WritingStaysOfTheChain ==
  ASSUME NavInv, OfTheChain, NEW h \in Handlers,
         SyncUpsert(h) \/ MarkSuperseded(h) \/ Answer(h) \/ StoreDraft(h) \/ StoreNothing(h)
  PROVE  OfTheChain'
<1> DEFINE x == handlers[h]
<1>1. x \in Locals /\ Writes(x, Len(chain)) /\ rows \in [Indexes -> Statuses]
      /\ RowsIn(rows) \subseteq 1 .. Len(chain) /\ detailed \subseteq RowsIn(rows)
      /\ Rows = RowsIn(rows) /\ Rows \subseteq Indexes
  BY LocalsOf DEF OfTheChain, Rows, RowsIn
<1>2. CASE SyncUpsert(h)
  <2> DEFINE i     == Min(x.todo)
             local == [x EXCEPT !.todo = @ \ {i}]
  <2>1. x.at = "upsert" /\ x.todo # {} /\ rows' = [rows EXCEPT ![i] = "PUBLISHED"]
        /\ Step(h, local, TRUE) /\ UNCHANGED <<chain, detailed>>
    BY <1>2 DEF SyncUpsert
  <2>2. x.todo \subseteq Indexes /\ Indexes \subseteq Nat /\ x.todo \subseteq 1 .. Len(chain)
    BY <1>1, IndexesAreFinite DEF Locals, Writes
  <2>3. i \in x.todo
    BY <2>1, <2>2, MinIsLowest
  <2> HIDE DEF i, x
  <2>4. Writes(local, Len(chain))
    BY <1>1, <2>1 DEF Locals, Writes
  <2>5. RowsIn(rows') = RowsIn(rows) \cup {i}
    BY <1>1, <2>1, <2>2, <2>3, RowsGrow DEF Statuses
  <2> HIDE DEF local
  <2>6. QED BY <1>1, <2>1, <2>2, <2>3, <2>4, <2>5, OneStaysOfTheChain
<1>3. CASE MarkSuperseded(h)
  <2>1. UNCHANGED <<chain, detailed>>
        /\ IF x.latest \in Rows THEN rows' = Marked(x.latest) /\ Step(h, AfterSync(h), TRUE)
           ELSE Step(h, Idle, FALSE) /\ rows' = rows
    BY <1>3 DEF MarkSuperseded
  <2>2. CASE x.latest \in Rows
    <3>1. RowsIn(rows') = RowsIn(rows)
      <4> DEFINE l == x.latest
      <4>1. rows' = [i \in Indexes |-> IF i = l THEN "PUBLISHED"
                                        ELSE IF rows[i] = "PUBLISHED" THEN "SUPERSEDED" ELSE rows[i]]
        BY <2>1, <2>2 DEF Marked
      <4>2. l \in RowsIn(rows)
        BY <1>1, <2>2
      <4> HIDE DEF l
      <4>3. QED BY <4>1, <4>2 DEF RowsIn
    <3>2. QED BY <1>1, <2>1, <2>2, <3>1, AfterSyncIsOfTheChain, OneStaysOfTheChain
  <2>3. CASE x.latest \notin Rows
    BY <1>1, <2>1, <2>3, IdleIsOfTheChain, OneStaysOfTheChain
  <2>4. QED BY <2>2, <2>3
<1>4. CASE Answer(h)
  <2> DEFINE hit == x.op = "patch" /\ x.target \in Rows
  <2>1. rows' = (IF hit THEN [rows EXCEPT ![x.target] = x.mark] ELSE rows) /\ Step(h, Idle, hit)
        /\ UNCHANGED <<chain, detailed>>
    BY <1>4 DEF Answer
  <2>2. RowsIn(rows) \subseteq RowsIn(rows') /\ RowsIn(rows') \subseteq Rows
    <3>1. CASE hit
      <4>1. x.mark \in Statuses /\ x.mark # "none" /\ x.target \in Indexes
        BY <1>1, <3>1, NavAssumption DEF Writes, Statuses
      <4>2. RowsIn(rows') = RowsIn(rows) \cup {x.target}
        BY <1>1, <2>1, <3>1, <4>1, RowsGrow
      <4>3. QED BY <1>1, <3>1, <4>2
    <3>2. CASE ~ hit
      BY <1>1, <2>1, <3>2
    <3>3. QED BY <3>1, <3>2
  <2>3. hit \in BOOLEAN
    OBVIOUS
  <2> HIDE DEF hit
  <2>4. QED BY <1>1, <2>1, <2>2, <2>3, IdleIsOfTheChain, OneStaysOfTheChain
<1>5. CASE StoreDraft(h)
  <2> DEFINE i     == x.target
             local == [x EXCEPT !.op = "finalized", !.at = "latest"]
  <2>1. rows' = [rows EXCEPT ![i] = "PUBLISHED"] /\ detailed' = detailed \cup {i}
        /\ Step(h, local, TRUE) /\ chain' = chain /\ i \in Rows
    BY <1>5 DEF StoreDraft
  <2>2. RowsIn(rows') = RowsIn(rows) \cup {i} /\ i \in RowsIn(rows)
    BY <1>1, <2>1, RowsGrow DEF Statuses
  <2> HIDE DEF i, x
  <2>3. Writes(local, Len(chain))
    BY <1>1 DEF Locals, Writes
  <2> HIDE DEF local
  <2>4. QED BY <1>1, <2>1, <2>2, <2>3, OneStaysOfTheChain
<1>6. CASE StoreNothing(h)
  <2>1. Step(h, Idle, FALSE) /\ UNCHANGED <<chain, rows, detailed>>
    BY <1>6 DEF StoreNothing, stored
  <2>2. QED BY <1>1, <2>1, IdleIsOfTheChain, OneStaysOfTheChain
<1>7. QED BY <1>2, <1>3, <1>4, <1>5, <1>6

\* A row goes, and its breakdown with it.
LEMMA DeletingStaysOfTheChain ==
  ASSUME NavInv, OfTheChain, NEW j \in Indexes,
         (\E h \in Handlers : StoreOver(h, j)) \/ StoreElsewhere(j)
  PROVE  OfTheChain'
<1>1. /\ RowsIn(rows) \subseteq 1 .. Len(chain) /\ detailed \subseteq RowsIn(rows)
      /\ rows \in [Indexes -> Statuses] /\ handlers \in [Handlers -> Locals] /\ j \in Nat
      /\ \A g \in Handlers : Writes(handlers[g], Len(chain))
  BY IndexesAreFinite DEF OfTheChain, NavInv, NavTypes
<1>2. chain' = chain
  BY DEF StoreOver, StoreElsewhere
<1>3. RowsIn(rows') \subseteq RowsIn(rows) /\ detailed' \subseteq RowsIn(rows')
  <2>1. CASE StoreElsewhere(j)
    <3>1. rows' = [rows EXCEPT ![j] = "none"] /\ detailed' = detailed \ {j}
      BY <2>1 DEF StoreElsewhere
    <3>2. QED BY <1>1, <3>1 DEF RowsIn
  <2>2. CASE \E h \in Handlers : StoreOver(h, j)
    <3>1. PICK h \in Handlers : StoreOver(h, j)
      BY <2>2
    <3> DEFINE i == handlers[h].target
    <3>2. /\ rows' = [rows EXCEPT ![i] = "PUBLISHED", ![j] = "none"] /\ i \in Rows /\ i # j
          /\ detailed' = (detailed \ {j}) \cup {i}
      BY <3>1 DEF StoreOver
    <3>3. i \in RowsIn(rows)
      BY <3>2 DEF Rows, RowsIn
    <3> HIDE DEF i
    <3>4. QED BY <1>1, <3>2, <3>3 DEF RowsIn
  <2>3. QED BY <2>1, <2>2
<1>4. \A g \in Handlers : \/ handlers'[g] = Loses(handlers[g], j)
                           \/ handlers'[g] = [handlers[g] EXCEPT !.op = "finalized", !.at = "latest"]
  BY DEF StoreOver, StoreElsewhere
<1>5. ASSUME NEW g \in Handlers
      PROVE  Writes(handlers'[g], Len(chain'))
  <2> DEFINE x == handlers[g]
             y == [x EXCEPT !.op = "finalized", !.at = "latest"]
             n == Len(chain)
  <2>1. x \in Locals /\ Writes(x, n) /\ (handlers'[g] = Loses(x, j) \/ handlers'[g] = y)
    BY <1>1, <1>4
  <2>2. Len(chain') = n
    BY <1>2
  <2> HIDE DEF x, n
  <2>3. Writes(y, n)
    BY <2>1 DEF Locals, Writes
  <2>4. Writes(Loses(x, j), n)
    BY <1>1, <2>1, LosesKnows DEF Writes
  <2>5. QED BY <2>1, <2>2, <2>3, <2>4
<1>6. QED BY <1>1, <1>2, <1>3, <1>5 DEF OfTheChain

LEMMA StaysOfTheChain ==
  ASSUME NavInv, OfTheChain, [Next]_vars
  PROVE  OfTheChain'
<1>1. CASE Tick \/ CreateNavDraft \/ UNCHANGED vars
  BY <1>1 DEF Tick, CreateNavDraft, vars, stored, OfTheChain
<1>2. CASE PublishNAV
  <2>1. chain' = Append(chain, block + 1) /\ UNCHANGED <<rows, detailed, handlers>>
    BY <1>2 DEF PublishNAV, stored
  <2>2. chain \in Seq(Nat) /\ block \in Nat
    BY DEF NavInv, NavTypes
  <2>3. Len(chain) \in Nat /\ Len(chain') = Len(chain) + 1
    BY <2>1, <2>2
  <2>4. 1 .. Len(chain) \subseteq 1 .. Len(chain')
    BY <2>3
  <2>5. QED BY <2>1, <2>4 DEF OfTheChain, Writes
<1>3. ASSUME NEW h \in Handlers,
             BeginAny(h) \/ Fail(h) \/ (Serve(h) /\ ~ \E j \in Indexes : StoreOver(h, j))
      PROVE  OfTheChain'
  BY <1>3, BeginStaysOfTheChain, ReadingStaysOfTheChain, WritingStaysOfTheChain DEF Serve, Sync
<1>4. ASSUME NEW j \in Indexes, (\E h \in Handlers : StoreOver(h, j)) \/ StoreElsewhere(j)
      PROVE  OfTheChain'
  BY <1>4, DeletingStaysOfTheChain
<1>5. QED BY <1>1, <1>2, <1>3, <1>4 DEF Next, Serve

-----------------------------------------------------------------------------
(* What is proved *)

LEMMA NavInvariance == Spec => [](NavInv /\ OfTheChain)
<1>1. NavInv /\ OfTheChain /\ [Next]_vars => NavInv'
  <2>1. SUFFICES ASSUME NavInv, OfTheChain, [Next]_vars PROVE NavInv'
    OBVIOUS
  <2>2. ASSUME NEW h \in Handlers, BeginAny(h) \/ Serve(h) \/ Fail(h)
        PROVE  NavInv'
    <3>1. CASE Sync(h)
      BY <2>1, <3>1, AskingKeeps, EmptyKeeps, LogsKeep, UpsertKeeps, IndexedKeeps DEF Sync
    <3>2. CASE Serve(h)
      BY <2>1, <3>1, <3>2, ValidateKeeps, LatestKeeps, SupersededKeeps, AnswerKeeps, StoreKeeps,
            DeletingKeeps
         DEF Serve
    <3>3. QED BY <2>1, <2>2, <3>2, BeginKeeps, FailKeeps
  <2>3. CASE UNCHANGED vars
    BY <2>1, <2>3 DEF vars, stored, NavInv, NavTypes, ChainGrows
  <2>4. QED BY <2>1, <2>2, <2>3, ChainSteps, DeletingKeeps DEF Next
<1>2. NavInv /\ OfTheChain /\ [Next]_vars => OfTheChain'
  BY StaysOfTheChain
<1>3. Init => OfTheChain
  BY DEF Init, OfTheChain, Writes, RowsIn, Idle
<1>4. QED BY <1>1, <1>2, <1>3, Beginning, PTL DEF Spec

(***************************************************************************)
(* No row of the database is of an attestation that is not on chain, and   *)
(* no publisher's breakdown of one without a row, in whatever order copies *)
(* of the events, reported transactions and marks by hand write them       *)
(* (upsertAttestationFromEvent, finalizePublishedNavAttestation).          *)
(***************************************************************************)
RowsAreAttested == Rows \subseteq 1 .. Len(chain) /\ detailed \subseteq Rows

\* The database is never ahead of the chain.
THEOREM RowsAreOfTheChain == Spec => []RowsAreAttested
<1>1. OfTheChain => RowsAreAttested
  BY DEF OfTheChain, RowsAreAttested, Rows, RowsIn
<1>2. QED BY <1>1, NavInvariance, PTL

(***************************************************************************)
(* A request for a valuation that no other one overlaps answers with the   *)
(* newest there was on chain when it came (getCurrentNav after             *)
(* syncNavOracleHistory), and leaves one valuation current, the highest,   *)
(* whatever requests before it missed, failed half way, marked or left     *)
(* behind.                                                                 *)
(***************************************************************************)
THEOREM LoneReadsAreFresh == Spec => []LoneReadIsFresh
<1>1. NavInv => LoneReadIsFresh
  <2>1. SUFFICES ASSUME NavInv, NEW h \in Handlers, Reads(h), ~ handlers[h].raced
                 PROVE  /\ Current >= handlers[h].since
                        /\ \A i \in Rows : rows[i] = "PUBLISHED" <=> i = Max(Rows)
    BY DEF LoneReadIsFresh
  <2> DEFINE x == handlers[h]
             S == {0} \cup {i \in Rows : rows[i] = "PUBLISHED"}
  <2>2. x \in Locals /\ Knows(x, rows, chain) /\ x.at = "answer" /\ x.op = "read" /\ ~ x.raced
    BY <2>1, LocalsOf DEF Reads
  <2>3. x.since \in Nat
    BY <2>2 DEF Locals
  <2> HIDE DEF x
  <2>4. AsNewAs({i \in RowsIn(rows) : rows[i] = "PUBLISHED"}, x.since)
    BY <2>2 DEF Knows
  <2>5. Rows = RowsIn(rows) /\ Rows \subseteq Indexes
    BY DEF Rows, RowsIn
  <2>6. S \subseteq Nat /\ 0 \in S /\ MaxAttestations \in Nat /\ \A s \in S : s <= MaxAttestations
    BY <2>5, IndexesAreFinite DEF Indexes
  <2>7. Current = Max(S)
    BY DEF Current
  <2> HIDE DEF S
  <2>8. Current \in S /\ \A s \in S : s <= Current
    BY <2>6, <2>7, MaxIsHighest
  <2>9. Current \in Nat
    BY <2>6, <2>8
  <2>10. ASSUME x.since = 0 PROVE Current >= handlers[h].since
    BY <2>9, <2>10 DEF x
  <2>11. ASSUME x.since # 0 PROVE Current >= handlers[h].since
    <3>1. PICK i \in {k \in RowsIn(rows) : rows[k] = "PUBLISHED"} : i >= x.since
      BY <2>4, <2>11 DEF AsNewAs
    <3>2. i \in S
      BY <2>5, <3>1 DEF S
    <3>3. i <= Current /\ i \in Nat
      BY <2>6, <2>8, <3>2
    <3>4. QED BY <2>3, <2>9, <3>1, <3>3 DEF x
  <2>12. Current >= handlers[h].since
    BY <2>10, <2>11
  <2>13. ASSUME NEW i \in Rows PROVE rows[i] = "PUBLISHED" <=> i = Max(Rows)
    <3>1. Rows \subseteq Nat /\ Rows # {} /\ \A k \in Rows : k <= MaxAttestations
      BY <2>5, <2>13, IndexesAreFinite DEF Indexes
    <3>2. Max(Rows) \in Rows /\ \A k \in Rows : k <= Max(Rows)
      BY <2>6, <3>1, MaxIsHighest
    <3>3. rows[i] = "PUBLISHED" <=> \A k \in Rows : k <= i
      BY <2>2, <2>5 DEF Knows, OneCurrent
    <3>4. i \in Nat /\ Max(Rows) \in Nat
      BY <3>1, <3>2
    <3> DEFINE m == Max(Rows)
    <3> HIDE DEF m
    <3>5. (\A k \in Rows : k <= i) <=> i = m
      BY <3>1, <3>2, <3>4 DEF m
    <3>6. QED BY <3>3, <3>5 DEF m
  <2>14. QED BY <2>12, <2>13
<1>2. QED BY <1>1, NavInvariance, PTL
=============================================================================
