------------------------------- MODULE Vector -------------------------------
(***************************************************************************)
(* The retrieval index (supra_vector): handles on one file, each with a    *)
(* resident table of binary codes and a bounded cache of exact vectors,    *)
(* kept level with the file through a revision the writers bump.           *)
(*                                                                         *)
(* A handle's threads share its store's connection, so their transactions  *)
(* exclude each other; transactions of two handles overlap, the readers'   *)
(* on the snapshot they began with.  What follows a commit or happens      *)
(* inside a search under no lock of its own is a step of its own.          *)
(***************************************************************************)
EXTENDS Integers, Sequences, FiniteSets, FiniteSetsExt, SequencesExt, Functions

CONSTANTS VThreads,      \* callers
          HandleOf,      \* the handle each caller uses
          VWriters, VReaders, \* the callers that upsert and remove, and those that search
          Locators, Embeddings, Bodies,
          Models,        \* a model's name, width and threshold, as an open may bring them
          Query,         \* the vector searched for, and the terms with it
          QueryTerms,
          RerankWidth, CacheBytes, \* IndexOptions
          Limits,        \* what a search may be limited to
          HybridDepth,   \* how deep a hybrid search asks each lane to go
          CodeBits, MaxDims, \* bits in a byte of code, and the widest model
          MaxIndexRevision  \* bound: writes to the file

VHandles == {HandleOf[t] : t \in VThreads}

VARIABLES vfile,         \* the file: meta, revision, rows, text
          vhandle,       \* per handle, its meta and resident state, or ClosedHandle
          vjob           \* per caller, where it is in a call

vectorVars == <<vfile, vhandle, vjob>>

FirstOf(seq, n) == SubSeq(seq, 1, Min({n, Len(seq)}))

(***************************************************************************)
(* Codes                                                                   *)
(***************************************************************************)
Unit == 25
similarity(u, v) == FoldFunction(+, 0, [i \in 1..Len(u) |-> u[i] * v[i]])
encode(v, threshold) == [i \in 1..Len(v) |-> IF v[i] > threshold[i] THEN 1 ELSE 0]
distance(a, b) == Cardinality({i \in 1..Len(a) : a[i] # b[i]})
\* validate: the right width, and unit length (components are scaled to integers).
UnitVector(v, dims) == Len(v) = dims /\ similarity(v, v) = Unit

(***************************************************************************)
(* The code table: <<slot, code>> in a dense sequence                      *)
(***************************************************************************)
TableAt(table, slot) == {i \in 1..Len(table) : table[i][1] = slot}
TableUpsert(table, slot, code) ==
  IF TableAt(table, slot) = {} THEN Append(table, <<slot, code>>)
  ELSE [i \in 1..Len(table) |-> IF i \in TableAt(table, slot) THEN <<slot, code>> ELSE table[i]]
\* remove: the last entry takes the place of the removed one.
TableRemove(table, slot) ==
  IF TableAt(table, slot) = {} THEN table
  ELSE LET last == Len(table) IN
       [i \in 1..(last - 1) |-> IF i \in TableAt(table, slot) THEN table[last] ELSE table[i]]

\* nearest: the width closest codes, ties by slot.
nearest(table, code, width) ==
  LET closer(x, y) == \/ distance(code, x[2]) < distance(code, y[2])
                      \/ distance(code, x[2]) = distance(code, y[2]) /\ x[1] <= y[1]
      sorted == SortSeq(table, closer) IN
  [i \in 1..Min({width, Len(table)}) |-> sorted[i][1]]

\* order_exact on <<slot, similarity>>.
order_exact(scored) == SortSeq(scored, LAMBDA x, y : x[2] > y[2] \/ (x[2] = y[2] /\ x[1] <= y[1]))

(***************************************************************************)
(* Fusion of the lanes, each a sequence of slots, best first               *)
(***************************************************************************)
RRF_K == 60
MAX_FUSION_DEPTH == 1000
\* Fault: the scale is too small to tell deep neighbours apart.
RRF_SCALE_Small == 100000
RRF_SCALE == 10000000
contribution(rank) == RRF_SCALE \div (RRF_K + rank)
Score(lanes, slot) ==
  FoldFunction(+, 0, [l \in 1..Len(lanes) |->
    IF slot \in Range(lanes[l])
      THEN contribution(CHOOSE i \in 1..Len(lanes[l]) : lanes[l][i] = slot) ELSE 0])
fuse(lanes) ==
  LET slots == UNION {Range(lanes[l]) : l \in 1..Len(lanes)} IN
  SetToSortSeq(slots, LAMBDA x, y : \/ Score(lanes, x) > Score(lanes, y)
                                    \/ Score(lanes, x) = Score(lanes, y) /\ x < y)

\* lexical_query: the distinct words, at most MAX_QUERY_TOKENS of them.
MAX_QUERY_TOKENS == 32
lexical_query(words) ==
  LET firsts == SelectSeq([i \in 1..Len(words) |-> <<i, words[i]>>],
                          LAMBDA p : \A j \in 1..(p[1] - 1) : words[j] # p[2]) IN
  FirstOf([i \in 1..Len(firsts) |-> firsts[i][2]], MAX_QUERY_TOKENS)

(***************************************************************************)
(* The exact cache: <<slot, vector>>, least recently used first            *)
(***************************************************************************)
Others(cache, slot) == SelectSeq(cache, LAMBDA e : e[1] # slot)
CacheGet(cache, slot) ==
  Others(cache, slot) \o SelectSeq(cache, LAMBDA e : e[1] = slot)
VectorBytes(v) == 4 * Len(v)
UsedBytes(cache) == FoldFunction(+, 0, [i \in 1..Len(cache) |-> VectorBytes(cache[i][2])])
\* evict_one, from the front, until the rest and the new one fit; a vector larger than
\* the budget is not kept, and flushes nothing.
CachePut(cache, slot, v) ==
  LET rest == Others(cache, slot)
      From(n) == SubSeq(rest, n + 1, Len(rest))
      evicted == {n \in 0..Len(rest) : UsedBytes(From(n)) + VectorBytes(v) <= CacheBytes} IN
  IF VectorBytes(v) > CacheBytes THEN cache ELSE Append(From(Min(evicted)), <<slot, v>>)
invalidate(cache, slot) == Others(cache, slot)

(***************************************************************************)
(* The file                                                                *)
(***************************************************************************)
NoMeta == [model |-> "", dims |-> 0, threshold |-> <<>>]
\* lapped is history: the resident state took a write out of turn since it was
\* loaded.
ClosedHandle == [meta |-> NoMeta, loaded |-> FALSE, codes |-> <<>>, cache |-> <<>>,
                 revision |-> 0, lapped |-> FALSE]
IdleJob == [op |-> "idle"]

\* A row's slot is the smallest rowid above all in use; an upsert on a present
\* locator keeps its slot.
SlotOf(file, locator) ==
  LET mine == {s \in DOMAIN file.rows : file.rows[s].locator = locator} IN
  IF mine # {} THEN CHOOSE s \in mine : TRUE ELSE Max({0} \cup DOMAIN file.rows) + 1

load_codes(file) ==
  LET slots == SetToSortSeq(DOMAIN file.rows, <) IN
  [i \in 1..Len(slots) |-> <<slots[i], file.rows[slots[i]].code>>]

\* The state loaded from the file in one transaction.
Loaded(state, file) ==
  [state EXCEPT !.loaded = TRUE, !.codes = load_codes(file), !.cache = <<>>,
                !.revision = file.revision, !.lapped = FALSE]

VectorInit ==
  /\ vfile = [meta |-> NoMeta, revision |-> 0, rows |-> <<>>]
  /\ vhandle = [h \in VHandles |-> ClosedHandle]
  /\ vjob = [t \in VThreads |-> IdleJob]

IsOpen(h) == vhandle[h].loaded

\* A caller inside a search's transaction holds its store's connection
\* (Store::with_transaction, with_connection).
Connected(h) ==
  \E t \in VThreads : HandleOf[t] = h /\ vjob[t].op \in {"sync", "scan", "exact", "fetch"}
\* A caller may make a call; what its last one returned is history.
Ready(t) ==
  IsOpen(HandleOf[t]) /\ vjob[t].op \in {"idle", "found", "fused", "listed", "malformed"}
Begins(t) == Ready(t) /\ ~Connected(HandleOf[t])

\* What open asks of its arguments.
MetaUsable(meta) ==
  /\ meta.dims > 0 /\ meta.dims % CodeBits = 0 /\ meta.dims <= MaxDims
  /\ Len(meta.threshold) = meta.dims
  /\ meta.model # ""

\* open, its first transaction: the first one freezes model and threshold, a
\* later one must match.
VectorOpen(h, meta) ==
  /\ vhandle[h] = ClosedHandle
  /\ MetaUsable(meta) /\ vfile.meta \in {NoMeta, meta}
  /\ vfile' = [vfile EXCEPT !.meta = meta]
  /\ vhandle' = [vhandle EXCEPT ![h].meta = meta]
  /\ UNCHANGED vjob

\* Unusable arguments or a mismatch: an error, no handle, nothing written.
VectorRefused(h, meta) ==
  /\ vhandle[h] = ClosedHandle
  /\ ~MetaUsable(meta) \/ vfile.meta \notin {NoMeta, meta}
  /\ UNCHANGED vectorVars

\* open, its second transaction: codes and revision of one snapshot.
VectorLoad(h) ==
  /\ vhandle[h].meta # NoMeta /\ ~vhandle[h].loaded
  /\ vhandle' = [vhandle EXCEPT ![h] = Loaded(@, vfile)]
  /\ UNCHANGED <<vfile, vjob>>

\* The handle is dropped, or its process dies between two steps of its callers.
VectorClose(h) ==
  /\ vhandle[h] # ClosedHandle
  /\ vhandle' = [vhandle EXCEPT ![h] = ClosedHandle]
  /\ vjob' = [t \in VThreads |-> IF HandleOf[t] = h THEN IdleJob ELSE vjob[t]]
  /\ UNCHANGED vfile

(***************************************************************************)
(* Writing                                                                 *)
(***************************************************************************)
\* What upsert takes: a name, and a vector of the index's width and of unit length.
Upsertable(locator, v, dims) == locator # "" /\ UnitVector(v, dims)

\* upsert: the transaction, and then (UpsertApply) the resident state.  What is refused
\* changes nothing.
UpsertCommit(t, locator, v, body) ==
  LET h == HandleOf[t]
      slot == SlotOf(vfile, locator)
      code == encode(v, vhandle[h].meta.threshold)
      row == [locator |-> locator, embedding |-> v, code |-> code, body |-> body] IN
  /\ t \in VWriters /\ Begins(t)
  /\ \/ ~Upsertable(locator, v, vhandle[h].meta.dims) /\ UNCHANGED vectorVars
     \/ /\ Upsertable(locator, v, vhandle[h].meta.dims)
        /\ vfile.revision < MaxIndexRevision
        /\ vfile' = [vfile EXCEPT !.rows = (slot :> row) @@ @, !.revision = @ + 1]
        /\ vjob' = [vjob EXCEPT ![t] = [op |-> "upsert", slot |-> slot, code |-> code,
                                        revision |-> vfile.revision + 1]]
        /\ UNCHANGED vhandle

\* After a commit, under the state's own lock: the revision becomes the one this
\* write got, whether or not the resident state had all writes before it.
Settle(state, revision) ==
  [state EXCEPT !.revision = revision,
                !.lapped = @ \/ revision \notin {state.revision, state.revision + 1}]

\* Fault: the cached vector of the slot is left in place.
UpsertApply_Cached(t) ==
  /\ vjob[t].op = "upsert"
  /\ vhandle' = [vhandle EXCEPT ![HandleOf[t]] =
       [Settle(@, vjob[t].revision) EXCEPT
          !.codes = TableUpsert(@, vjob[t].slot, vjob[t].code)]]
  /\ vjob' = [vjob EXCEPT ![t] = IdleJob]
  /\ UNCHANGED vfile

UpsertApply(t) ==
  /\ vjob[t].op = "upsert"
  /\ vhandle' = [vhandle EXCEPT ![HandleOf[t]] =
       [Settle(@, vjob[t].revision) EXCEPT
          !.codes = TableUpsert(@, vjob[t].slot, vjob[t].code),
          !.cache = invalidate(@, vjob[t].slot)]]
  /\ vjob' = [vjob EXCEPT ![t] = IdleJob]
  /\ UNCHANGED vfile

\* remove: an absent locator changes nothing and bumps nothing.
RemoveCommit(t, locator) ==
  LET mine == {s \in DOMAIN vfile.rows : vfile.rows[s].locator = locator} IN
  /\ t \in VWriters /\ Begins(t)
  /\ \/ mine = {} /\ UNCHANGED vectorVars
     \/ \E slot \in mine :
          /\ vfile.revision < MaxIndexRevision
          /\ vfile' = [vfile EXCEPT !.rows = Restrict(@, DOMAIN @ \ {slot}), !.revision = @ + 1]
          /\ vjob' = [vjob EXCEPT ![t] = [op |-> "remove", slot |-> slot, revision |-> vfile.revision + 1]]
          /\ UNCHANGED vhandle

RemoveApply(t) ==
  /\ vjob[t].op = "remove"
  /\ vhandle' = [vhandle EXCEPT ![HandleOf[t]] =
       [Settle(@, vjob[t].revision) EXCEPT
          !.codes = TableRemove(@, vjob[t].slot),
          !.cache = invalidate(@, vjob[t].slot)]]
  /\ vjob' = [vjob EXCEPT ![t] = IdleJob]
  /\ UNCHANGED vfile

(***************************************************************************)
(* Searching                                                               *)
(***************************************************************************)
\* Fault: the resident state is never taken for stale.
stale_Never(state, file) == FALSE

\* sync_if_stale: another handle's write moved the revision.
stale(state, file) == state.revision # file.revision

\* What a search found, with what it has to be held against.
Found(t, job, hits) ==
  [vjob EXCEPT ![t] = [op |-> "found", limit |-> job.limit, snapshot |-> job.snapshot,
                       hits |-> hits, lapped |-> vhandle[HandleOf[t]].lapped]]
Malformed(t) == [vjob EXCEPT ![t] = [op |-> "malformed", lapped |-> vhandle[HandleOf[t]].lapped]]

\* search_semantic, called for itself or by search_hybrid with a depth for its limit
\* (the caller then goes on with SearchFuse); limited to nothing it returns at once.
\* It begins its transaction, whose snapshot the rest reads; if the state is stale it
\* reads the codes before it takes the state's lock (SearchSync).
SearchBegin(t, limit) ==
  LET h == HandleOf[t]
      job == [op |-> IF stale(vhandle[h], vfile) THEN "sync" ELSE "scan",
              limit |-> limit, snapshot |-> vfile] IN
  /\ Begins(t) /\ UnitVector(Query, vhandle[h].meta.dims)
  /\ vjob' = IF limit = 0 THEN vjob ELSE [vjob EXCEPT ![t] = job]
  /\ UNCHANGED <<vfile, vhandle>>

\* sync_if_stale under the lock: a state that got there meanwhile is left alone.
SearchSync(t) ==
  LET h == HandleOf[t] IN
  /\ vjob[t].op = "sync"
  /\ vhandle' = IF stale(vhandle[h], vjob[t].snapshot)
                THEN [vhandle EXCEPT ![h] = Loaded(@, vjob[t].snapshot)] ELSE vhandle
  /\ vjob' = [vjob EXCEPT ![t].op = "scan"]
  /\ UNCHANGED vfile

SearchScan(t) ==
  LET h == HandleOf[t]
      j == vjob[t]
      near == nearest(vhandle[h].codes, encode(Query, vhandle[h].meta.threshold),
                      Max({RerankWidth, j.limit})) IN
  /\ j.op = "scan"
  /\ vjob' = IF near = <<>> THEN Found(t, j, <<>>)
             ELSE [vjob EXCEPT ![t] = [j EXCEPT !.op = "exact"] @@ [scored |-> <<>>, left |-> near]]
  /\ UNCHANGED <<vfile, vhandle>>

Scored(t, v) ==
  [vjob EXCEPT ![t].op = "exact", ![t].left = Tail(@),
               ![t].scored = Append(@, <<Head(vjob[t].left), similarity(Query, v)>>)]

\* exact: the next candidate's vector from the cache, under the state's lock,
SearchExact(t) ==
  LET h == HandleOf[t]
      slot == Head(vjob[t].left)
      cache == vhandle[h].cache
      cached == {i \in 1..Len(cache) : cache[i][1] = slot} IN
  /\ vjob[t].op = "exact" /\ vjob[t].left # <<>>
  /\ \/ \E i \in cached :
          /\ vhandle' = [vhandle EXCEPT ![h].cache = CacheGet(@, slot)]
          /\ vjob' = Scored(t, cache[i][2])
     \/ /\ cached = {}
        /\ vjob' = [vjob EXCEPT ![t].op = "fetch"]
        /\ UNCHANGED vhandle
  /\ UNCHANGED vfile

\* or, without that lock, from the snapshot's row, which then goes to the cache; a slot
\* without a row ends the search.
SearchFetch(t) ==
  LET h == HandleOf[t]
      slot == Head(vjob[t].left)
      rows == vjob[t].snapshot.rows IN
  /\ vjob[t].op = "fetch"
  /\ \/ /\ slot \in DOMAIN rows
        /\ vhandle' = [vhandle EXCEPT ![h].cache = CachePut(@, slot, rows[slot].embedding)]
        /\ vjob' = Scored(t, rows[slot].embedding)
     \/ /\ slot \notin DOMAIN rows
        /\ vjob' = Malformed(t)
        /\ UNCHANGED vhandle
  /\ UNCHANGED vfile

\* The best of the scored, and their locators.
Named(snapshot, scored, limit) ==
  LET best == FirstOf(order_exact(scored), limit) IN
  [i \in DOMAIN best |->
     [slot |-> best[i][1], locator |-> snapshot.rows[best[i][1]].locator, similarity |-> best[i][2]]]

SearchName(t) ==
  LET j == vjob[t]
      best == FirstOf(order_exact(j.scored), j.limit) IN
  /\ j.op = "exact" /\ j.left = <<>>
  /\ vjob' = IF \A i \in DOMAIN best : best[i][1] \in DOMAIN j.snapshot.rows
             THEN Found(t, j, Named(j.snapshot, j.scored, j.limit)) ELSE Malformed(t)
  /\ UNCHANGED <<vfile, vhandle>>

\* search_lexical on a file: any order of the rows that match a term of the query (bm25
\* is the database's), cut to the limit; a query without a term finds nothing.
Matching(file) == {s \in DOMAIN file.rows : file.rows[s].body \in Range(lexical_query(QueryTerms))}
search_lexical(file, limit) == {FirstOf(ranked, limit) : ranked \in SetToSeqs(Matching(file))}

\* search_lexical, called for itself, in a transaction of its own.
SearchLexical(t, limit) ==
  /\ Begins(t)
  /\ \E ranked \in search_lexical(vfile, limit) :
       vjob' = [vjob EXCEPT ![t] = [op |-> "listed", slots |-> ranked]]
  /\ UNCHANGED <<vfile, vhandle>>

\* The rest of search_hybrid: the lexical lane as deep, fused with the semantic hits; a
\* slot in both lanes keeps the semantic one's locator.
SearchFuse(t, limit) ==
  LET j == vjob[t]
      semantic == [i \in 1..Len(j.hits) |-> j.hits[i].slot] IN
  /\ j.op = "found" /\ limit # 0 /\ Begins(t)
  /\ j.limit = Max({HybridDepth, limit})
  /\ \E lexical \in search_lexical(vfile, j.limit) :
       LET fused == FirstOf(fuse(<<semantic, lexical>>), limit)
           locator(s) == IF s \in Range(semantic) THEN j.snapshot.rows[s].locator
                         ELSE vfile.rows[s].locator IN
       vjob' = [vjob EXCEPT ![t] =
         [op |-> "fused", locators |-> [i \in 1..Len(fused) |-> locator(fused[i])]]]
  /\ UNCHANGED <<vfile, vhandle>>

\* A search of each kind, by limit; a hybrid one limited to nothing returns at once.
Searches(t, limit) ==
  \/ SearchBegin(t, limit) \/ SearchLexical(t, limit)
  \/ limit # 0 /\ SearchBegin(t, Max({HybridDepth, limit}))
  \/ SearchFuse(t, limit)

VectorNext ==
  \/ \E h \in VHandles, meta \in Models : VectorOpen(h, meta) \/ VectorRefused(h, meta)
  \/ \E h \in VHandles : VectorLoad(h) \/ VectorClose(h)
  \/ \E t \in VThreads :
       \/ \E l \in Locators, v \in Embeddings, b \in Bodies : UpsertCommit(t, l, v, b)
       \/ \E l \in Locators : RemoveCommit(t, l)
       \/ UpsertApply(t) \/ RemoveApply(t)
       \/ t \in VReaders /\ \E limit \in Limits : Searches(t, limit)
       \/ SearchSync(t) \/ SearchScan(t) \/ SearchExact(t) \/ SearchFetch(t) \/ SearchName(t)

(***************************************************************************)
(* What the index promises                                                 *)
(***************************************************************************)
VectorTypeOK ==
  /\ vfile.revision \in 0..MaxIndexRevision
  /\ \A h \in VHandles :
       /\ UsedBytes(vhandle[h].cache) <= CacheBytes
       /\ IsInjective([i \in 1..Len(vhandle[h].codes) |-> vhandle[h].codes[i][1]])
       /\ IsInjective([i \in 1..Len(vhandle[h].cache) |-> vhandle[h].cache[i][1]])
  /\ \A t \in VThreads : vjob[t].op \in {"idle", "upsert", "remove", "sync", "scan", "exact", "fetch",
                                         "found", "listed", "fused", "malformed"}

\* What a search over the rows alone would answer.
Answer(file, limit) ==
  LET near == nearest(load_codes(file), encode(Query, file.meta.threshold), Max({RerankWidth, limit})) IN
  Named(file, [i \in 1..Len(near) |-> <<near[i], similarity(Query, file.rows[near[i]].embedding)>>], limit)

\* What a search that ended must have: no error for a damaged index, and the
\* hits the file it began on gives.
Exact(job) ==
  /\ job.op # "malformed"
  /\ job.op = "found" => job.hits = Answer(job.snapshot, job.limit)

\* A search answers from the file it began on, whatever was cached before:
\* never an entry another handle replaced or removed, never without one it
\* added (search_semantic and sync_if_stale; schema.rs: "an index handle that has
\* resident state built from an older revision reloads before answering a query").
SearchIsFresh == \A t \in VThreads : Exact(vjob[t])

\* The same for a handle whose resident state took every write in turn since it
\* was loaded, that is, none of whose own writes came between another's commit
\* and the reload for it (upsert, remove, sync_if_stale).
FreshInTurn ==
  \A t \in VThreads :
    vjob[t].op \in {"found", "malformed"} /\ ~vjob[t].lapped => Exact(vjob[t])

\* Fusion keeps what the lanes agree on: an entry ranked before another in every
\* lane is fused before it, and neighbours down to the fusion depth differ in
\* score (fuse, RRF_SCALE).
FusionFaithful(lanes) ==
  LET fused == fuse(lanes)
      At(seq, x) == {i \in DOMAIN seq : seq[i] = x}
      Before(seq, x, y) == \E i \in At(seq, x) : At(seq, y) = {} \/ \E j \in At(seq, y) : i < j IN
  /\ \A x, y \in Range(fused) :
       (x # y /\ \A l \in DOMAIN lanes : Before(lanes[l], x, y)) => Before(fused, x, y)
  /\ \A r \in 1..(MAX_FUSION_DEPTH - 1) : contribution(r) > contribution(r + 1)
=============================================================================
