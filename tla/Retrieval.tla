------------------------------ MODULE Retrieval ------------------------------
(***************************************************************************)
(* Files are cut into chunks and written to the vector store (ingestion/,   *)
(* run by scripts/seed_milvus.py), and searched in two channels whose       *)
(* results are fused, ranked again and turned into evidence (retrieval/,    *)
(* mcp/knowledge_server).  Both processes use the store at once: a file may *)
(* be written between the two channels of a search.                         *)
(*                                                                          *)
(* A document is the file it was read from, its metadata and the lengths of *)
(* its pages; a chunk the page and the positions it spans.                  *)
(***************************************************************************)
EXTENDS Settings, Sequences, SequencesExt, FiniteSets

CONSTANTS
  Files,      \* what is read
  Editions,   \* bound: what their pages are
  Scores,     \* bound: the scores of the channels and of the reranker
  CandidateK, \* candidate_k
  RerankK,    \* rerank_k, and the limit of a caller
  ChunkSize,    \* CHUNK_SIZE
  ChunkOverlap, \* CHUNK_OVERLAP
  MaxChunks   \* bound: chunks in the store

VARIABLES
  documents, \* what the store has, one after the other
  query      \* the search under way

vars == <<documents, query>>

-----------------------------------------------------------------------------
(* ingestion/ *)

Segments(page, length, step) ==
  [k \in 1..((length + step - 1) \div step) |->
     LET start == (k - 1) * step
     IN  [page |-> page, from |-> start + 1,
          to |-> IF start + ChunkSize > length THEN length ELSE start + ChunkSize]]

\* Mutant: the overlap is added to the step.
SplitApart(page, length) == Segments(page, length, ChunkSize + ChunkOverlap)

\* _split_text(): as long as a chunk can begin, also where the one before
\* reached the end.
Split(page, length) == Segments(page, length, ChunkSize - ChunkOverlap)

\* chunk_document(): page by page; an empty page has none.
Chunks(pages) ==
  LET upTo[p \in 0..Len(pages)] ==
        IF p = 0 THEN <<>> ELSE upTo[p - 1] \o Split(p, pages[p])
  IN  upTo[Len(pages)]

\* A search: whose it is, the scores of what each channel found, what is left of
\* that, and the evidence.
NoHits == [h \in {} |-> 0]
Idle   == [at |-> "idle", tenant |-> None, dense |-> NoHits, sparse |-> NoHits,
           kept |-> {}, evidence |-> {}]

Init == documents = <<>> /\ query = Idle

\* ingest_document(): under a new id each time; a file without text is skipped,
\* and what the store refuses ends the script.
Ingest(file, pages, tenant) ==
  /\ Chunks(pages) # <<>>
  /\ documents' = Append(documents, [file |-> file, pages |-> pages, tenant |-> tenant])
  /\ Len(FlattenSeq([d \in DOMAIN documents' |-> Chunks(documents'[d].pages)])) <= MaxChunks
  /\ UNCHANGED query

-----------------------------------------------------------------------------
(* mcp/knowledge_server, retrieval/ *)

\* retrieve_evidence(): the query is encoded.
Ask(tenant) ==
  /\ query.at = "idle"
  /\ query' = [Idle EXCEPT !.at = "dense", !.tenant = tenant]
  /\ UNCHANGED documents

\* _build_filter()
Matching ==
  {h \in (1..Len(documents)) \X (1..MaxChunks) :
     /\ h[2] <= Len(Chunks(documents[h[1]].pages))
     /\ query.tenant = None \/ documents[h[1]].tenant = query.tenant}

\* _dense_search(), _sparse_search(): of the rows that match the store finds
\* some, at most channel_k(); if it cannot be reached, none.
Found == {scores \in UNION {[hits -> Scores] : hits \in SUBSET Matching} :
            Cardinality(DOMAIN scores) <= 3 * CandidateK}

\* Any other failure of the store, or of a model, ends the search.
Fail ==
  /\ query.at # "idle"
  /\ query' = Idle
  /\ UNCHANGED documents

DenseSearch ==
  /\ query.at = "dense"
  /\ \E scores \in Found : query' = [query EXCEPT !.at = "sparse", !.dense = scores]
  /\ UNCHANGED documents

SparseSearch ==
  /\ query.at = "sparse"
  /\ \E scores \in Found : query' = [query EXCEPT !.at = "fuse", !.sparse = scores]
  /\ UNCHANGED documents

Lowest(scores)  == CHOOSE s \in Range(scores) : \A t \in Range(scores) : s <= t
Highest(scores) == CHOOSE s \in Range(scores) : \A t \in Range(scores) : t <= s

\* A channel's scores are all the same, as far as it has any.
Flat(scores) == \A s, t \in Range(scores) : s = t

\* Mutant: the channel's scores are taken for distances.
MinMaxOfDistances(scores, h) ==
  IF h \notin DOMAIN scores THEN 0
  ELSE IF Flat(scores) THEN 1 ELSE Highest(scores) - scores[h]

\* _min_max(), as a part of the channel's spread: from 0, for the lowest, to all
\* of it; all of it if they are equal, and 0 for a hit of the other channel alone.
MinMax(scores, h) ==
  IF h \notin DOMAIN scores THEN 0
  ELSE IF Flat(scores) THEN 1 ELSE scores[h] - Lowest(scores)

Spread(scores) == IF Flat(scores) THEN 1 ELSE Highest(scores) - Lowest(scores)

\* _fuse(), with the weights of semantic queries, as a part of both spreads.
FusionScore(h) ==
  7 * MinMax(query.dense, h) * Spread(query.sparse)
    + 3 * MinMax(query.sparse, h) * Spread(query.dense)

\* The best so many by a score; which of equal ones is not said.
Best(hits, score, most) ==
  {kept \in SUBSET hits :
     /\ Cardinality(kept) = IF Cardinality(hits) < most THEN Cardinality(hits) ELSE most
     /\ \A h \in kept, out \in hits \ kept : score[h] >= score[out]}

Candidates == DOMAIN query.dense \cup DOMAIN query.sparse

\* hybrid_search(): without a candidate it raises.
Fuse ==
  /\ query.at = "fuse" /\ Candidates # {}
  /\ \E kept \in Best(Candidates, [h \in Candidates |-> FusionScore(h)], CandidateK) :
       query' = [query EXCEPT !.at = "rerank", !.kept = kept]
  /\ UNCHANGED documents

\* build_evidence(): a reference to the chunk.
Evidence(h) == [document |-> h[1], chunk |-> h[2]]

\* rerank(), retrieve_evidence(): the best by the reranker's score, whatever the
\* channels said.
Rerank ==
  /\ query.at = "rerank"
  /\ \E score \in [query.kept -> Scores] :
       \E ranked \in Best(query.kept, score, RerankK) :
         query' = [query EXCEPT !.at = "answered", !.evidence = {Evidence(h) : h \in ranked}]
  /\ UNCHANGED documents

Next ==
  \/ \E f \in Files, e \in Editions, t \in Tenants : Ingest(f, e, t)
  \/ \E t \in Tenants \cup {None} : Ask(t)
  \/ DenseSearch \/ SparseSearch \/ Fuse \/ Rerank \/ Fail

Spec == Init /\ [][Next]_vars

-----------------------------------------------------------------------------
(* get_document() *)

\* The chunks in order, and the places of those of a page, which make up
\* get_document_page().
Content(d)   == Chunks(documents[d].pages)
PageOf(d, p) == {k \in 1..Len(Content(d)) : Content(d)[k].page = p}

-----------------------------------------------------------------------------
(* Properties *)

\* The positions that one chunk and the next share.
Shared(this, next) == this.to - next.from + 1

\* No position of a document is between its chunks, and none is without its
\* context: where a page goes on, two chunks share the overlap, or all of the
\* later one if it is shorter (_split_text, chunk_document, get_document_page).
DocumentIsCovered ==
  \A d \in 1..Len(documents) : \A p \in 1..Len(documents[d].pages) :
    /\ \A x \in 1..documents[d].pages[p] :
         \E k \in PageOf(d, p) : x \in Content(d)[k].from..Content(d)[k].to
    /\ \A k \in PageOf(d, p) : k + 1 \in PageOf(d, p) =>
         LET next == Content(d)[k + 1]
             size == next.to - next.from + 1
         IN  Shared(Content(d)[k], next) = IF size < ChunkOverlap THEN size ELSE ChunkOverlap

\* A candidate that both channels prefer to another is not dropped for it, and
\* every piece of evidence is a chunk of the tenant who asked, and was a
\* candidate (hybrid_search, retrieve_evidence).
SearchIsFair ==
  /\ query.at \in {"rerank", "answered"} =>
       \A h \in query.kept, out \in Candidates \ query.kept :
         ~ /\ {h, out} \subseteq DOMAIN query.dense \cap DOMAIN query.sparse
           /\ query.dense[out] > query.dense[h] /\ query.sparse[out] > query.sparse[h]
  /\ query.at = "answered" =>
       \A e \in query.evidence :
         /\ <<e.document, e.chunk>> \in query.kept
         /\ query.tenant \in {None, documents[e.document].tenant}
=============================================================================
