------------------------------ MODULE Documents ------------------------------
(***************************************************************************)
(* Uploaded documents: upload_document and list_documents (api/routes.py)   *)
(* over the store in memory (api/app.py) or in MySQL (api/mysql_stores.py), *)
(* where a document is known by its tenant and content, and where looking   *)
(* for a row and inserting it are steps that uploads in other threads come  *)
(* between.  MySQL's transactions read a snapshot and write the present.    *)
(***************************************************************************)
EXTENDS Settings, Sequences, FiniteSets

CONSTANTS
  Uploads,  \* the requests
  Contents, \* what is uploaded
  Default,  \* the tenant of those who name none, or an unknown one
  Times,    \* bound: the times a document may be created at
  Lengths   \* bound: the lengths of a page that are asked for (limit)

VARIABLES
  kept,    \* build_stores(): "memory" or "mysql"
  tenants, \* the rows of tenants
  docs,    \* documents, in the order they were stored
  upload,  \* upload[u]: where it is, for whom, of what, and what it read
  reader   \* a client that reads the list page by page, and what it has not seen yet

vars == <<kept, tenants, docs, upload, reader>>

Document(id, u, t) ==
  [id |-> id, tenant |-> upload[u].tenant, content |-> upload[u].content, created |-> t]

NoReader == [at |-> "none"]

Ids == {docs[i].id : i \in 1..Len(docs)}

Init ==
  /\ kept \in {"memory", "mysql"}
  /\ tenants \in IF kept = "mysql" THEN SUBSET (Tenants \cup {Default}) ELSE {{}}
  /\ docs   = <<>>
  /\ upload = [u \in Uploads |->
                 [at |-> "none", tenant |-> None, content |-> None, ids |-> {}, tenants |-> {}]]
  /\ reader = NoReader

Goes(u, to) == upload' = [upload EXCEPT ![u].at = to]

\* The transaction is over, and its snapshot.
Ends(u, to) ==
  upload' = [upload EXCEPT ![u].at = to, ![u].ids = {}, ![u].tenants = {}]

-----------------------------------------------------------------------------
(* upload_document() *)

\* The file is read in chunks until it ends or is too large.
Receive(u) ==
  /\ upload[u].at = "none"
  /\ \/ Goes(u, "too large")
     \/ \E t \in Tenants \cup {None}, c \in Contents :
          upload' = [upload EXCEPT ![u].at = "register", ![u].tenant = t, ![u].content = c]
  /\ UNCHANGED <<kept, tenants, docs, reader>>

\* FileStore.register(): a document of its own for every upload.
RegisterInMemory(u) ==
  /\ kept = "memory" /\ upload[u].at = "register"
  /\ \E t \in Times : docs' = Append(docs, Document(u, u, t))
  /\ Goes(u, "stored")
  /\ UNCHANGED <<kept, tenants, reader>>

\* MySQLFileStore.register() takes its snapshot and resolves the tenant.
Resolve(u) ==
  /\ kept = "mysql" /\ upload[u].at = "register"
  /\ LET t == IF upload[u].tenant \in tenants THEN upload[u].tenant ELSE Default
     IN  upload' = [upload EXCEPT ![u].tenant  = t,
                                  ![u].ids     = Ids,
                                  ![u].tenants = tenants,
                                  ![u].at      = IF t \in tenants THEN "insert" ELSE "tenant"]
  /\ UNCHANGED <<kept, tenants, docs, reader>>

\* The row of the default tenant is in some transaction.
TenantPending == \E u \in Uploads : upload[u].at = "insert" /\ Default \notin upload[u].tenants
                                      /\ upload[u].tenant = Default

\* _ensure_default_tenant() inserts the row nobody had; the insert waits for
\* another transaction's, and fails when that was committed.
AddTenant(u) ==
  /\ upload[u].at = "tenant" /\ ~TenantPending
  /\ IF Default \in tenants THEN Ends(u, "duplicate tenant") ELSE Goes(u, "insert")
  /\ UNCHANGED <<kept, tenants, docs, reader>>

\* Mutant: a document is known by its upload.
UploadId(u) == <<u, upload[u].content>>

\* _document_id()
DocumentId(u) == <<upload[u].tenant, upload[u].content>>

\* A document of the snapshot is left as it is, any other inserted, and the
\* transaction committed, with its tenant; or all of it is rolled back.
Insert(u) ==
  /\ upload[u].at = "insert"
  /\ LET id   == DocumentId(u)
         Kept == tenants' = tenants \cup {upload[u].tenant}
     IN  \/ id \in upload[u].ids /\ Kept /\ Ends(u, "stored") /\ UNCHANGED docs
         \/ /\ id \notin upload[u].ids /\ id \notin Ids
            /\ \E t \in Times : docs' = Append(docs, Document(id, u, t))
            /\ Kept
            /\ Ends(u, "stored")
         \/ /\ id \notin upload[u].ids /\ id \in Ids
            /\ Ends(u, "duplicate") /\ UNCHANGED <<tenants, docs>>
         \/ Ends(u, "failed") /\ UNCHANGED <<tenants, docs>>
  /\ UNCHANGED <<kept, reader>>

-----------------------------------------------------------------------------
(* list_documents() *)

\* Document i is listed before j: the newer first, and in memory, where the sort
\* is stable, of two of one time the one stored first.
Before(i, j) ==
  \/ docs[i].created > docs[j].created
  \/ kept = "memory" /\ docs[i].created = docs[j].created /\ i < j

\* The places that an order may give to the documents, from 0.  What neither is
\* before the other, MySQL lists as it likes, and differently each time.
Orders ==
  {place \in [1..Len(docs) -> 0..(Len(docs) - 1)] :
     /\ \A i, j \in 1..Len(docs) : place[i] = place[j] => i = j
     /\ \A i \in 1..Len(docs) :
          /\ place[i] >= Cardinality({j \in 1..Len(docs) : Before(j, i)})
          /\ place[i] < Len(docs) - Cardinality({j \in 1..Len(docs) : Before(i, j)})}

\* Mutant: places are counted from 1.
ListedFromOne(place, limit, offset) ==
  {i \in 1..Len(docs) : offset < place[i] /\ place[i] <= offset + limit}

\* FileStore.list(), MySQLFileStore.list(): so many of all, from the newest.
Listed(place, limit, offset) ==
  {i \in 1..Len(docs) : offset <= place[i] /\ place[i] < offset + limit}

\* A document belongs to the tenant, if any, and matches the keyword, if any.
Matches(d, tenant, keyword) ==
  (tenant = None \/ d.tenant = tenant) /\ (keyword = None \/ d.content = keyword)

\* A client, of some tenant or of none, begins to read the list.
Browse ==
  /\ reader = NoReader
  /\ \E t \in Tenants \cup {None}, k \in Contents \cup {None}, limit \in Lengths :
       reader' = [at |-> "reading", limit |-> limit, offset |-> 0,
                  unseen |-> {i \in 1..Len(docs) : Matches(docs[i], t, k)}]
  /\ UNCHANGED <<kept, tenants, docs, upload>>

\* It is shown the next page: what the filter takes from the page it does not
\* look for.
TurnPage ==
  /\ reader.at = "reading" /\ reader.offset < Len(docs)
  /\ \E place \in Orders :
       reader' = [reader EXCEPT !.offset = @ + reader.limit,
                                !.unseen = @ \ Listed(place, reader.limit, reader.offset)]
  /\ UNCHANGED <<kept, tenants, docs, upload>>

Next ==
  \/ \E u \in Uploads :
       Receive(u) \/ RegisterInMemory(u) \/ Resolve(u) \/ AddTenant(u) \/ Insert(u)
  \/ Browse \/ TurnPage

Spec == Init /\ [][Next]_vars

-----------------------------------------------------------------------------
(* Properties *)

\* An upload that was accepted is there, under the tenant it was resolved to, and
\* in MySQL no tenant has a content twice, however the transactions of uploads
\* overlap (MySQLFileStore.register).
UploadIsKept ==
  /\ \A u \in Uploads : upload[u].at = "stored" =>
       \E i \in 1..Len(docs) : /\ docs[i].tenant = upload[u].tenant
                               /\ docs[i].content = upload[u].content
  /\ kept = "mysql" =>
       \A i, j \in 1..Len(docs) :
         docs[i].tenant = docs[j].tenant /\ docs[i].content = docs[j].content => i = j

\* The store knows an order of the documents, as MySQL does when no two of them
\* were created in one millisecond.
Ordered ==
  kept = "memory" \/ \A i, j \in 1..Len(docs) : docs[i].created = docs[j].created => i = j

\* Whatever is uploaded between its pages, with whatever times, a reader that
\* came to the end of the list was shown every document that it may see and that
\* was there when it began (list_documents).
PagesSkipNothing ==
  reader.at = "reading" /\ reader.offset >= Len(docs) /\ Ordered => reader.unseen = {}

-----------------------------------------------------------------------------
(* What the source says and the code does not do *)

\* "A repeated upload of the same content by a tenant returns the id there is, and
\* no longer runs into a conflict of keys" (mysql_stores.py:115).
RepeatedUploadIsAccepted ==
  \A u \in Uploads : upload[u].at = "duplicate" => DocumentId(u) \notin Ids
=============================================================================
