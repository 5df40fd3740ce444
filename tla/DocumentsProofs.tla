--------------------------- MODULE DocumentsProofs ---------------------------
(***************************************************************************)
(* An accepted upload is kept, for any uploads, tenants and contents, in   *)
(* memory or in MySQL, in any order of the transactions' steps, and a      *)
(* reader of the list is shown every document it may see, whatever is      *)
(* uploaded between the pages.  Chunks leave no gap in a document, and a   *)
(* search drops no candidate for a worse one, for any files, scores and    *)
(* sizes of chunks.                                                        *)
(***************************************************************************)
EXTENDS Service, SequenceTheorems, FiniteSetTheorems, Recursion

-----------------------------------------------------------------------------
(* Uploads *)

\* This part of the service is an instance of its module.
LEMMA PartSteps ==
  /\ Init => Docs!Init
  /\ [Next]_vars => [Docs!Next]_(Docs!vars)
  /\ Docs!UploadIsKept => UploadIsKept
  /\ Docs!PagesSkipNothing => PagesSkipNothing
BY DEF UploadIsKept, PagesSkipNothing, Init, Next, vars, documentVars, Docs!vars

Owners == Tenants \cup {None, Default}
Kinds  == Contents \cup {None}
Keys   == Uploads \cup (Owners \X Kinds)

Documented == [id : Keys, tenant : Owners, content : Kinds, created : Times]

Places == {"none", "register", "too large", "tenant", "insert", "stored",
           "duplicate tenant", "duplicate", "failed"}

Up == [at : Places, tenant : Owners, content : Kinds, ids : SUBSET Keys, tenants : SUBSET Owners]

TypeOK ==
  /\ kept \in {"memory", "mysql"}
  /\ tenants \subseteq Owners
  /\ docs \in Seq(Documented)
  /\ upload \in [Uploads -> Up]

\* In MySQL a document's id is its tenant and content, and no id is there twice.
DocsInv ==
  kept = "mysql" =>
    /\ \A i \in 1..Len(docs) : docs[i].id = <<docs[i].tenant, docs[i].content>>
    /\ \A i, j \in 1..Len(docs) : docs[i].id = docs[j].id => i = j

\* What a transaction read is still there, and what an upload stored.
UploadOK(u) ==
  /\ upload[u].at \in {"tenant", "insert"} => kept = "mysql"
  /\ upload[u].ids \subseteq Docs!Ids
  /\ upload[u].at = "stored" =>
       \E i \in 1..Len(docs) : /\ docs[i].tenant = upload[u].tenant
                               /\ docs[i].content = upload[u].content

UploadInv == \A u \in Uploads : UploadOK(u)

Inv == TypeOK /\ DocsInv /\ UploadInv

LEMMA InvIsEnough == Inv => Docs!UploadIsKept
BY DEF Inv, DocsInv, UploadInv, UploadOK, Docs!UploadIsKept

-----------------------------------------------------------------------------
(* The log of documents *)

\* A document is added at the end.
LEMMA Added ==
  ASSUME TypeOK, NEW d \in Documented
  PROVE  LET new == Append(docs, d)
         IN  /\ new \in Seq(Documented) /\ Len(new) = Len(docs) + 1 /\ Len(docs) \in Nat
             /\ new[Len(docs) + 1] = d
             /\ \A i \in 1..Len(docs) : new[i] = docs[i]
BY DEF TypeOK

\* Adding documents leaves what holds of an upload that does not move.
LEMMA OthersStay ==
  ASSUME Inv, NEW v \in Uploads, upload'[v] = upload[v], kept' = kept,
         Docs!Ids \subseteq Docs!Ids',
         Len(docs) \in Nat, Len(docs') \in Nat, Len(docs') >= Len(docs),
         \A i \in 1..Len(docs) : docs'[i] = docs[i]
  PROVE  UploadOK(v)'
<1> DEFINE up == upload[v]
<1>1. UploadOK(v)
  BY DEF Inv, UploadInv
<1>2. up.at = "stored" =>
        \E i \in 1..Len(docs') : docs'[i].tenant = up.tenant /\ docs'[i].content = up.content
  <2> SUFFICES ASSUME up.at = "stored"
               PROVE  \E i \in 1..Len(docs') : docs'[i].tenant = up.tenant /\ docs'[i].content = up.content
    OBVIOUS
  <2>1. PICK i \in 1..Len(docs) : docs[i].tenant = up.tenant /\ docs[i].content = up.content
    BY <1>1 DEF UploadOK
  <2>2. i \in 1..Len(docs') /\ docs'[i] = docs[i]
    OBVIOUS
  <2> QED BY <2>1, <2>2
<1> QED BY <1>1, <1>2 DEF UploadOK

\* Of an upload that moves without being stored.
LEMMA OnlyMoves ==
  ASSUME Inv, NEW u \in Uploads, NEW r \in Up,
         upload' = [upload EXCEPT ![u] = r],
         UNCHANGED <<kept, tenants, docs>>,
         r.at \in {"tenant", "insert"} => kept = "mysql",
         r.ids \subseteq Docs!Ids,
         r.at # "stored"
  PROVE  Inv'
<1>1. /\ upload'[u] = r
      /\ \A v \in Uploads : v # u => upload'[v] = upload[v]
  BY DEF Inv, TypeOK
<1>2. TypeOK' /\ DocsInv'
  BY DEF Inv, TypeOK, DocsInv
<1>3. Docs!Ids' = Docs!Ids /\ Len(docs) \in Nat
  BY DEF Docs!Ids, Inv, TypeOK
<1>4. ASSUME NEW v \in Uploads PROVE UploadOK(v)'
  <2>1. CASE v = u
    BY <1>1, <1>3, <2>1 DEF UploadOK
  <2>2. CASE v # u
    BY <1>1, <1>3, <2>2, OthersStay
  <2> QED BY <2>1, <2>2
<1> QED BY <1>2, <1>4 DEF Inv, UploadInv

\* Of an upload that is stored, with a document that is added or was there.
LEMMA IsStored ==
  ASSUME Inv, NEW u \in Uploads, NEW r \in Up, upload' = [upload EXCEPT ![u] = r],
         r.at = "stored", r.tenant = upload[u].tenant, r.content = upload[u].content,
         r.ids \subseteq upload[u].ids,
         kept' = kept, tenants' \subseteq Owners,
         NEW id \in Keys, kept = "mysql" => id = Docs!DocumentId(u),
         NEW t \in Times,
         \/ docs' = docs /\ id \in Docs!Ids /\ kept = "mysql"
         \/ docs' = Append(docs, Docs!Document(id, u, t)) /\ (kept = "mysql" => id \notin Docs!Ids)
  PROVE  Inv'
<1> DEFINE d == Docs!Document(id, u, t)
<1>1. /\ \A v \in Uploads : v # u => upload'[v] = upload[v]
      /\ upload'[u] = r /\ upload[u] \in Up
      /\ upload' \in [Uploads -> Up]
  BY DEF Inv, TypeOK
<1>2. /\ d \in Documented /\ d.id = id
      /\ d.tenant = upload[u].tenant /\ d.content = upload[u].content
  BY <1>1 DEF Documented, Docs!Document, Up
<1>3. /\ Len(docs) \in Nat /\ Len(docs') \in Nat /\ Len(docs') >= Len(docs)
      /\ \A i \in 1..Len(docs) : docs'[i] = docs[i]
      /\ docs' \in Seq(Documented)
      /\ docs' # docs => /\ Len(docs') = Len(docs) + 1 /\ docs'[Len(docs) + 1] = d
                         /\ kept = "mysql" => id \notin Docs!Ids
  <2> HIDE DEF d
  <2>1. CASE docs' = docs
    BY <2>1 DEF Inv, TypeOK
  <2>2. CASE docs' = Append(docs, d) /\ (kept = "mysql" => id \notin Docs!Ids)
    BY <2>2, <1>2, Added DEF Inv
  <2> QED BY <2>1, <2>2 DEF d
<1>4. Docs!Ids \subseteq Docs!Ids'
  BY <1>3 DEF Docs!Ids
<1>5. TypeOK'
  BY <1>1, <1>3 DEF Inv, TypeOK
<1>6. DocsInv'
  <2> SUFFICES ASSUME kept = "mysql", docs' # docs
               PROVE  /\ \A i \in 1..Len(docs') : docs'[i].id = <<docs'[i].tenant, docs'[i].content>>
                      /\ \A i, j \in 1..Len(docs') : docs'[i].id = docs'[j].id => i = j
    BY DEF Inv, DocsInv
  <2>1. /\ \A i \in 1..Len(docs) : docs[i].id = <<docs[i].tenant, docs[i].content>>
        /\ \A i, j \in 1..Len(docs) : docs[i].id = docs[j].id => i = j
    BY DEF Inv, DocsInv
  <2>2. d.id = <<d.tenant, d.content>>
    BY <1>2 DEF Docs!DocumentId
  <2>3. \A i \in 1..Len(docs) : docs[i].id # d.id
    BY <1>2, <1>3 DEF Docs!Ids
  <2>4. \A i \in 1..Len(docs') : i \in 1..Len(docs) \/ i = Len(docs) + 1
    BY <1>3
  <2>5. /\ \A i \in 1..Len(docs) : docs'[i] = docs[i]
        /\ docs'[Len(docs) + 1] = d
    BY <1>3
  <2> HIDE DEF d
  <2> QED BY <2>1, <2>2, <2>3, <2>4, <2>5
<1>7. ASSUME NEW v \in Uploads PROVE UploadOK(v)'
  <2>1. CASE v # u
    BY <1>1, <1>3, <1>4, <2>1, OthersStay
  <2>2. CASE v = u
    <3>1. upload[u].ids \subseteq Docs!Ids
      BY DEF Inv, UploadInv, UploadOK
    <3>2. \E i \in 1..Len(docs') :
            docs'[i].tenant = upload[u].tenant /\ docs'[i].content = upload[u].content
      <4>1. CASE docs' # docs
        <5>1. Len(docs) + 1 \in 1..Len(docs')
          BY <1>3, <4>1
        <5> HIDE DEF d
        <5> QED BY <5>1, <1>2, <1>3, <4>1
      <4>2. CASE docs' = docs
        <5>1. docs' # Append(docs, d)
          <6> HIDE DEF d
          <6> QED BY <4>2, <1>2, <1>3, Added DEF Inv
        <5>2. kept = "mysql" /\ Docs!DocumentId(u) \in Docs!Ids
          BY <5>1
        <5>3. PICK i \in 1..Len(docs) : docs[i].id = <<upload[u].tenant, upload[u].content>>
          BY <5>2 DEF Docs!Ids, Docs!DocumentId
        <5>4. docs[i].id = <<docs[i].tenant, docs[i].content>>
          BY <5>2 DEF Inv, DocsInv
        <5> QED BY <4>2, <5>3, <5>4
      <4> QED BY <4>1, <4>2
    <3> QED BY <2>2, <1>1, <3>1, <3>2, <1>4 DEF UploadOK
  <2> QED BY <2>1, <2>2
<1> QED BY <1>5, <1>6, <1>7 DEF Inv, UploadInv

-----------------------------------------------------------------------------
(* The invariant *)

LEMMA InitInv == Docs!Init => Inv
<1> SUFFICES ASSUME Docs!Init PROVE Inv
  OBVIOUS
<1>1. docs = <<>> /\ Len(docs) = 0 /\ docs \in Seq(Documented)
  BY DEF Docs!Init
<1>2. tenants \subseteq Owners
  BY DEF Docs!Init, Owners
<1>3. upload \in [Uploads -> Up]
  BY DEF Docs!Init, Owners, Kinds, Places, Up
<1>4. TypeOK
  BY <1>1, <1>2, <1>3 DEF Docs!Init, TypeOK
<1>5. DocsInv
  BY <1>1 DEF DocsInv
<1>6. \A u \in Uploads : upload[u].at = "none" /\ upload[u].ids = {}
  BY DEF Docs!Init
<1>7. UploadInv
  BY <1>6 DEF UploadInv, UploadOK
<1> QED BY <1>4, <1>5, <1>7 DEF Inv

LEMMA StepInv ==
  ASSUME Inv, NEW u \in Uploads,
         Docs!Receive(u) \/ Docs!RegisterInMemory(u) \/ Docs!Resolve(u) \/ Docs!AddTenant(u) \/ Docs!Insert(u)
  PROVE  Inv'
<1> DEFINE up == upload[u]
<1>0. /\ up \in Up /\ up.ids \subseteq Docs!Ids
      /\ up.at \in {"tenant", "insert"} => kept = "mysql"
  BY DEF Inv, TypeOK, UploadInv, UploadOK
\* What Goes and Ends make of the upload.
<1>a. ASSUME NEW to \in Places, Docs!Goes(u, to)
      PROVE  \E r \in Up : /\ upload' = [upload EXCEPT ![u] = r]
                           /\ r.at = to /\ r.ids = up.ids
                           /\ r.tenant = up.tenant /\ r.content = up.content
  <2> DEFINE r == [up EXCEPT !.at = to]
  <2>1. upload' = [upload EXCEPT ![u] = r]
    BY <1>a DEF Docs!Goes, Inv, TypeOK
  <2>2. /\ r \in Up /\ r.at = to /\ r.ids = up.ids
        /\ r.tenant = up.tenant /\ r.content = up.content
    BY <1>0 DEF Up
  <2> HIDE DEF r
  <2> QED BY <2>1, <2>2
<1>b. ASSUME NEW to \in Places, Docs!Ends(u, to)
      PROVE  \E r \in Up : /\ upload' = [upload EXCEPT ![u] = r]
                           /\ r.at = to /\ r.ids = {}
                           /\ r.tenant = up.tenant /\ r.content = up.content
  <2> DEFINE r == [up EXCEPT !.at = to, !.ids = {}, !.tenants = {}]
  <2>1. upload' = [upload EXCEPT ![u] = r]
    BY <1>b DEF Docs!Ends, Inv, TypeOK
  <2>2. /\ r \in Up /\ r.at = to /\ r.ids = {}
        /\ r.tenant = up.tenant /\ r.content = up.content
    BY <1>0 DEF Up
  <2> HIDE DEF r
  <2> QED BY <2>1, <2>2
<1> HIDE DEF up
\* An upload that goes or ends somewhere and stores nothing.
<1>c. ASSUME NEW to \in Places, Docs!Goes(u, to) \/ Docs!Ends(u, to), to # "stored",
             to \in {"tenant", "insert"} => kept = "mysql", UNCHANGED <<kept, tenants, docs>>
      PROVE  Inv'
  <2>1. PICK r \in Up : /\ upload' = [upload EXCEPT ![u] = r]
                        /\ r.at = to /\ r.ids \subseteq Docs!Ids
    BY <1>0, <1>a, <1>b, <1>c
  <2> QED BY <2>1, <1>c, OnlyMoves
<1>1. CASE Docs!Receive(u)
  <2>0. UNCHANGED <<kept, tenants, docs>>
    BY <1>1 DEF Docs!Receive
  <2>1. CASE Docs!Goes(u, "too large")
    BY <2>0, <2>1, <1>c DEF Places
  <2>2. ASSUME NEW t \in Tenants \cup {None}, NEW c \in Contents,
               upload' = [upload EXCEPT ![u].at = "register", ![u].tenant = t, ![u].content = c]
        PROVE  Inv'
    <3> DEFINE r == [up EXCEPT !.at = "register", !.tenant = t, !.content = c]
    <3>1. upload' = [upload EXCEPT ![u] = r]
      BY <2>2 DEF Inv, TypeOK, up
    <3>2. r \in Up /\ r.at = "register" /\ r.ids = up.ids
      BY <1>0 DEF Up, Places, Owners, Kinds
    <3> HIDE DEF r
    <3> QED BY <3>1, <3>2, <2>0, <1>0, OnlyMoves
  <2> QED BY <1>1, <2>1, <2>2 DEF Docs!Receive
<1>2. CASE Docs!RegisterInMemory(u)
  <2>1. /\ kept = "memory" /\ UNCHANGED <<kept, tenants>> /\ Docs!Goes(u, "stored")
        /\ \E t \in Times : docs' = Append(docs, Docs!Document(u, u, t))
    BY <1>2 DEF Docs!RegisterInMemory
  <2>2. PICK t \in Times : docs' = Append(docs, Docs!Document(u, u, t))
    BY <2>1
  <2>3. PICK r \in Up : /\ upload' = [upload EXCEPT ![u] = r]
                        /\ r.at = "stored" /\ r.ids = up.ids
                        /\ r.tenant = up.tenant /\ r.content = up.content
    BY <2>1, <1>a DEF Places
  <2>4. u \in Keys /\ kept # "mysql" /\ tenants' \subseteq Owners
    BY <2>1 DEF Keys, Inv, TypeOK
  <2> QED BY <2>1, <2>2, <2>3, <2>4, IsStored DEF up
<1>3. CASE Docs!Resolve(u)
  <2> DEFINE t == IF up.tenant \in tenants THEN up.tenant ELSE Default
             r == [up EXCEPT !.tenant = t, !.ids = Docs!Ids, !.tenants = tenants,
                             !.at = IF t \in tenants THEN "insert" ELSE "tenant"]
  <2>1. upload' = [upload EXCEPT ![u] = r]
    BY <1>3 DEF Docs!Resolve, Inv, TypeOK, up
  <2>2. Docs!Ids \subseteq Keys /\ tenants \subseteq Owners /\ t \in Owners
    <3>1. docs \in Seq(Documented) /\ tenants \subseteq Owners
      BY DEF Inv, TypeOK
    <3>2. \A i \in 1..Len(docs) : docs[i] \in Documented
      BY <3>1
    <3>3. \A i \in 1..Len(docs) : docs[i].id \in Keys
      BY <3>2 DEF Documented
    <3> QED BY <3>1, <3>3, <1>0 DEF Docs!Ids, Owners, Up
  <2>3. r \in Up /\ r.at \in {"insert", "tenant"} /\ r.ids = Docs!Ids
    BY <1>0, <2>2 DEF Places, Up
  <2>4. kept = "mysql" /\ UNCHANGED <<kept, tenants, docs>>
    BY <1>3 DEF Docs!Resolve
  <2> HIDE DEF r, t
  <2> QED BY <2>1, <2>3, <2>4, OnlyMoves
<1>4. CASE Docs!AddTenant(u)
  <2>1. /\ kept = "mysql" /\ UNCHANGED <<kept, tenants, docs>>
        /\ Docs!Ends(u, "duplicate tenant") \/ Docs!Goes(u, "insert")
    BY <1>0, <1>4 DEF Docs!AddTenant, up
  <2> QED BY <2>1, <1>c DEF Places
<1>5. CASE Docs!Insert(u)
  <2> DEFINE id == Docs!DocumentId(u)
  <2>0. /\ kept = "mysql" /\ kept' = kept /\ up.at = "insert"
        /\ id \in Keys /\ tenants \cup {up.tenant} \subseteq Owners
    BY <1>0, <1>5 DEF Docs!Insert, Docs!DocumentId, Keys, Inv, TypeOK, up, Up
  <2>1. \/ /\ tenants' = tenants \cup {up.tenant} /\ Docs!Ends(u, "stored")
           /\ \E t \in Times : /\ id \notin Docs!Ids
                               /\ docs' = Append(docs, Docs!Document(id, u, t))
        \/ /\ tenants' = tenants \cup {up.tenant} /\ Docs!Ends(u, "stored")
           /\ id \in up.ids /\ docs' = docs
        \/ Docs!Ends(u, "duplicate") /\ UNCHANGED <<tenants, docs>>
        \/ Docs!Ends(u, "failed") /\ UNCHANGED <<tenants, docs>>
    BY <1>5 DEF Docs!Insert, up
  <2>2. ASSUME tenants' = tenants \cup {up.tenant}, Docs!Ends(u, "stored"), NEW t \in Times,
               \/ docs' = docs /\ id \in Docs!Ids
               \/ docs' = Append(docs, Docs!Document(id, u, t)) /\ id \notin Docs!Ids
        PROVE  Inv'
    <3>1. PICK r \in Up : /\ upload' = [upload EXCEPT ![u] = r]
                          /\ r.at = "stored" /\ r.ids = {}
                          /\ r.tenant = up.tenant /\ r.content = up.content
      BY <2>2, <1>b DEF Places
    <3> HIDE DEF id
    <3> QED BY <2>0, <2>2, <3>1, IsStored DEF id, up
  <2>3. CASE id \in up.ids /\ docs' = docs /\ tenants' = tenants \cup {up.tenant} /\ Docs!Ends(u, "stored")
    <3>1. PICK i \in 1..Len(docs) : docs[i].id = id
      BY <1>0, <2>3 DEF Docs!Ids
    <3>2. docs \in Seq(Documented)
      BY DEF Inv, TypeOK
    <3>3. docs[i] \in Documented
      BY <3>2
    <3>4. docs[i].created \in Times
      BY <3>3 DEF Documented
    <3> QED BY <1>0, <2>2, <2>3, <3>4
  <2> HIDE DEF id
  <2> QED BY <2>0, <2>1, <2>2, <2>3, <1>c DEF Places
<1> QED BY <1>1, <1>2, <1>3, <1>4, <1>5

\* Of a step that leaves the documents and the uploads as they are.
LEMMA InvStays ==
  ASSUME Inv, UNCHANGED <<kept, tenants, docs, upload>>
  PROVE  Inv'
<1>1. TypeOK' /\ DocsInv'
  BY DEF Inv, TypeOK, DocsInv
<1>2. Docs!Ids' = Docs!Ids
  BY DEF Docs!Ids
<1>3. UploadInv'
  BY <1>2 DEF Inv, UploadInv, UploadOK
<1> QED BY <1>1, <1>3 DEF Inv

LEMMA InvAlways == Spec => []Inv
<1>1. Inv /\ [Docs!Next]_(Docs!vars) => Inv'
  <2>1. ASSUME Inv, Docs!Browse \/ Docs!TurnPage \/ UNCHANGED Docs!vars PROVE Inv'
    BY <2>1, InvStays DEF Docs!Browse, Docs!TurnPage, Docs!vars
  <2> QED BY <2>1, StepInv DEF Docs!Next
<1> QED BY <1>1, InitInv, PartSteps, PTL DEF Spec

\* An accepted upload is there, under the tenant it was resolved to, and in MySQL
\* no tenant has a content twice (MySQLFileStore.register, FileStore.register).
THEOREM AcceptedIsKept == Spec => []UploadIsKept
BY InvAlways, InvIsEnough, PartSteps, PTL

-----------------------------------------------------------------------------
(* The reader of the list *)

\* The numbers of the documents, those listed before document i, and those after.
Numbers  == 1..Len(docs)
Newer(i) == {j \in Numbers : Docs!Before(j, i)}
Older(i) == {j \in Numbers : Docs!Before(i, j)}

LEMMA SizeIs == \A S : Docs!Cardinality(S) = Cardinality(S)
BY Zenon DEF Docs!Cardinality, Cardinality, Docs!IsFiniteSet, IsFiniteSet

LEMMA NumbersAre ==
  ASSUME Inv
  PROVE  /\ Len(docs) \in Nat /\ IsFiniteSet(Numbers) /\ Cardinality(Numbers) = Len(docs)
         /\ \A S \in SUBSET Numbers :
              IsFiniteSet(S) /\ Cardinality(S) \in Nat /\ Cardinality(S) <= Len(docs)
         /\ \A i \in Numbers : docs[i].created \in Nat
<1>1. Len(docs) \in Nat /\ docs \in Seq(Documented)
  BY DEF Inv, TypeOK
<1>2. IsFiniteSet(Numbers) /\ Cardinality(Numbers) = Len(docs)
  BY <1>1, FS_Interval DEF Numbers
<1>3. \A S \in SUBSET Numbers :
        IsFiniteSet(S) /\ Cardinality(S) \in Nat /\ Cardinality(S) <= Len(docs)
  BY <1>2, FS_Subset, FS_CardinalityType
<1>4. \A i \in Numbers : docs[i] \in Documented
  BY <1>1 DEF Numbers
<1>5. \A i \in Numbers : docs[i].created \in Nat
  BY <1>4, ServiceAssumption DEF Documented
<1> QED BY <1>1, <1>2, <1>3, <1>5

\* Where the order is known, a document's place is the number of those before it.
LEMMA PlaceIs ==
  ASSUME Inv, Docs!Ordered, NEW place \in Docs!Orders, NEW i \in Numbers
  PROVE  place[i] = Cardinality(Newer(i))
<1> DEFINE n == Cardinality(Newer(i))
           o == Cardinality(Older(i))
<1>1. /\ Newer(i) \subseteq Numbers /\ Older(i) \subseteq Numbers /\ {i} \subseteq Numbers
      /\ Newer(i) \cup Older(i) \subseteq Numbers
  BY DEF Newer, Older
<1>2. /\ n \in Nat /\ o \in Nat /\ Len(docs) \in Nat
      /\ IsFiniteSet(Newer(i)) /\ IsFiniteSet(Older(i)) /\ IsFiniteSet(Newer(i) \cup Older(i))
      /\ Cardinality(Newer(i) \cap Older(i)) \in Nat
      /\ Cardinality(Newer(i) \cup Older(i)) \in Nat
  <2>1. Newer(i) \cap Older(i) \subseteq Numbers
    BY <1>1
  <2> QED BY <1>1, <2>1, NumbersAre
<1>3. place[i] \in Int /\ place[i] >= n /\ place[i] < Len(docs) - o
  <2>1. place \in [Numbers -> 0..(Len(docs) - 1)]
    BY DEF Docs!Orders, Numbers
  <2>2. /\ place[i] >= Docs!Cardinality(Newer(i))
        /\ place[i] < Len(docs) - Docs!Cardinality(Older(i))
    BY DEF Docs!Orders, Numbers, Newer, Older
  <2> QED BY <2>1, <2>2, SizeIs
<1>4. Numbers = (Newer(i) \cup Older(i)) \cup {i}
  <2>1. ASSUME NEW j \in Numbers, j # i PROVE Docs!Before(i, j) \/ Docs!Before(j, i)
    <3>1. docs[i].created \in Nat /\ docs[j].created \in Nat /\ i \in Nat /\ j \in Nat
      BY <1>2, NumbersAre DEF Numbers
    <3>2. kept = "memory" \/ docs[i].created # docs[j].created
      BY <2>1 DEF Docs!Ordered, Numbers
    <3> QED BY <2>1, <3>1, <3>2 DEF Docs!Before
  <2> QED BY <1>1, <2>1 DEF Newer, Older
<1>5. Cardinality(Numbers) <= Cardinality(Newer(i) \cup Older(i)) + 1
  <2> DEFINE S == Newer(i) \cup Older(i)
  <2>1. IsFiniteSet(S) /\ Cardinality(S) \in Nat /\ Numbers = S \cup {i}
    BY <1>2, <1>4
  <2> HIDE DEF S
  <2>2. Cardinality(S \cup {i}) = IF i \in S THEN Cardinality(S) ELSE Cardinality(S) + 1
    BY <2>1, FS_AddElement
  <2>3. Cardinality(S \cup {i}) <= Cardinality(S) + 1
    BY <2>1, <2>2
  <2> QED BY <2>1, <2>3 DEF S
<1>6. Cardinality(Newer(i) \cup Older(i)) = n + o - Cardinality(Newer(i) \cap Older(i))
  BY <1>2, FS_Union
<1>7. Len(docs) <= n + o + 1
  <2> HIDE DEF n, o
  <2> QED BY <1>2, <1>5, <1>6, NumbersAre
<1> HIDE DEF n, o
<1> QED BY <1>2, <1>3, <1>7 DEF n

\* What a reader has not seen yet is listed behind its offset.
Reading == [at : {"reading"}, limit : Nat \ {0}, offset : Nat, unseen : SUBSET Numbers]

ReaderInv ==
  \/ reader = Docs!NoReader
  \/ /\ reader \in Reading
     /\ Docs!Ordered => \A i \in reader.unseen : Cardinality(Newer(i)) >= reader.offset

\* A reader that came to the end has seen everything: nothing has all of the
\* documents before it.
LEMMA ReaderIsEnough == Inv /\ ReaderInv => Docs!PagesSkipNothing
<1> SUFFICES ASSUME Inv, ReaderInv, reader.at = "reading", reader.offset >= Len(docs),
                    Docs!Ordered, NEW i \in reader.unseen
             PROVE  FALSE
  BY DEF Docs!PagesSkipNothing
<1>1. reader \in Reading /\ i \in Numbers /\ Cardinality(Newer(i)) >= reader.offset
  BY DEF ReaderInv, Docs!NoReader, Reading
<1>2. Newer(i) \in SUBSET Numbers /\ i \notin Newer(i)
  <2>1. docs[i].created \in Nat /\ i \in Nat
    BY <1>1, NumbersAre DEF Numbers
  <2> QED BY <2>1 DEF Newer, Docs!Before
<1>3. /\ Cardinality(Newer(i)) \in Nat /\ Cardinality(Newer(i)) <= Len(docs)
      /\ Len(docs) \in Nat /\ reader.offset \in Nat
  BY <1>1, <1>2, NumbersAre DEF Reading
<1>4. Cardinality(Newer(i)) = Cardinality(Numbers)
  BY <1>1, <1>3, NumbersAre
<1>5. Newer(i) = Numbers
  BY <1>2, <1>4, NumbersAre, FS_Subset
<1> QED BY <1>1, <1>2, <1>5

\* Documents are only added, and only at the end.
LEMMA OnlyAdded ==
  ASSUME Inv, Inv', [Docs!Next]_(Docs!vars)
  PROVE  /\ kept' = kept /\ Len(docs') >= Len(docs)
         /\ \A i \in Numbers : docs'[i] = docs[i]
<1>1. docs \in Seq(Documented) /\ Len(docs) \in Nat
  BY DEF Inv, TypeOK
<1>2. kept' = kept
  BY DEF Docs!Next, Docs!vars, Docs!Receive, Docs!RegisterInMemory, Docs!Resolve,
         Docs!AddTenant, Docs!Insert, Docs!Browse, Docs!TurnPage
<1>3. docs' = docs \/ \E d : docs' = Append(docs, d)
  BY DEF Docs!Next, Docs!vars, Docs!Receive, Docs!RegisterInMemory, Docs!Resolve,
         Docs!AddTenant, Docs!Insert, Docs!Browse, Docs!TurnPage
<1>4. ASSUME NEW d, docs' = Append(docs, d)
      PROVE  Len(docs') >= Len(docs) /\ \A i \in Numbers : docs'[i] = docs[i]
  <2>1. Len(docs') = Len(docs) + 1 /\ \A i \in 1..Len(docs) : docs'[i] = docs[i]
    BY <1>1, <1>4, AppendProperties DEF Inv, TypeOK
  <2> QED BY <1>1, <2>1 DEF Numbers
<1>5. CASE docs' = docs
  BY <1>1, <1>2, <1>5
<1> QED BY <1>2, <1>3, <1>4, <1>5

\* So what was listed before a document still is.
LEMMA NewerStay ==
  ASSUME Inv, Inv', [Docs!Next]_(Docs!vars)
  PROVE  /\ Docs!Ordered' => Docs!Ordered
         /\ Numbers \subseteq Numbers'
         /\ \A i \in Numbers : Cardinality(Newer(i)') >= Cardinality(Newer(i))
<1>1. /\ kept' = kept /\ Len(docs') >= Len(docs) /\ Len(docs) \in Nat /\ Len(docs') \in Nat
      /\ \A i \in Numbers : docs'[i] = docs[i]
  BY OnlyAdded DEF Inv, TypeOK
<1>2. Numbers \subseteq Numbers'
  BY <1>1 DEF Numbers
<1>3. Docs!Ordered' => Docs!Ordered
  BY <1>1, <1>2 DEF Docs!Ordered, Numbers
<1>4. ASSUME NEW i \in Numbers
      PROVE  Cardinality(Newer(i)') >= Cardinality(Newer(i))
  <2>1. Newer(i) \subseteq Newer(i)'
    BY <1>1, <1>2 DEF Newer, Docs!Before
  <2>2. IsFiniteSet(Numbers') /\ Newer(i)' \subseteq Numbers'
    <3>1. IsFiniteSet(1..Len(docs'))
      BY <1>1, FS_Interval
    <3> QED BY <3>1 DEF Numbers, Newer
  <2>3. IsFiniteSet(Newer(i)')
    BY <2>2, FS_Subset
  <2>4. /\ Cardinality(Newer(i)) <= Cardinality(Newer(i)')
        /\ Cardinality(Newer(i)) \in Nat /\ Cardinality(Newer(i)') \in Nat
    BY <2>1, <2>3, FS_Subset, FS_CardinalityType
  <2> QED BY <2>4
<1> QED BY <1>2, <1>3, <1>4

LEMMA ReaderStep ==
  ASSUME Inv, Inv', ReaderInv, [Docs!Next]_(Docs!vars)
  PROVE  ReaderInv'
<1>0. /\ Docs!Ordered' => Docs!Ordered
      /\ Numbers \subseteq Numbers'
      /\ \A i \in Numbers : /\ Cardinality(Newer(i)') >= Cardinality(Newer(i))
                            /\ Cardinality(Newer(i)) \in Nat /\ Cardinality(Newer(i)') \in Nat
  <2>1. \A i \in Numbers : Newer(i) \in SUBSET Numbers
    BY DEF Newer
  <2>2. \A i \in Numbers : Cardinality(Newer(i)) \in Nat
    BY <2>1, NumbersAre
  <2>3. \A i \in Numbers : Cardinality(Newer(i)') \in Nat
    <3>1. Len(docs') \in Nat
      BY DEF Inv, TypeOK
    <3>2. IsFiniteSet(1..Len(docs'))
      BY <3>1, FS_Interval
    <3>3. \A i : Newer(i)' \in SUBSET (1..Len(docs'))
      BY DEF Newer, Numbers
    <3> QED BY <3>2, <3>3, FS_Subset, FS_CardinalityType
  <2> QED BY <2>2, <2>3, NewerStay
<1>1. CASE reader' = reader
  <2>1. CASE reader = Docs!NoReader
    BY <1>1, <2>1 DEF ReaderInv, Docs!NoReader
  <2>2. CASE /\ reader \in Reading
             /\ Docs!Ordered => \A i \in reader.unseen : Cardinality(Newer(i)) >= reader.offset
    <3>1. reader \in Reading'
      BY <1>0, <2>2 DEF Reading
    <3>2. reader.unseen \subseteq Numbers /\ reader.offset \in Nat
      BY <2>2 DEF Reading
    <3>3. Docs!Ordered' => \A i \in reader.unseen : Cardinality(Newer(i)') >= reader.offset
      BY <1>0, <2>2, <3>2
    <3> QED BY <1>1, <3>1, <3>3 DEF ReaderInv
  <2> QED BY <2>1, <2>2 DEF ReaderInv
<1>2. CASE Docs!Browse
  <2>1. PICK t \in Tenants \cup {None}, k \in Contents \cup {None}, limit \in Lengths :
          reader' = [at |-> "reading", limit |-> limit, offset |-> 0,
                     unseen |-> {i \in 1..Len(docs) : Docs!Matches(docs[i], t, k)}]
    BY <1>2 DEF Docs!Browse
  <2>2. limit \in Nat \ {0} /\ 0 \in Nat
    BY ServiceAssumption
  <2>3. reader'.unseen \subseteq Numbers /\ reader'.offset = 0
    BY <2>1 DEF Numbers
  <2>4. reader' \in Reading'
    BY <1>0, <2>1, <2>2, <2>3 DEF Reading
  <2>5. \A i \in reader'.unseen : Cardinality(Newer(i)') >= reader'.offset
    BY <1>0, <2>3
  <2> QED BY <2>4, <2>5 DEF ReaderInv
<1>3. CASE Docs!TurnPage
  <2>1. PICK place \in Docs!Orders :
          reader' = [reader EXCEPT !.offset = @ + reader.limit,
                                   !.unseen = @ \ Docs!Listed(place, reader.limit, reader.offset)]
    BY <1>3 DEF Docs!TurnPage
  <2>2. /\ reader \in Reading
        /\ Docs!Ordered => \A i \in reader.unseen : Cardinality(Newer(i)) >= reader.offset
    BY <1>3 DEF Docs!TurnPage, ReaderInv, Docs!NoReader
  <2>3. /\ reader.limit \in Nat /\ reader.offset \in Nat /\ reader.unseen \subseteq Numbers
        /\ reader'.offset = reader.offset + reader.limit
        /\ reader'.unseen = reader.unseen \ Docs!Listed(place, reader.limit, reader.offset)
        /\ reader' = [at |-> "reading", limit |-> reader.limit,
                      offset |-> reader'.offset, unseen |-> reader'.unseen]
        /\ reader.limit # 0
    BY <2>1, <2>2 DEF Reading
  <2>4. reader' \in Reading'
    <3>1. reader'.offset \in Nat /\ reader'.unseen \subseteq Numbers'
      BY <1>0, <2>3
    <3> QED BY <2>3, <3>1 DEF Reading
  <2>5. ASSUME Docs!Ordered, NEW i \in reader'.unseen
        PROVE  Cardinality(Newer(i)) >= reader'.offset
    <3>1. i \in Numbers /\ i \in reader.unseen
      BY <2>3
    <3>2. place[i] = Cardinality(Newer(i))
      BY <2>5, <3>1, PlaceIs
    <3>3. ~(reader.offset <= place[i] /\ place[i] < reader.offset + reader.limit)
      BY <2>3, <3>1 DEF Docs!Listed, Numbers
    <3>4. Cardinality(Newer(i)) >= reader.offset /\ Cardinality(Newer(i)) \in Nat
      BY <1>0, <2>2, <2>5, <3>1
    <3> QED BY <2>3, <3>2, <3>3, <3>4
  <2>6. Docs!Ordered' => \A i \in reader'.unseen : Cardinality(Newer(i)') >= reader'.offset
    <3>1. reader'.offset \in Nat /\ reader'.unseen \subseteq Numbers
      BY <2>3
    <3> QED BY <1>0, <2>5, <3>1
  <2> QED BY <2>4, <2>6 DEF ReaderInv
<1>4. reader' = reader \/ Docs!Browse \/ Docs!TurnPage
  BY DEF Docs!Next, Docs!vars, Docs!Receive, Docs!RegisterInMemory, Docs!Resolve,
         Docs!AddTenant, Docs!Insert
<1> QED BY <1>1, <1>2, <1>3, <1>4

\* Whatever is uploaded between its pages, a reader that came to the end of the
\* list was shown every document it may see that was there when it began, unless
\* MySQL was left to order documents of one time (list_documents, FileStore.list,
\* MySQLFileStore.list).
THEOREM PagesComplete == Spec => []PagesSkipNothing
<1>1. Docs!Init => ReaderInv
  BY DEF Docs!Init, ReaderInv
<1>2. Inv /\ Inv' /\ ReaderInv /\ [Docs!Next]_(Docs!vars) => ReaderInv'
  BY ReaderStep
<1> QED BY <1>1, <1>2, InvAlways, ReaderIsEnough, PartSteps, PTL DEF Spec

-----------------------------------------------------------------------------
(* Searches *)

\* This part of the service is an instance of its module.
LEMMA SearchSteps ==
  /\ Init => Search!Init
  /\ [Next]_vars => [Search!Next]_(Search!vars)
  /\ Search!SearchIsFair => SearchIsFair
  /\ Search!DocumentIsCovered => DocumentIsCovered
BY DEF SearchIsFair, DocumentIsCovered, Init, Next, vars, searchVars, Search!vars

\* A finite set of integers that is not empty has a least element and a greatest.
LEMMA Extremes ==
  ASSUME NEW T, T \subseteq Int, T # {}, IsFiniteSet(T)
  PROVE  /\ \E lo \in T : \A s \in T : lo <= s
         /\ \E hi \in T : \A s \in T : s <= hi
<1>1. PICK n \in Nat : ExistsSurjection(1..n, T)
  BY FS_NatSurjection
<1>2. PICK g \in [1..n -> T] : \A s \in T : \E i \in 1..n : g[i] = s
  BY <1>1 DEF ExistsSurjection, Surjection
<1> DEFINE P == {k \in 0..n : k > 0 => \E lo, hi \in 1..k :
                                          \A i \in 1..k : g[lo] <= g[i] /\ g[i] <= g[hi]}
<1>3. 0 \in P
  OBVIOUS
<1>4. ASSUME NEW k \in 0..(n - 1), k \in P PROVE k + 1 \in P
  <2>1. \A i \in 1..n : g[i] \in Int
    OBVIOUS
  <2>2. CASE k = 0
    BY <2>1, <2>2
  <2>3. CASE k > 0
    <3>1. PICK lo \in 1..k, hi \in 1..k : \A i \in 1..k : g[lo] <= g[i] /\ g[i] <= g[hi]
      BY <1>4, <2>3
    <3> DEFINE down == IF g[k + 1] < g[lo] THEN k + 1 ELSE lo
               up == IF g[k + 1] > g[hi] THEN k + 1 ELSE hi
    <3>2. /\ k \in Nat /\ lo \in 1..n /\ hi \in 1..n /\ k + 1 \in 1..n
          /\ down \in 1..(k + 1) /\ up \in 1..(k + 1)
      OBVIOUS
    <3>3. ASSUME NEW i \in 1..(k + 1) PROVE g[down] <= g[i] /\ g[i] <= g[up]
      <4>1. CASE i = k + 1
        BY <2>1, <3>2, <4>1
      <4>2. CASE i \in 1..k
        <5>1. g[lo] <= g[i] /\ g[i] <= g[hi] /\ i \in 1..n
          BY <3>1, <3>2, <4>2
        <5> QED BY <2>1, <3>2, <5>1
      <4> QED BY <4>1, <4>2
    <3> HIDE DEF down, up
    <3> QED BY <3>2, <3>3
  <2> QED BY <2>2, <2>3
<1>5. n \in P
  <2>1. \A k \in 0..(n - 1) : k \in P => k + 1 \in P
    BY <1>4
  <2>2. n \in Nat /\ n \in 0..n
    OBVIOUS
  <2> HIDE DEF P
  <2>3. \A k \in 0..n : k \in P
    BY ONLY <1>3, <2>1, <2>2, UpTo
  <2> QED BY ONLY <2>2, <2>3
<1>6. n > 0
  <2>1. PICK s \in T : TRUE
    OBVIOUS
  <2>2. PICK i \in 1..n : g[i] = s
    BY <1>2, <2>1
  <2> QED BY <2>2
<1>7. PICK lo \in 1..n, hi \in 1..n : \A i \in 1..n : g[lo] <= g[i] /\ g[i] <= g[hi]
  BY <1>5, <1>6
<1>8. g[lo] \in T /\ g[hi] \in T
  OBVIOUS
<1> QED BY <1>2, <1>7, <1>8

\* The scores of some hits.
Channels(hits) == UNION {[found -> Scores] : found \in SUBSET hits}

\* A channel's scores are between its lowest and its highest.
LEMMA ScoresAreBetween ==
  ASSUME NEW hits, IsFiniteSet(hits), NEW scores \in Channels(hits), NEW h \in DOMAIN scores
  PROVE  /\ Search!Lowest(scores) \in Int /\ Search!Highest(scores) \in Int
         /\ scores[h] \in Int
         /\ Search!Lowest(scores) <= scores[h] /\ scores[h] <= Search!Highest(scores)
<1> DEFINE all == Search!Range(scores)
<1>1. IsFiniteSet(DOMAIN scores) /\ DOMAIN scores \subseteq hits
  BY FS_Subset DEF Channels
<1>2. all = {scores[x] : x \in DOMAIN scores} /\ scores[h] \in all
  BY DEF Search!Range
<1>3. all \subseteq Int
  BY <1>2, ServiceAssumption DEF Channels
<1>4. IsFiniteSet(all)
  <2>1. scores \in [DOMAIN scores -> all]
    BY <1>2 DEF Channels
  <2>2. \A s \in all : \E x \in DOMAIN scores : scores[x] = s
    BY <1>2
  <2> HIDE DEF all
  <2> QED BY <1>1, <2>1, <2>2, FS_Surjection DEF Surjection
<1> HIDE DEF all
<1>5. /\ \E lo \in all : \A s \in all : lo <= s
      /\ \E hi \in all : \A s \in all : s <= hi
  BY <1>2, <1>3, <1>4, Extremes
<1>6. Search!Lowest(scores) \in all /\ \A s \in all : Search!Lowest(scores) <= s
  BY <1>5 DEF Search!Lowest, all
<1>7. Search!Highest(scores) \in all /\ \A s \in all : s <= Search!Highest(scores)
  BY <1>5 DEF Search!Highest, all
<1> QED BY <1>2, <1>3, <1>6, <1>7

\* A channel that prefers a hit gives it more, of a spread that is positive.
LEMMA MinMaxPrefers ==
  ASSUME NEW hits, IsFiniteSet(hits), NEW scores \in Channels(hits),
         NEW h \in DOMAIN scores, NEW out \in DOMAIN scores, scores[out] > scores[h]
  PROVE  /\ Search!MinMax(scores, h) \in Int /\ Search!MinMax(scores, out) \in Int
         /\ Search!MinMax(scores, out) > Search!MinMax(scores, h)
         /\ Search!Spread(scores) \in Nat \ {0}
<1>1. ~Search!Flat(scores)
  <2>1. scores[h] \in Search!Range(scores) /\ scores[out] \in Search!Range(scores)
    BY DEF Search!Range
  <2>2. scores[h] # scores[out]
    BY ScoresAreBetween
  <2> QED BY <2>1, <2>2 DEF Search!Flat
<1>2. /\ Search!MinMax(scores, h) = scores[h] - Search!Lowest(scores)
      /\ Search!MinMax(scores, out) = scores[out] - Search!Lowest(scores)
      /\ Search!Spread(scores) = Search!Highest(scores) - Search!Lowest(scores)
  BY <1>1 DEF Search!MinMax, Search!Spread
<1> QED BY <1>2, ScoresAreBetween

\* What both channels prefer is worth more when they are fused, whatever their
\* spreads.
LEMMA FusionPrefers ==
  ASSUME NEW hits, IsFiniteSet(hits), query.dense \in Channels(hits), query.sparse \in Channels(hits),
         NEW h, NEW out,
         {h, out} \subseteq DOMAIN query.dense \cap DOMAIN query.sparse,
         query.dense[out] > query.dense[h], query.sparse[out] > query.sparse[h]
  PROVE  ~(Search!FusionScore(h) >= Search!FusionScore(out))
<1> DEFINE a == Search!MinMax(query.dense, out)
           b == Search!MinMax(query.dense, h)
           c == Search!MinMax(query.sparse, out)
           d == Search!MinMax(query.sparse, h)
           p == Search!Spread(query.sparse)
           q == Search!Spread(query.dense)
<1>1. a \in Int /\ b \in Int /\ a > b /\ q \in Nat \ {0}
  BY MinMaxPrefers
<1>2. c \in Int /\ d \in Int /\ c > d /\ p \in Nat \ {0}
  BY MinMaxPrefers
<1>3. /\ Search!FusionScore(h) = 7 * b * p + 3 * d * q
      /\ Search!FusionScore(out) = 7 * a * p + 3 * c * q
  BY DEF Search!FusionScore
<1> HIDE DEF a, b, c, d, p, q
<1>4. ASSUME NEW x \in Int, NEW y \in Int, x > y, NEW n \in Nat \ {0}
      PROVE  x * n \in Int /\ y * n \in Int /\ x * n > y * n
  BY <1>4
<1>5. /\ a * p \in Int /\ b * p \in Int /\ a * p > b * p
      /\ c * q \in Int /\ d * q \in Int /\ c * q > d * q
  BY <1>1, <1>2, <1>4
<1>6. /\ 7 * b * p = 7 * (b * p) /\ 3 * d * q = 3 * (d * q)
      /\ 7 * a * p = 7 * (a * p) /\ 3 * c * q = 3 * (c * q)
  BY <1>1, <1>2
<1>7. 7 * (a * p) + 3 * (c * q) > 7 * (b * p) + 3 * (d * q)
  <2> DEFINE s == a * p
             t == b * p
             u == c * q
             v == d * q
  <2>1. s \in Int /\ t \in Int /\ s > t /\ u \in Int /\ v \in Int /\ u > v
    BY <1>5
  <2> HIDE DEF s, t, u, v
  <2>2. 7 * s + 3 * u > 7 * t + 3 * v
    BY <2>1
  <2> QED BY <2>2 DEF s, t, u, v
<1>8. 7 * (a * p) + 3 * (c * q) \in Int /\ 7 * (b * p) + 3 * (d * q) \in Int
  BY <1>5
<1> QED BY <1>3, <1>6, <1>7, <1>8

\* The chunks of the documents that are in the store.
Hits == (1..Len(documents)) \X (1..MaxChunks)

Searches(hits) ==
  [at : {"idle", "dense", "sparse", "fuse", "rerank", "answered"},
   tenant : Tenants \cup {None},
   dense : Channels(hits), sparse : Channels(hits),
   kept : SUBSET hits, evidence : SUBSET [document : Nat, chunk : Nat]]

\* As SearchIsFair, with the types and what every stage keeps of the one before:
\* the channels found chunks of the tenant's documents only.
SearchInv ==
  /\ documents \in Seq([file : Files, pages : Editions, tenant : Tenants])
  /\ query \in Searches(Hits)
  /\ \A h \in Search!Candidates : query.tenant \in {None, documents[h[1]].tenant}
  /\ query.kept \subseteq Search!Candidates
  /\ query.at \in {"dense", "sparse", "fuse"} => query.kept = {}
  /\ Search!SearchIsFair

LEMMA SearchInit == Search!Init => SearchInv
<1> SUFFICES ASSUME Search!Init PROVE SearchInv
  OBVIOUS
<1>1. documents = <<>> /\ query = Search!Idle
  BY DEF Search!Init
<1>2. Search!NoHits \in Channels(Hits) /\ DOMAIN Search!NoHits = {}
  BY DEF Search!NoHits, Channels
<1>3. Search!Candidates = {}
  BY <1>1, <1>2 DEF Search!Candidates, Search!Idle
<1>4. Search!SearchIsFair
  BY <1>1 DEF Search!SearchIsFair, Search!Idle
<1> QED BY <1>1, <1>2, <1>3, <1>4 DEF SearchInv, Searches, Search!Idle

LEMMA HitsAreFinite == SearchInv => IsFiniteSet(Hits) /\ Hits \subseteq Nat \X Nat
<1> SUFFICES ASSUME SearchInv PROVE IsFiniteSet(Hits) /\ Hits \subseteq Nat \X Nat
  OBVIOUS
<1>1. Len(documents) \in Nat /\ MaxChunks \in Nat
  BY ServiceAssumption DEF SearchInv
<1>2. IsFiniteSet(1..Len(documents)) /\ IsFiniteSet(1..MaxChunks)
  BY <1>1, FS_Interval
<1> QED BY <1>1, <1>2, FS_Product DEF Hits

LEMMA SearchKeeps == SearchInv /\ [Search!Next]_(Search!vars) => SearchInv'
<1> SUFFICES ASSUME SearchInv, [Search!Next]_(Search!vars) PROVE SearchInv'
  OBVIOUS
<1>1. ASSUME NEW f \in Files, NEW e \in Editions, NEW t \in Tenants, Search!Ingest(f, e, t)
      PROVE  SearchInv'
  <2>1. documents' = Append(documents, [file |-> f, pages |-> e, tenant |-> t])
        /\ query' = query
    BY <1>1 DEF Search!Ingest
  <2>2. /\ documents' \in Seq([file : Files, pages : Editions, tenant : Tenants])
        /\ Len(documents') = Len(documents) + 1
        /\ \A d \in 1..Len(documents) : documents'[d] = documents[d]
    BY <2>1 DEF SearchInv
  <2>3. Hits \subseteq Hits'
    BY <2>2 DEF Hits, SearchInv
  <2>4. Channels(Hits) \subseteq Channels(Hits')
    BY <2>3 DEF Channels
  <2>5. query' \in Searches(Hits')
    BY <2>1, <2>3, <2>4 DEF SearchInv, Searches
  <2>6. Search!Candidates' = Search!Candidates /\ Search!Candidates \subseteq Hits
    BY <2>1 DEF Search!Candidates, SearchInv, Searches, Channels
  <2>7. \A h \in Search!Candidates : documents'[h[1]] = documents[h[1]]
    BY <2>2, <2>6 DEF Hits
  <2>8. Search!SearchIsFair'
    <3>1. query.at = "answered" =>
            \A x \in query.evidence : documents'[x.document] = documents[x.document]
      <4> SUFFICES ASSUME query.at = "answered", NEW x \in query.evidence
                   PROVE  documents'[x.document] = documents[x.document]
        OBVIOUS
      <4>1. <<x.document, x.chunk>> \in Hits
        BY <2>6 DEF SearchInv, Search!SearchIsFair
      <4> QED BY <2>2, <4>1 DEF Hits
    <3> QED BY <2>1, <2>6, <3>1 DEF Search!SearchIsFair, SearchInv
  <2> QED BY <2>1, <2>2, <2>5, <2>6, <2>7, <2>8 DEF SearchInv
<1>2. ASSUME documents' = documents,
             query' \in Searches(Hits),
             \A h \in Search!Candidates' : query'.tenant \in {None, documents[h[1]].tenant},
             query'.kept \subseteq Search!Candidates',
             query'.at \in {"dense", "sparse", "fuse"} => query'.kept = {},
             Search!SearchIsFair'
      PROVE  SearchInv'
  BY <1>2 DEF SearchInv, Hits
<1>3. ASSUME NEW t \in Tenants \cup {None}, Search!Ask(t) PROVE SearchInv'
  <2>1. query' = [Search!Idle EXCEPT !.at = "dense", !.tenant = t] /\ documents' = documents
    BY <1>3 DEF Search!Ask
  <2>2. Search!NoHits \in Channels(Hits) /\ DOMAIN Search!NoHits = {}
    BY DEF Search!NoHits, Channels
  <2>3. /\ query'.at = "dense" /\ query'.kept = {} /\ query' \in Searches(Hits)
        /\ query'.dense = Search!NoHits /\ query'.sparse = Search!NoHits
    BY <2>1, <2>2 DEF Searches, Search!Idle
  <2>4. Search!Candidates' = {}
    BY <2>2, <2>3 DEF Search!Candidates
  <2>5. Search!SearchIsFair'
    BY <2>3 DEF Search!SearchIsFair
  <2> QED BY <1>2, <2>1, <2>3, <2>4, <2>5
<1>4. CASE Search!Fail
  <2>1. query' = Search!Idle /\ documents' = documents
    BY <1>4 DEF Search!Fail
  <2>2. Search!NoHits \in Channels(Hits) /\ DOMAIN Search!NoHits = {}
    BY DEF Search!NoHits, Channels
  <2>3. /\ query'.at = "idle" /\ query'.kept = {} /\ query' \in Searches(Hits)
        /\ query'.dense = Search!NoHits /\ query'.sparse = Search!NoHits
    BY <2>1, <2>2 DEF Searches, Search!Idle
  <2>4. Search!Candidates' = {}
    BY <2>2, <2>3 DEF Search!Candidates
  <2>5. Search!SearchIsFair'
    BY <2>3 DEF Search!SearchIsFair
  <2> QED BY <1>2, <2>1, <2>3, <2>4, <2>5
<1>5. ASSUME NEW scores \in Search!Found
      PROVE  /\ scores \in Channels(Hits)
             /\ \A h \in DOMAIN scores : query.tenant \in {None, documents[h[1]].tenant}
  <2>1. Search!Matching \subseteq Hits
    BY DEF Search!Matching, Hits
  <2>2. PICK found \in SUBSET Search!Matching : scores \in [found -> Scores]
    BY DEF Search!Found
  <2>3. scores \in Channels(Hits) /\ DOMAIN scores \subseteq Search!Matching
    BY <2>1, <2>2 DEF Channels
  <2>4. \A h \in Search!Matching : query.tenant \in {None, documents[h[1]].tenant}
    BY DEF Search!Matching
  <2> QED BY <2>3, <2>4
<1>6. CASE Search!DenseSearch
  <2>1. PICK scores \in Search!Found : query' = [query EXCEPT !.at = "sparse", !.dense = scores]
    BY <1>6 DEF Search!DenseSearch
  <2>2. documents' = documents
    BY <1>6 DEF Search!DenseSearch
  <2>3. /\ query'.at = "sparse" /\ query'.tenant = query.tenant
        /\ query'.dense = scores /\ query'.sparse = query.sparse
        /\ query'.kept = query.kept /\ query' \in Searches(Hits)
    BY <1>5, <2>1 DEF SearchInv, Searches
  <2>4. query.kept = {}
    BY <1>6 DEF Search!DenseSearch, SearchInv
  <2>5. \A h \in Search!Candidates' : query'.tenant \in {None, documents[h[1]].tenant}
    BY <1>5, <2>3 DEF Search!Candidates, SearchInv
  <2>6. Search!SearchIsFair'
    BY <2>3 DEF Search!SearchIsFair
  <2> QED BY <1>2, <2>2, <2>3, <2>4, <2>5, <2>6
<1>7. CASE Search!SparseSearch
  <2>1. PICK scores \in Search!Found : query' = [query EXCEPT !.at = "fuse", !.sparse = scores]
    BY <1>7 DEF Search!SparseSearch
  <2>2. documents' = documents
    BY <1>7 DEF Search!SparseSearch
  <2>3. /\ query'.at = "fuse" /\ query'.tenant = query.tenant
        /\ query'.dense = query.dense /\ query'.sparse = scores
        /\ query'.kept = query.kept /\ query' \in Searches(Hits)
    BY <1>5, <2>1 DEF SearchInv, Searches
  <2>4. query.kept = {}
    BY <1>7 DEF Search!SparseSearch, SearchInv
  <2>5. \A h \in Search!Candidates' : query'.tenant \in {None, documents[h[1]].tenant}
    BY <1>5, <2>3 DEF Search!Candidates, SearchInv
  <2>6. Search!SearchIsFair'
    BY <2>3 DEF Search!SearchIsFair
  <2> QED BY <1>2, <2>2, <2>3, <2>4, <2>5, <2>6
<1>8. CASE Search!Fuse
  <2> DEFINE score == [h \in Search!Candidates |-> Search!FusionScore(h)]
  <2>1. PICK best \in Search!Best(Search!Candidates, score, CandidateK) :
          query' = [query EXCEPT !.at = "rerank", !.kept = best]
    BY <1>8 DEF Search!Fuse
  <2>2. documents' = documents
    BY <1>8 DEF Search!Fuse
  <2>3. /\ best \subseteq Search!Candidates
        /\ \A h \in best, out \in Search!Candidates \ best :
             Search!FusionScore(h) >= Search!FusionScore(out)
    BY DEF Search!Best
  <2>4. Search!Candidates \subseteq Hits
    BY DEF Search!Candidates, SearchInv, Searches, Channels
  <2>5. /\ query'.at = "rerank" /\ query'.tenant = query.tenant
        /\ query'.dense = query.dense /\ query'.sparse = query.sparse
        /\ query'.kept = best /\ query' \in Searches(Hits)
    BY <2>1, <2>3, <2>4 DEF SearchInv, Searches
  <2>6. Search!Candidates' = Search!Candidates
    BY <2>5 DEF Search!Candidates
  <2>7. \A h \in Search!Candidates' : query'.tenant \in {None, documents[h[1]].tenant}
    BY <2>5, <2>6 DEF SearchInv
  <2>8. Search!SearchIsFair'
    <3>1. query.dense \in Channels(Hits) /\ query.sparse \in Channels(Hits) /\ IsFiniteSet(Hits)
      BY HitsAreFinite DEF SearchInv, Searches
    <3>2. ASSUME NEW h \in best, NEW out \in Search!Candidates \ best,
                 {h, out} \subseteq DOMAIN query.dense \cap DOMAIN query.sparse,
                 query.dense[out] > query.dense[h], query.sparse[out] > query.sparse[h]
          PROVE  FALSE
      BY <2>3, <3>1, <3>2, FusionPrefers
    <3> QED BY <2>5, <2>6, <3>2 DEF Search!SearchIsFair
  <2> QED BY <1>2, <2>2, <2>3, <2>5, <2>6, <2>7, <2>8
<1>9. CASE Search!Rerank
  <2>1. PICK score \in [query.kept -> Scores] :
          \E ranked \in Search!Best(query.kept, score, RerankK) :
            query' = [query EXCEPT !.at = "answered",
                                   !.evidence = {Search!Evidence(h) : h \in ranked}]
    BY <1>9 DEF Search!Rerank
  <2>2. PICK ranked \in Search!Best(query.kept, score, RerankK) :
          query' = [query EXCEPT !.at = "answered",
                                 !.evidence = {Search!Evidence(h) : h \in ranked}]
    BY <2>1
  <2>3. documents' = documents /\ query.at = "rerank"
    BY <1>9 DEF Search!Rerank
  <2>4. ranked \subseteq query.kept
    BY DEF Search!Best
  <2>5. query.kept \subseteq Hits /\ Hits \subseteq Nat \X Nat
    BY HitsAreFinite DEF SearchInv, Searches
  <2>6. {Search!Evidence(h) : h \in ranked} \subseteq [document : Nat, chunk : Nat]
    BY <2>4, <2>5 DEF Search!Evidence
  <2>7. /\ query'.at = "answered" /\ query'.tenant = query.tenant
        /\ query'.dense = query.dense /\ query'.sparse = query.sparse
        /\ query'.kept = query.kept /\ query' \in Searches(Hits)
        /\ query'.evidence = {Search!Evidence(h) : h \in ranked}
    BY <2>2, <2>6 DEF SearchInv, Searches
  <2>8. Search!Candidates' = Search!Candidates
    BY <2>7 DEF Search!Candidates
  <2>9. \A h \in Search!Candidates' : query'.tenant \in {None, documents[h[1]].tenant}
    BY <2>7, <2>8 DEF SearchInv
  <2>10. query'.kept \subseteq Search!Candidates'
    BY <2>7, <2>8 DEF SearchInv
  <2>11. \A e \in query'.evidence :
           /\ <<e.document, e.chunk>> \in query'.kept
           /\ query'.tenant \in {None, documents[e.document].tenant}
    <3> SUFFICES ASSUME NEW e \in query'.evidence
                 PROVE  /\ <<e.document, e.chunk>> \in query'.kept
                        /\ query'.tenant \in {None, documents[e.document].tenant}
      OBVIOUS
    <3>1. PICK h \in ranked : e = Search!Evidence(h)
      BY <2>7
    <3>2. h \in query.kept /\ h = <<h[1], h[2]>> /\ e.document = h[1] /\ e.chunk = h[2]
      BY <2>4, <2>5, <3>1 DEF Search!Evidence
    <3> QED BY <2>7, <2>8, <2>9, <2>10, <3>2
  <2>12. Search!SearchIsFair'
    <3>1. \A h \in query.kept, out \in Search!Candidates \ query.kept :
            ~ /\ {h, out} \subseteq DOMAIN query.dense \cap DOMAIN query.sparse
              /\ query.dense[out] > query.dense[h] /\ query.sparse[out] > query.sparse[h]
      BY <2>3 DEF SearchInv, Search!SearchIsFair
    <3> QED BY <2>3, <2>7, <2>8, <2>11, <3>1 DEF Search!SearchIsFair
  <2> QED BY <1>2, <2>3, <2>7, <2>9, <2>10, <2>12
<1>10. CASE UNCHANGED Search!vars
  BY <1>10 DEF Search!vars, SearchInv, Hits, Search!SearchIsFair, Search!Candidates
<1> QED BY <1>1, <1>3, <1>4, <1>5, <1>6, <1>7, <1>8, <1>9, <1>10 DEF Search!Next

\* A search drops no candidate that both channels prefer to one it keeps, however
\* far apart the scores are, and its evidence is of the tenant who asked, also
\* when documents are added between its steps (hybrid_search, retrieve_evidence).
THEOREM SearchesAreFair == Spec => []SearchIsFair
<1>1. SearchInv => Search!SearchIsFair
  BY DEF SearchInv
<1> QED BY <1>1, SearchInit, SearchKeeps, SearchSteps, PTL DEF Spec

ChunkOf == [page : Nat, from : Int, to : Int]

\* How far one chunk begins after another.
Step == ChunkSize - ChunkOverlap

\* Chunks of a page begin a step after one another, as long as there is text.
Cuts(cs, page, length) ==
  /\ cs \in Seq(ChunkOf)
  /\ \A k \in 1..Len(cs) :
       /\ cs[k].page = page
       /\ cs[k].from = (k - 1) * Step + 1
       /\ cs[k].to = IF (k - 1) * Step + ChunkSize > length
                     THEN length ELSE (k - 1) * Step + ChunkSize
  /\ \A k \in Nat \ {0} : k \in 1..Len(cs) <=> (k - 1) * Step < length

LEMMA SplitIs ==
  ASSUME NEW page \in Nat, NEW length \in Nat
  PROVE  Cuts(Search!Split(page, length), page, length)
<1> DEFINE n == (length + Step - 1) \div Step
           cs == Search!Split(page, length)
<1>1. Step \in Nat \ {0} /\ ChunkSize \in Nat
  BY ServiceAssumption DEF Step
<1>2. n \in Nat /\ n * Step <= length + Step - 1 /\ length + Step - 1 < n * Step + Step
  BY <1>1, Quotient
<1>3. cs = [k \in 1..n |->
              [page |-> page, from |-> (k - 1) * Step + 1,
               to |-> IF (k - 1) * Step + ChunkSize > length
                      THEN length ELSE (k - 1) * Step + ChunkSize]]
  BY DEF Search!Split, Search!Segments, Step
<1> HIDE DEF cs, n
<1>4. ASSUME NEW k \in 1..n PROVE (k - 1) * Step \in Int
  BY <1>1, <1>2
<1>5. cs \in Seq(ChunkOf) /\ Len(cs) = n
  BY <1>1, <1>2, <1>3, <1>4 DEF ChunkOf
<1>6. ASSUME NEW k \in Nat \ {0} PROVE k \in 1..n <=> (k - 1) * Step < length
  <2>1. CASE k <= n
    <3>1. (n - k) * Step \in Nat /\ (n - k) * Step = n * Step - k * Step
      BY <1>1, <1>2, <2>1
    <3>2. (k - 1) * Step = k * Step - Step /\ k * Step \in Int /\ n * Step \in Int
      BY <1>1, <1>2
    <3> QED BY <1>1, <1>2, <2>1, <3>1, <3>2
  <2>2. CASE k > n
    <3>1. (k - 1 - n) * Step \in Nat /\ (k - 1 - n) * Step = (k - 1) * Step - n * Step
      BY <1>1, <1>2, <2>2
    <3>2. (k - 1) * Step \in Int /\ n * Step \in Int
      BY <1>1, <1>2
    <3> QED BY <1>1, <1>2, <2>2, <3>1, <3>2
  <2> QED BY <1>2, <2>1, <2>2
<1>7. ASSUME NEW k \in 1..Len(cs)
      PROVE  /\ cs[k].page = page
             /\ cs[k].from = (k - 1) * Step + 1
             /\ cs[k].to = IF (k - 1) * Step + ChunkSize > length
                           THEN length ELSE (k - 1) * Step + ChunkSize
  BY <1>3, <1>5
<1> QED BY <1>5, <1>6, <1>7 DEF cs, Cuts

\* Every position is in a chunk, and two share the overlap or the later one.
LEMMA CutsCover ==
  ASSUME NEW page \in Nat, NEW length \in Nat, NEW cs, Cuts(cs, page, length)
  PROVE  /\ \A x \in 1..length : \E k \in 1..Len(cs) : x \in cs[k].from..cs[k].to
         /\ \A k \in 1..(Len(cs) - 1) :
              LET size == cs[k + 1].to - cs[k + 1].from + 1
              IN  Search!Shared(cs[k], cs[k + 1]) = IF size < ChunkOverlap THEN size ELSE ChunkOverlap
<1>1. /\ Step \in Nat \ {0} /\ ChunkSize \in Nat /\ ChunkOverlap \in Nat
      /\ Step = ChunkSize - ChunkOverlap /\ Len(cs) \in Nat
  BY ServiceAssumption DEF Step, Cuts
<1>2. ASSUME NEW x \in 1..length
      PROVE  \E k \in 1..Len(cs) : x \in cs[k].from..cs[k].to
  <2> DEFINE q == (x - 1) \div Step
  <2>1. q \in Nat /\ q * Step <= x - 1 /\ x - 1 < q * Step + Step
    <3>1. x - 1 \in Nat
      OBVIOUS
    <3> QED BY ONLY <1>1, <3>1, Quotient
  <2> HIDE DEF q
  <2> DEFINE start == q * Step
  <2>2. start \in Nat /\ start < length
    BY <1>1, <2>1
  <2>3. q + 1 \in 1..Len(cs) /\ (q + 1) - 1 = q
    BY <2>1, <2>2 DEF Cuts
  <2>4. /\ cs[q + 1].from = start + 1
        /\ cs[q + 1].to = IF start + ChunkSize > length THEN length ELSE start + ChunkSize
    BY <2>3 DEF Cuts
  <2> HIDE DEF start
  <2>5. start <= x - 1 /\ x - 1 < start + Step
    BY <2>1 DEF start
  <2>6. x \in cs[q + 1].from..cs[q + 1].to
    BY <1>1, <2>2, <2>4, <2>5
  <2> QED BY <2>3, <2>6
<1>3. ASSUME NEW k \in 1..(Len(cs) - 1)
      PROVE  LET size == cs[k + 1].to - cs[k + 1].from + 1
             IN  Search!Shared(cs[k], cs[k + 1]) = IF size < ChunkOverlap THEN size ELSE ChunkOverlap
  <2> DEFINE start == (k - 1) * Step
  <2>1. start \in Int /\ ((k + 1) - 1) * Step = start + Step
    BY <1>1
  <2>2. k \in 1..Len(cs) /\ k + 1 \in 1..Len(cs) /\ k + 1 \in Nat \ {0}
    BY <1>1
  <2>3. /\ cs[k].to = IF start + ChunkSize > length THEN length ELSE start + ChunkSize
        /\ cs[k + 1].from = start + Step + 1
        /\ cs[k + 1].to = IF start + Step + ChunkSize > length THEN length ELSE start + Step + ChunkSize
        /\ start + Step < length
    BY <2>1, <2>2 DEF Cuts
  <2> HIDE DEF start
  <2> QED BY <1>1, <2>1, <2>3 DEF Search!Shared
<1> QED BY <1>2, <1>3

\* The chunks of the pages up to one, for all of them.
JoinedUpTo(of, pages) ==
  /\ \A p \in 0..Len(pages) : of[p] \in Seq(ChunkOf)
  /\ of[0] = <<>>
  /\ \A p \in 1..Len(pages) : of[p] = of[p - 1] \o Search!Split(p, pages[p])
  /\ of[Len(pages)] = Search!Chunks(pages)

LEMMA ChunksAreJoined ==
  ASSUME NEW pages \in Seq(Nat)
  PROVE  \E of : JoinedUpTo(of, pages)
<1> DEFINE N == Len(pages)
           Def(f) == [p \in 0..N |-> IF p = 0 THEN <<>> ELSE f[p - 1] \o Search!Split(p, pages[p])]
           step == [q \in (0..(N - 1)) \X Seq(ChunkOf) |->
                      q[2] \o Search!Split(q[1] + 1, pages[q[1] + 1])]
<1>1. \A n \in 0..(N - 1), x \in Seq(ChunkOf) :
        step[<<n, x>>] = x \o Search!Split(n + 1, pages[n + 1])
  OBVIOUS
<1>2. ASSUME NEW n \in 0..(N - 1), NEW x \in Seq(ChunkOf)
      PROVE  step[<<n, x>>] \in Seq(ChunkOf)
  <2>1. n + 1 \in 1..N /\ n + 1 \in Nat /\ pages[n + 1] \in Nat
    OBVIOUS
  <2>2. Search!Split(n + 1, pages[n + 1]) \in Seq(ChunkOf)
    BY <2>1, SplitIs DEF Cuts
  <2> QED BY <1>1, <2>2
<1>3. PICK f \in [0..N -> Seq(ChunkOf)] : Follows(f, <<>>, step, N)
  <2> HIDE DEF step
  <2>1. N \in Nat /\ <<>> \in Seq(ChunkOf)
    OBVIOUS
  <2>2. \E f \in [0..N -> Seq(ChunkOf)] : Follows(f, <<>>, step, N)
    BY ONLY <1>2, <2>1, FunctionUpTo
  <2> QED BY <2>2
<1>4. ASSUME NEW p \in 1..N PROVE f[p] = f[p - 1] \o Search!Split(p, pages[p])
  <2>1. p - 1 \in 0..(N - 1) /\ f[p - 1] \in Seq(ChunkOf) /\ (p - 1) + 1 = p
    OBVIOUS
  <2>2. f[(p - 1) + 1] = step[<<p - 1, f[p - 1]>>]
    BY <1>3, <2>1 DEF Follows
  <2> HIDE DEF step
  <2> QED BY <1>1, <2>1, <2>2
<1>5. f[0] = <<>>
  BY <1>3 DEF Follows
<1>6. f = Def(f)
  BY <1>4, <1>5
<1> DEFINE of == CHOOSE g : g = Def(g)
<1>7. of = Def(of)
  BY <1>6
<1>8. Search!Chunks(pages) = of[N]
  BY DEF Search!Chunks
<1> HIDE DEF of
<1>9. of[0] = <<>> /\ \A p \in 1..N : of[p] = of[p - 1] \o Search!Split(p, pages[p])
  <2>1. \A p \in 0..N : of[p] = IF p = 0 THEN <<>> ELSE of[p - 1] \o Search!Split(p, pages[p])
    <3>1. SUFFICES ASSUME NEW g, g = Def(g)
                   PROVE  \A p \in 0..N : g[p] = IF p = 0 THEN <<>> ELSE g[p - 1] \o Search!Split(p, pages[p])
      BY <1>7
    <3> QED BY <3>1
  <2>2. N \in Nat
    OBVIOUS
  <2> HIDE DEF N
  <2>3. of[0] = <<>>
    BY ONLY <2>1, <2>2
  <2>4. ASSUME NEW p \in 1..N PROVE of[p] = of[p - 1] \o Search!Split(p, pages[p])
    <3>1. p \in 0..N /\ p # 0
      BY ONLY <2>2
    <3> QED BY <2>1, <3>1, Zenon
  <2> QED BY <2>3, <2>4
<1> DEFINE P == {p \in 0..N : of[p] \in Seq(ChunkOf)}
<1>10. 0 \in P
  <2>1. 0 \in 0..N /\ <<>> \in Seq(ChunkOf)
    OBVIOUS
  <2>2. of[0] = <<>>
    BY <1>9
  <2> QED BY <2>1, <2>2
<1>11. ASSUME NEW n \in 0..(N - 1), n \in P PROVE n + 1 \in P
  <2>1. /\ n + 1 \in 1..N /\ n + 1 \in 0..N /\ n + 1 \in Nat /\ pages[n + 1] \in Nat
        /\ (n + 1) - 1 = n
    OBVIOUS
  <2>2. Search!Split(n + 1, pages[n + 1]) \in Seq(ChunkOf)
    BY <2>1, SplitIs DEF Cuts
  <2>3. of[n + 1] = of[n] \o Search!Split(n + 1, pages[n + 1])
    BY <1>9, <2>1
  <2>4. of[n] \in Seq(ChunkOf)
    BY <1>11
  <2>5. of[n + 1] \in Seq(ChunkOf)
    BY <2>2, <2>3, <2>4
  <2> QED BY <2>1, <2>5
<1>12. \A p \in 0..N : of[p] \in Seq(ChunkOf)
  <2>1. N \in Nat
    OBVIOUS
  <2> HIDE DEF N
  <2>2. \A p \in 0..N : p \in P
    <3> HIDE DEF P
    <3> QED BY ONLY <1>10, <1>11, <2>1, UpTo
  <2> QED BY <2>2
<1> QED BY <1>8, <1>9, <1>12 DEF JoinedUpTo

\* What is where in two sequences, one after the other.
LEMMA ConcatParts ==
  ASSUME NEW S, NEW a \in Seq(S), NEW b \in Seq(S)
  PROVE  /\ Len(a) \in Nat /\ Len(b) \in Nat /\ Len(a \o b) = Len(a) + Len(b)
         /\ a \o b \in Seq(S)
         /\ \A i \in 1..Len(a) : (a \o b)[i] = a[i]
         /\ \A i \in 1..Len(b) : (a \o b)[Len(a) + i] = b[i]
<1>1. Len(a) \in Nat /\ Len(b) \in Nat
  OBVIOUS
<1>2. \A i \in 1..(Len(a) + Len(b)) : (a \o b)[i] = IF i <= Len(a) THEN a[i] ELSE b[i - Len(a)]
  BY ConcatProperties
<1>3. ASSUME NEW i \in 1..Len(a) PROVE (a \o b)[i] = a[i]
  BY <1>1, <1>2
<1>4. ASSUME NEW i \in 1..Len(b) PROVE (a \o b)[Len(a) + i] = b[i]
  <2>1. /\ Len(a) + i \in 1..(Len(a) + Len(b)) /\ ~(Len(a) + i <= Len(a))
        /\ (Len(a) + i) - Len(a) = i
    BY <1>1
  <2> QED BY <1>2, <2>1
<1> QED BY <1>1, <1>3, <1>4, ConcatProperties

\* The chunks cs of page p are those of content after the first few, and no others
\* are.
PlacedAt(content, cs, p, first) ==
  /\ first \in Nat /\ first + Len(cs) <= Len(content)
  /\ \A k \in 1..Len(cs) : content[first + k] = cs[k]
  /\ \A i \in 1..Len(content) :
       content[i].page = p => i - first \in 1..Len(cs)

\* The chunks of each page of a document are together, in their order.
LEMMA PagesArePlaced ==
  ASSUME NEW pages \in Seq(Nat), NEW p \in 1..Len(pages)
  PROVE  /\ Search!Chunks(pages) \in Seq(ChunkOf)
         /\ \E first : PlacedAt(Search!Chunks(pages), Search!Split(p, pages[p]), p, first)
<1> DEFINE N == Len(pages)
           cs == Search!Split(p, pages[p])
<1>1. PICK of : JoinedUpTo(of, pages)
  BY ChunksAreJoined
<1>2. N \in Nat /\ p \in Nat /\ pages[p] \in Nat
  OBVIOUS
<1>3. Cuts(cs, p, pages[p])
  BY <1>2, SplitIs
<1> DEFINE P == {n \in 0..N :
                   /\ \A i \in 1..Len(of[n]) : of[n][i].page \in 1..n
                   /\ n >= p => \E first : PlacedAt(of[n], cs, p, first)}
<1>4. 0 \in P
  <2>1. of[0] = <<>> /\ 0 \in 0..N
    BY <1>1, <1>2 DEF JoinedUpTo
  <2>2. Len(of[0]) = 0
    BY <2>1
  <2> QED BY <1>2, <2>1, <2>2
<1>5. ASSUME NEW n \in 0..(N - 1), n \in P PROVE n + 1 \in P
  <2> DEFINE more == Search!Split(n + 1, pages[n + 1])
  <2>1. /\ n \in Nat /\ n \in 0..N /\ n + 1 \in 1..N /\ n + 1 \in 0..N /\ n + 1 \in Nat
        /\ pages[n + 1] \in Nat /\ (n + 1) - 1 = n
    BY <1>2
  <2>2. Cuts(more, n + 1, pages[n + 1])
    BY <2>1, SplitIs
  <2>3. of[n] \in Seq(ChunkOf) /\ of[n + 1] = of[n] \o more
    BY <1>1, <2>1 DEF JoinedUpTo
  <2>4. more \in Seq(ChunkOf) /\ \A k \in 1..Len(more) : more[k].page = n + 1
    BY <2>2 DEF Cuts
  <2> DEFINE old == of[n]
             new == of[n + 1]
  <2>5. /\ old \in Seq(ChunkOf) /\ new = old \o more
        /\ more = Search!Split(n + 1, pages[n + 1])
    BY <2>3
  <2>6. \A i \in 1..Len(old) : old[i].page \in 1..n
    BY <1>5
  <2> HIDE DEF more, old, new
  <2>7. /\ Len(old) \in Nat /\ Len(more) \in Nat /\ Len(new) = Len(old) + Len(more)
        /\ new \in Seq(ChunkOf)
        /\ \A i \in 1..Len(old) : new[i] = old[i]
        /\ \A i \in 1..Len(more) : new[Len(old) + i] = more[i]
    BY <2>4, <2>5, ConcatParts
  <2>8. ASSUME NEW i \in 1..Len(new) PROVE new[i].page \in 1..(n + 1)
    <3>1. CASE i \in 1..Len(old)
      <4>1. new[i].page \in 1..n
        BY <2>6, <2>7, <3>1
      <4> QED BY <2>1, <4>1
    <3>2. CASE i - Len(old) \in 1..Len(more)
      <4>1. Len(old) + (i - Len(old)) = i
        BY <2>7
      <4>2. new[i].page = n + 1
        BY <2>4, <2>7, <3>2, <4>1
      <4> QED BY <2>1, <4>2
    <3>3. i \in 1..Len(old) \/ i - Len(old) \in 1..Len(more)
      BY <2>7
    <3> QED BY <3>1, <3>2, <3>3
  <2>9. ASSUME n + 1 >= p PROVE \E first : PlacedAt(new, cs, p, first)
    <3>1. CASE n + 1 = p
      <4>1. cs = more
        BY <2>5, <3>1
      <4> HIDE DEF cs
      <4>2. ASSUME NEW i \in 1..Len(new), new[i].page = p PROVE i - Len(old) \in 1..Len(cs)
        <5>1. i \notin 1..Len(old)
          <6>1. SUFFICES ASSUME i \in 1..Len(old) PROVE FALSE
            OBVIOUS
          <6>2. new[i].page \in 1..n
            BY <2>6, <2>7, <6>1
          <6> QED BY <2>1, <3>1, <4>2, <6>2
        <5> QED BY <2>7, <4>1, <5>1
      <4>3. PlacedAt(new, cs, p, Len(old))
        BY <2>7, <4>1, <4>2 DEF PlacedAt
      <4> QED BY <4>3
    <3>2. CASE n >= p
      <4>1. PICK first : PlacedAt(old, cs, p, first)
        BY <1>5, <3>2 DEF old
      <4>2. Len(cs) \in Nat
        BY <1>3 DEF Cuts
      <4> HIDE DEF cs
      <4>3. ASSUME NEW k \in 1..Len(cs) PROVE new[first + k] = cs[k]
        <5>1. first + k \in 1..Len(old) /\ old[first + k] = cs[k]
          BY <2>7, <4>1, <4>2 DEF PlacedAt
        <5> QED BY <2>7, <5>1
      <4>4. ASSUME NEW i \in 1..Len(new), new[i].page = p PROVE i - first \in 1..Len(cs)
        <5>1. i - Len(old) \notin 1..Len(more)
          <6>1. SUFFICES ASSUME i - Len(old) \in 1..Len(more) PROVE FALSE
            OBVIOUS
          <6>2. Len(old) + (i - Len(old)) = i
            BY <2>7
          <6>3. new[i].page = n + 1
            BY <2>4, <2>7, <6>1, <6>2
          <6> QED BY <1>2, <2>1, <3>2, <4>4, <6>3
        <5>2. i \in 1..Len(old)
          BY <2>7, <5>1
        <5>3. old[i].page = p
          BY <2>7, <4>4, <5>2
        <5> QED BY <4>1, <5>2, <5>3 DEF PlacedAt
      <4>5. first \in Nat /\ first + Len(cs) <= Len(new)
        BY <2>7, <4>1, <4>2 DEF PlacedAt
      <4>6. PlacedAt(new, cs, p, first)
        BY <4>3, <4>4, <4>5 DEF PlacedAt
      <4> QED BY <4>6
    <3> QED BY <1>2, <2>1, <2>9, <3>1, <3>2
  <2> QED BY <2>1, <2>8, <2>9 DEF new
<1>6. N \in P
  <2>1. \A n \in 0..N : n \in P
    <3> HIDE DEF P, N
    <3> QED BY ONLY <1>2, <1>4, <1>5, UpTo
  <2> QED BY <1>2, <2>1
<1>7. of[N] = Search!Chunks(pages) /\ of[N] \in Seq(ChunkOf)
  BY <1>1, <1>2 DEF JoinedUpTo
<1>8. \E first : PlacedAt(of[N], cs, p, first)
  BY <1>2, <1>6
<1> QED BY <1>7, <1>8

LEMMA EveryDocumentIsCovered == SearchInv => Search!DocumentIsCovered
<1> SUFFICES ASSUME SearchInv,
                    NEW d \in 1..Len(documents), NEW p \in 1..Len(documents[d].pages)
             PROVE  /\ \A x \in 1..documents[d].pages[p] :
                         \E k \in Search!PageOf(d, p) :
                           x \in Search!Content(d)[k].from..Search!Content(d)[k].to
                    /\ \A k \in Search!PageOf(d, p) : k + 1 \in Search!PageOf(d, p) =>
                         LET next == Search!Content(d)[k + 1]
                             size == next.to - next.from + 1
                         IN  Search!Shared(Search!Content(d)[k], next)
                               = IF size < ChunkOverlap THEN size ELSE ChunkOverlap
  BY DEF Search!DocumentIsCovered
<1> DEFINE pages == documents[d].pages
           content == Search!Content(d)
           cs == Search!Split(p, pages[p])
<1>1. pages \in Seq(Nat)
  <2> DEFINE Stored == [file : Files, pages : Editions, tenant : Tenants]
  <2>1. documents[d] \in Stored
    <3>1. documents \in Seq(Stored)
      BY DEF SearchInv
    <3> HIDE DEF Stored
    <3> QED BY <3>1
  <2>2. pages \in Editions
    BY <2>1
  <2> QED BY <2>2, ServiceAssumption
<1>2. content = Search!Chunks(pages) /\ Search!PageOf(d, p) = {k \in 1..Len(content) : content[k].page = p}
  BY DEF Search!Content, Search!PageOf
<1>3. p \in Nat /\ pages[p] \in Nat
  BY <1>1
<1>4. Cuts(cs, p, pages[p])
  BY <1>3, SplitIs
<1>5. content \in Seq(ChunkOf) /\ \E first : PlacedAt(content, cs, p, first)
  BY <1>1, <1>2, PagesArePlaced
<1> DEFINE size(c) == c.to - c.from + 1
<1>6. /\ \A x \in 1..pages[p] : \E k \in 1..Len(cs) : x \in cs[k].from..cs[k].to
      /\ \A k \in 1..(Len(cs) - 1) :
           Search!Shared(cs[k], cs[k + 1]) = IF size(cs[k + 1]) < ChunkOverlap
                                             THEN size(cs[k + 1]) ELSE ChunkOverlap
  BY <1>3, <1>4, CutsCover
<1> HIDE DEF content, cs, size
<1>7. Len(cs) \in Nat /\ Len(content) \in Nat /\ \A k \in 1..Len(cs) : cs[k].page = p
  BY <1>4, <1>5 DEF Cuts
<1>8. PICK first : PlacedAt(content, cs, p, first)
  BY <1>5
<1>9. ASSUME NEW x \in 1..pages[p]
      PROVE  \E k \in Search!PageOf(d, p) : x \in content[k].from..content[k].to
  <2>1. PICK k \in 1..Len(cs) : x \in cs[k].from..cs[k].to
    BY <1>6
  <2>2. first + k \in 1..Len(content) /\ content[first + k] = cs[k]
    BY <1>7, <1>8 DEF PlacedAt
  <2>3. first + k \in Search!PageOf(d, p)
    BY <1>2, <1>7, <2>2
  <2> QED BY <2>1, <2>2, <2>3
<1>10. ASSUME NEW k \in Search!PageOf(d, p), k + 1 \in Search!PageOf(d, p)
       PROVE  Search!Shared(content[k], content[k + 1])
                = IF size(content[k + 1]) < ChunkOverlap THEN size(content[k + 1]) ELSE ChunkOverlap
  <2>1. /\ k \in 1..Len(content) /\ k + 1 \in 1..Len(content)
        /\ content[k].page = p /\ content[k + 1].page = p
    BY <1>2, <1>10
  <2> DEFINE j == k - first
  <2>2. j \in 1..Len(cs) /\ (k + 1) - first \in 1..Len(cs) /\ first \in Nat
    BY <1>8, <2>1 DEF PlacedAt
  <2>3. j \in 1..(Len(cs) - 1) /\ j + 1 \in 1..Len(cs) /\ first + j = k /\ first + (j + 1) = k + 1
    BY <1>7, <2>1, <2>2
  <2> HIDE DEF j
  <2>4. content[k] = cs[j] /\ content[k + 1] = cs[j + 1]
    BY <1>8, <2>2, <2>3 DEF PlacedAt
  <2> QED BY <1>6, <2>3, <2>4
<1> QED BY <1>9, <1>10 DEF content, size

\* No position of a document is left out of its chunks, and those of a page that
\* follow one another share the overlap, for every chunk size and every length of
\* pages (_split_text, chunk_document, get_document_page).
THEOREM DocumentsAreCovered == Spec => []DocumentIsCovered
BY EveryDocumentIsCovered, SearchInit, SearchKeeps, SearchSteps, PTL DEF Spec
=============================================================================
