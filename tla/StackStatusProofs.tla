-------------------------- MODULE StackStatusProofs --------------------------
(***************************************************************************)
(* Proofs about Compose and StackStatus, for groups of any number of       *)
(* documents, services and labels, and any replica counts.                 *)
(***************************************************************************)
EXTENDS StackStatus, Induction

Document == [path : Seq(STRING), files : SUBSET Seq(STRING), hasServices : BOOLEAN,
             services : UNION {[D -> Decl] : D \in SUBSET Service}]
(* "true" is a string, which the provers do not see. *)
Text == STRING \cup {"true"}
Labels == UNION {[D -> Text] : D \in SUBSET STRING}
Merged == [labels : Labels, global : BOOLEAN, replicas : Count \cup {Unset}]
View == UNION {[D -> Merged] : D \in SUBSET Service}

LEMMA Bounds ==
  /\ MaxCount \in Nat \ {0} /\ 0 \in Count /\ 1 \in Count /\ Unset \in Int /\ Unset \notin Count
  /\ \A v \in DOMAIN Uint : Uint[v] \in Count
<1>1. MaxCount \in Nat \ {0} /\ \A v \in DOMAIN Uint : Uint[v] <= MaxCount
  BY StackConstantsOK DEF StackConstantsOK
<1>2. \A v \in DOMAIN Uint : Uint[v] \in Nat
  BY DEF Uint
<1> QED
  BY <1>1, <1>2 DEF Count, Unset

(* The groups of Git are sequences of documents. *)
LEMMA GroupType ==
  ASSUME NEW group \in MergeGroup
  PROVE  group \in Seq(Document) /\ group # <<>>
<1> DEFINE S == {doc \in Range(group) : IsDocument(doc)}
<1>1. group # <<>> /\ group \in Seq(S)
  BY StackConstantsOK DEF StackConstantsOK
<1>2. S \subseteq Document
  BY DEF IsDocument, Document
<1> HIDE DEF S
<1> QED
  BY <1>1, <1>2

LEMMA DocumentType ==
  ASSUME NEW group \in Seq(Document)
  PROVE  /\ Len(group) \in Nat /\ DOMAIN group = 1 .. Len(group)
         /\ \A i \in 1 .. Len(group) : /\ group[i] \in Document
                                      /\ DOMAIN group[i].services \subseteq Service
                                      /\ \A n \in DOMAIN group[i].services : group[i].services[n] \in Decl
<1>1. Len(group) \in Nat /\ DOMAIN group = 1 .. Len(group) /\ \A i \in 1 .. Len(group) : group[i] \in Document
  OBVIOUS
<1>2. ASSUME NEW doc \in Document
      PROVE  DOMAIN doc.services \subseteq Service /\ \A n \in DOMAIN doc.services : doc.services[n] \in Decl
  BY DEF Document
<1> QED
  BY <1>1, <1>2

-------------------------------------------------------------------------------
(* Labels.                                                                 *)

(* The greatest of the numbers up to a bound. *)
LEMMA GreatestIs ==
  ASSUME NEW m \in Nat, NEW T, T \subseteq 0 .. m, T # {}
  PROVE  Max(T) \in T /\ \A y \in T : Max(T) >= y
BY GreatestExists DEF Max

(* The entries of a section, apart from the arithmetic of their places. *)
LEMMA EntriesAre ==
  ASSUME NEW section \in LabelList
  PROVE  /\ DOMAIN section = 1 .. Len(section) /\ Len(section) \in Nat
         /\ \A i \in DOMAIN section : section[i].key \in STRING /\ section[i].value \in STRING
<1> DEFINE R == [key : STRING, value : STRING]
<1>1. section \in Seq(R)
  BY DEF LabelList
<1>2. \A r \in R : r.key \in STRING /\ r.value \in STRING
  OBVIOUS
<1> HIDE DEF R
<1>3. DOMAIN section = 1 .. Len(section) /\ Len(section) \in Nat /\ \A i \in DOMAIN section : section[i] \in R
  BY <1>1
<1> QED
  BY <1>2, <1>3

(* What a section says of a key is said by its last entry of the key. *)
Says(section, k, i) ==
  i \in 1 .. Len(section) /\ section[i].key = k /\ \A j \in 1 .. Len(section) : section[j].key = k => j <= i
Value(entry) == IF entry.value = "" THEN "true" ELSE entry.value

LEMMA LastEntry ==
  ASSUME NEW section \in LabelList, NEW k \in DOMAIN Flat(section)
  PROVE  \E i \in DOMAIN section : Says(section, k, i) /\ Flat(section)[k] = Value(section[i])
<1> DEFINE T == {i \in DOMAIN section : section[i].key = k}
           m == Len(section)
           last == Max(T)
<1>1. DOMAIN section = 1 .. m /\ m \in Nat
  BY EntriesAre
<1>2. Flat(section)[k] = Value(section[last])
  BY DEF Flat, Value
<1>3. T # {}
  BY DEF Flat
<1> HIDE DEF m, last
<1>4. T \subseteq 0 .. m
  BY <1>1
<1>5. T = {i \in 1 .. m : section[i].key = k}
  BY <1>1
<1>6. Max(T) \in T /\ \A y \in T : Max(T) >= y
  <2> HIDE DEF T
  <2> QED
    BY <1>1, <1>3, <1>4, GreatestIs
<1>7. last \in 1 .. m /\ section[last].key = k
  BY <1>5, <1>6 DEF last
<1>8. ASSUME NEW j \in 1 .. m, section[j].key = k
      PROVE  j <= last
  <2>1. j \in T
    BY <1>5, <1>8
  <2>2. last >= j
    BY <2>1, <1>6 DEF last
  <2> QED
    BY <2>2, <1>7
<1>9. Says(section, k, last)
  BY <1>7, <1>8 DEF Says, m
<1> QED
  BY <1>1, <1>2, <1>7, <1>9

LEMMA LabelsAre ==
  ASSUME NEW f, f = [k \in DOMAIN f |-> f[k]], DOMAIN f \subseteq STRING, \A k \in DOMAIN f : f[k] \in Text
  PROVE  f \in Labels
<1>1. f \in [DOMAIN f -> Text]
  OBVIOUS
<1> QED
  BY <1>1 DEF Labels

LEMMA LabelsHave ==
  ASSUME NEW f \in Labels
  PROVE  DOMAIN f \subseteq STRING /\ \A k \in DOMAIN f : f[k] \in Text
<1>1. PICK D \in SUBSET STRING : f \in [D -> Text]
  BY DEF Labels
<1> QED
  BY <1>1

LEMMA FlatType ==
  ASSUME NEW section \in LabelList
  PROVE  Flat(section) \in Labels
<1>1. DOMAIN Flat(section) = {section[i].key : i \in DOMAIN section}
  BY DEF Flat
<1>2. ASSUME NEW k \in DOMAIN Flat(section)
      PROVE  Flat(section)[k] \in Text
  <2>1. PICK i \in DOMAIN section : Says(section, k, i) /\ Flat(section)[k] = Value(section[i])
    BY LastEntry
  <2>2. section[i].value \in STRING
    BY EntriesAre
  <2> QED
    BY <2>1, <2>2 DEF Value, Text
<1>3. DOMAIN Flat(section) \subseteq STRING
  BY <1>1, EntriesAre
<1>4. Flat(section) = [k \in DOMAIN Flat(section) |-> Flat(section)[k]]
  BY DEF Flat
<1> QED
  BY <1>2, <1>3, <1>4, LabelsAre

LEMMA OverType ==
  ASSUME NEW f \in Labels, NEW g \in Labels
  PROVE  Over(f, g) \in Labels
<1>1. /\ DOMAIN f \subseteq STRING /\ \A k \in DOMAIN f : f[k] \in Text
      /\ DOMAIN g \subseteq STRING /\ \A k \in DOMAIN g : g[k] \in Text
  BY LabelsHave
<1>2. DOMAIN Over(f, g) = DOMAIN f \cup DOMAIN g
      /\ \A k \in DOMAIN f \cup DOMAIN g : Over(f, g)[k] = IF k \in DOMAIN f THEN f[k] ELSE g[k]
  BY DEF Over
<1>3. \A k \in DOMAIN Over(f, g) : k \in STRING /\ Over(f, g)[k] \in Text
  BY <1>1, <1>2
<1>4. Over(f, g) = [k \in DOMAIN Over(f, g) |-> Over(f, g)[k]]
  BY DEF Over
<1> QED
  BY <1>3, <1>4, LabelsAre

LEMMA FlatSays ==
  ASSUME NEW section \in LabelList, NEW k
  PROVE  /\ k \in DOMAIN Flat(section) => \E i : Says(section, k, i)
         /\ \A i : Says(section, k, i) => k \in DOMAIN Flat(section) /\ Flat(section)[k] = Value(section[i])
         /\ (\E i \in 1 .. Len(section) : section[i].key = k) => k \in DOMAIN Flat(section)
<1>1. DOMAIN section = 1 .. Len(section) /\ Len(section) \in Nat
  BY EntriesAre
<1>2. k \in DOMAIN Flat(section) <=> \E i \in 1 .. Len(section) : section[i].key = k
  BY <1>1 DEF Flat
<1>3. ASSUME k \in DOMAIN Flat(section)
      PROVE  \E i : Says(section, k, i) /\ Flat(section)[k] = Value(section[i])
  <2>1. PICK i \in DOMAIN section : Says(section, k, i) /\ Flat(section)[k] = Value(section[i])
    BY <1>3, LastEntry
  <2> QED
    BY <2>1
<1>4. ASSUME NEW i, NEW j, Says(section, k, i), Says(section, k, j)
      PROVE  i = j
  <2>1. i \in Int /\ j \in Int /\ i <= j /\ j <= i
    BY <1>4, <1>1 DEF Says
  <2> QED
    BY <2>1
<1>5. \A i : Says(section, k, i) => k \in DOMAIN Flat(section)
  BY <1>2 DEF Says
<1> QED
  BY <1>2, <1>3, <1>4, <1>5

(* The two readings of the labels of a declaration, one laid over the other  *)
(* or the two lists appended, are the same.                                 *)
LEMMA SectionsAgree ==
  ASSUME NEW top \in LabelList, NEW deploy \in LabelList
  PROVE  Over(Flat(deploy), Flat(top)) = Flat(top \o deploy)
<1> DEFINE all == top \o deploy
           p == Len(top)
           q == Len(deploy)
           f == Over(Flat(deploy), Flat(top))
<1>1. p \in Nat /\ q \in Nat
  BY DEF LabelList
<1>2. all \in LabelList /\ Len(all) = p + q
  BY DEF LabelList
<1>3. \A i \in 1 .. p : all[i] = top[i]
  BY DEF LabelList
<1>4. \A i \in 1 .. q : all[p + i] = deploy[i]
  BY DEF LabelList
<1> HIDE DEF all, p, q
<1>5. \A i \in 1 .. p + q : i \in 1 .. p \/ (i - p \in 1 .. q /\ i = p + (i - p))
  BY <1>1
<1>6. (\A i \in 1 .. p : i \in 1 .. p + q) /\ (\A i \in 1 .. q : p + i \in 1 .. p + q)
  BY <1>1
<1>7. ASSUME NEW k, NEW i, Says(deploy, k, i)
      PROVE  Says(all, k, p + i) /\ all[p + i] = deploy[i]
  <2>1. i \in 1 .. q /\ deploy[i].key = k /\ \A j \in 1 .. q : deploy[j].key = k => j <= i
    BY <1>7 DEF Says, q
  <2>2. p + i \in 1 .. p + q /\ all[p + i] = deploy[i]
    BY <2>1, <1>4, <1>6
  <2>3. ASSUME NEW j \in 1 .. p + q, all[j].key = k
        PROVE  j <= p + i
    <3>1. CASE j \in 1 .. p
      BY <3>1, <2>1, <1>1
    <3>2. CASE j - p \in 1 .. q /\ j = p + (j - p)
      <4>1. all[j] = deploy[j - p]
        BY <3>2, <1>4
      <4>2. j - p <= i
        BY <4>1, <3>2, <2>1, <2>3
      <4>3. j \in Int /\ p \in Int /\ i \in Int
        BY <1>1, <2>1
      <4> QED
        BY <4>2, <4>3
    <3> QED
      BY <3>1, <3>2, <1>5
  <2> QED
    BY <2>1, <2>2, <2>3, <1>2 DEF Says
<1>8. ASSUME NEW k, k \notin DOMAIN Flat(deploy), NEW i, Says(top, k, i)
      PROVE  Says(all, k, i) /\ all[i] = top[i]
  <2>1. i \in 1 .. p /\ top[i].key = k /\ \A j \in 1 .. p : top[j].key = k => j <= i
    BY <1>8 DEF Says, p
  <2>2. \A j \in 1 .. q : deploy[j].key # k
    BY <1>8, FlatSays DEF q
  <2>3. i \in 1 .. p + q /\ all[i] = top[i]
    BY <2>1, <1>3, <1>6
  <2>4. ASSUME NEW j \in 1 .. p + q, all[j].key = k
        PROVE  j <= i
    <3>1. CASE j \in 1 .. p
      <4>1. top[j].key = k
        BY <3>1, <2>4, <1>3
      <4> QED
        BY <3>1, <4>1, <2>1
    <3>2. CASE j - p \in 1 .. q /\ j = p + (j - p)
      BY <3>2, <1>4, <2>2, <2>4
    <3> QED
      BY <3>1, <3>2, <1>5
  <2> QED
    BY <2>1, <2>3, <2>4, <1>2 DEF Says
<1>9. DOMAIN f = DOMAIN Flat(deploy) \cup DOMAIN Flat(top)
      /\ \A k \in DOMAIN f : f[k] = IF k \in DOMAIN Flat(deploy) THEN Flat(deploy)[k] ELSE Flat(top)[k]
  BY DEF Over
<1>10. \A k \in DOMAIN f : k \in DOMAIN Flat(all) /\ f[k] = Flat(all)[k]
  <2> SUFFICES ASSUME NEW k \in DOMAIN f
               PROVE  k \in DOMAIN Flat(all) /\ f[k] = Flat(all)[k]
    OBVIOUS
  <2>1. CASE k \in DOMAIN Flat(deploy)
    <3>1. PICK i : Says(deploy, k, i)
      BY <2>1, FlatSays
    <3>2. Flat(deploy)[k] = Value(deploy[i])
      BY <3>1, FlatSays
    <3> QED
      BY <3>1, <3>2, <2>1, <1>7, <1>9, <1>2, FlatSays
  <2>2. CASE k \notin DOMAIN Flat(deploy)
    <3>1. k \in DOMAIN Flat(top)
      BY <2>2, <1>9
    <3>2. PICK i : Says(top, k, i)
      BY <3>1, FlatSays
    <3>3. Flat(top)[k] = Value(top[i])
      BY <3>2, FlatSays
    <3> QED
      BY <3>2, <3>3, <2>2, <1>8, <1>9, <1>2, FlatSays
  <2> QED
    BY <2>1, <2>2
<1>11. DOMAIN Flat(all) \subseteq DOMAIN f
  <2> SUFFICES ASSUME NEW k \in DOMAIN Flat(all)
               PROVE  k \in DOMAIN f
    OBVIOUS
  <2>1. PICK i \in 1 .. p + q : all[i].key = k
    BY <1>2, FlatSays DEF Says
  <2>2. CASE i \in 1 .. p
    BY <2>1, <2>2, <1>3, <1>9, FlatSays DEF p
  <2>3. CASE i - p \in 1 .. q /\ i = p + (i - p)
    <3>1. deploy[i - p].key = k
      BY <2>1, <2>3, <1>4
    <3> QED
      BY <3>1, <2>3, <1>9, FlatSays DEF q
  <2> QED
    BY <2>2, <2>3, <1>5
<1>12. f = [k \in DOMAIN f |-> f[k]] /\ Flat(all) = [k \in DOMAIN Flat(all) |-> Flat(all)[k]]
  BY DEF Over, Flat
<1> HIDE DEF f
<1>13. DOMAIN f = DOMAIN Flat(all)
  BY <1>10, <1>11
<1>14. f = Flat(all)
  BY <1>10, <1>12, <1>13
<1> QED
  BY <1>14 DEF f, all

-------------------------------------------------------------------------------
(* The two merged views.                                                   *)

LEMMA DeclReadings ==
  ASSUME NEW svc \in Decl
  PROVE  /\ ServiceLabels(svc) \in Labels /\ FlatServiceLabels(svc) = ServiceLabels(svc)
         /\ ExplicitMode(svc) \in Mode /\ ExplicitServiceMode(svc) = ExplicitMode(svc)
         /\ ReplicasOf(svc) \in Count \cup {Unset}
<1>1. svc.labels \in LabelList /\ svc.deployLabels \in LabelList
  BY DEF Decl
<1>2. ServiceLabels(svc) \in Labels
  BY <1>1, FlatType, OverType DEF ServiceLabels
<1>3. FlatServiceLabels(svc) = ServiceLabels(svc)
  BY <1>1, SectionsAgree DEF ServiceLabels, FlatServiceLabels
<1>4. ExplicitMode(svc) \in Mode /\ ExplicitServiceMode(svc) = ExplicitMode(svc)
  BY DEF ExplicitMode, ExplicitServiceMode, Decl
<1>5. ReplicasOf(svc) \in Count \cup {Unset}
  BY DEF ReplicasOf, Decl
<1> QED
  BY <1>2, <1>3, <1>4, <1>5

LEMMA ViewsAre ==
  ASSUME NEW v, v = [n \in DOMAIN v |-> v[n]], DOMAIN v \subseteq Service, \A n \in DOMAIN v : v[n] \in Merged
  PROVE  v \in View
<1>1. v \in [DOMAIN v -> Merged]
  OBVIOUS
<1> QED
  BY <1>1 DEF View

LEMMA ViewsHave ==
  ASSUME NEW v \in View
  PROVE  DOMAIN v \subseteq Service /\ \A n \in DOMAIN v : v[n] \in Merged
<1>1. PICK D \in SUBSET Service : v \in [D -> Merged]
  BY DEF View
<1> QED
  BY <1>1

LEMMA NewServiceType == NewService \in Merged /\ NoServices \in View /\ DOMAIN NoServices = {} /\ NoLabels \in Labels
<1>1. NoLabels \in Labels
  <2>1. DOMAIN NoLabels = {} /\ NoLabels = [k \in DOMAIN NoLabels |-> NoLabels[k]]
    BY DEF NoLabels
  <2> QED
    BY <2>1, LabelsAre
<1>2. NewService \in Merged
  BY <1>1 DEF NewService, Merged
<1>3. DOMAIN NoServices = {} /\ NoServices = [n \in DOMAIN NoServices |-> NoServices[n]]
  BY DEF NoServices
<1>4. NoServices \in View
  BY <1>3, ViewsAre
<1> QED
  BY <1>1, <1>2, <1>3, <1>4

LEMMA EntryType ==
  ASSUME NEW v \in View, NEW n
  PROVE  Entry(v, n) \in Merged
BY ViewsHave, NewServiceType DEF Entry

(* What a document adds to the view of the deployer. *)
LEMMA MergeServiceIs ==
  ASSUME NEW v \in View, NEW doc \in Document
  PROVE  /\ MergeService(v, doc) \in View
         /\ DOMAIN MergeService(v, doc) = DOMAIN v \cup DOMAIN doc.services
         /\ \A n \in DOMAIN v \cup DOMAIN doc.services :
              IF n \notin DOMAIN doc.services THEN MergeService(v, doc)[n] = Entry(v, n)
              ELSE LET svc == doc.services[n] IN
                   /\ MergeService(v, doc)[n].labels = Over(ServiceLabels(svc), Entry(v, n).labels)
                   /\ MergeService(v, doc)[n].global = IF ExplicitMode(svc) = "" THEN Entry(v, n).global
                                                       ELSE ExplicitMode(svc) = "global"
<1> DEFINE w == MergeService(v, doc)
           D == DOMAIN v \cup DOMAIN doc.services
<1>1. DOMAIN doc.services \subseteq Service /\ \A n \in DOMAIN doc.services : doc.services[n] \in Decl
  BY DEF Document
<1>2. DOMAIN w = D /\ w = [n \in DOMAIN w |-> w[n]]
  BY DEF MergeService
<1>3. ASSUME NEW n \in D, n \notin DOMAIN doc.services
      PROVE  w[n] = Entry(v, n) /\ w[n] \in Merged
  BY <1>3, EntryType DEF MergeService
<1>4. ASSUME NEW n \in D, n \in DOMAIN doc.services
      PROVE  /\ w[n] \in Merged
             /\ w[n].labels = Over(ServiceLabels(doc.services[n]), Entry(v, n).labels)
             /\ w[n].global = IF ExplicitMode(doc.services[n]) = "" THEN Entry(v, n).global
                              ELSE ExplicitMode(doc.services[n]) = "global"
  <2> DEFINE svc == doc.services[n]
             ms == Entry(v, n)
             labels == Over(ServiceLabels(svc), ms.labels)
             global == IF ExplicitMode(svc) = "" THEN ms.global ELSE ExplicitMode(svc) = "global"
  <2>1. w[n] = [[ms EXCEPT !.labels = labels] EXCEPT !.global = global]
    BY <1>4 DEF MergeService
  <2>2. ms \in Merged /\ svc \in Decl
    BY <1>1, <1>4, EntryType
  <2>3. labels \in Labels
    BY <2>2, DeclReadings, OverType DEF Merged
  <2>4. global \in BOOLEAN
    BY <2>2 DEF Merged
  <2> HIDE DEF ms, labels, global, svc, w
  <2>5. w[n] \in Merged /\ w[n].labels = labels /\ w[n].global = global
    BY <2>1, <2>2, <2>3, <2>4 DEF Merged
  <2> QED
    BY <2>5 DEF labels, global, ms, svc
<1>5. \A n \in D : w[n] \in Merged
  BY <1>3, <1>4
<1>6. D \subseteq Service
  BY <1>1, ViewsHave
<1> HIDE DEF w, D
<1>7. w \in View
  BY <1>2, <1>5, <1>6, ViewsAre
<1> QED
  BY <1>2, <1>3, <1>4, <1>7 DEF w, D

(* What it adds to the view of the loop. *)
LEMMA MergeGroupServiceIs ==
  ASSUME NEW v \in View, NEW doc \in Document
  PROVE  /\ MergeGroupService(v, doc) \in View
         /\ DOMAIN MergeGroupService(v, doc) = DOMAIN v \cup DOMAIN doc.services
         /\ \A n \in DOMAIN v \cup DOMAIN doc.services :
              IF n \notin DOMAIN doc.services THEN MergeGroupService(v, doc)[n] = Entry(v, n)
              ELSE LET svc == doc.services[n] IN
                   /\ MergeGroupService(v, doc)[n].labels = Over(ServiceLabels(svc), Entry(v, n).labels)
                   /\ MergeGroupService(v, doc)[n].global = IF ExplicitMode(svc) = "" THEN Entry(v, n).global
                                                            ELSE ExplicitMode(svc) = "global"
                   /\ MergeGroupService(v, doc)[n].replicas = IF ReplicasOf(svc) = Unset THEN Entry(v, n).replicas
                                                              ELSE ReplicasOf(svc)
<1> DEFINE w == MergeGroupService(v, doc)
           D == DOMAIN v \cup DOMAIN doc.services
<1>1. DOMAIN doc.services \subseteq Service /\ \A n \in DOMAIN doc.services : doc.services[n] \in Decl
  BY DEF Document
<1>2. DOMAIN w = D /\ w = [n \in DOMAIN w |-> w[n]]
  BY DEF MergeGroupService
<1>3. ASSUME NEW n \in D, n \notin DOMAIN doc.services
      PROVE  w[n] = Entry(v, n) /\ w[n] \in Merged
  BY <1>3, EntryType DEF MergeGroupService
<1>4. ASSUME NEW n \in D, n \in DOMAIN doc.services
      PROVE  /\ w[n] \in Merged
             /\ w[n].labels = Over(ServiceLabels(doc.services[n]), Entry(v, n).labels)
             /\ w[n].global = IF ExplicitMode(doc.services[n]) = "" THEN Entry(v, n).global
                              ELSE ExplicitMode(doc.services[n]) = "global"
             /\ w[n].replicas = IF ReplicasOf(doc.services[n]) = Unset THEN Entry(v, n).replicas
                                ELSE ReplicasOf(doc.services[n])
  <2> DEFINE svc == doc.services[n]
             ms == Entry(v, n)
             labels == Over(ServiceLabels(svc), ms.labels)
             global == IF ExplicitMode(svc) = "" THEN ms.global ELSE ExplicitMode(svc) = "global"
             replicas == IF ReplicasOf(svc) = Unset THEN ms.replicas ELSE ReplicasOf(svc)
  <2>2. ms \in Merged /\ svc \in Decl
    BY <1>1, <1>4, EntryType
  <2>5. FlatServiceLabels(svc) = ServiceLabels(svc) /\ ExplicitServiceMode(svc) = ExplicitMode(svc)
    BY <2>2, DeclReadings
  <2>1. w[n] = [labels |-> labels, global |-> global, replicas |-> replicas]
    BY <1>4, <2>5 DEF MergeGroupService
  <2>3. labels \in Labels
    BY <2>2, DeclReadings, OverType DEF Merged
  <2>4. global \in BOOLEAN
    BY <2>2 DEF Merged
  <2>6. replicas \in Count \cup {Unset}
    BY <2>2, DeclReadings DEF Merged
  <2> HIDE DEF ms, labels, global, replicas, svc, w
  <2>7. w[n] \in Merged /\ w[n].labels = labels /\ w[n].global = global /\ w[n].replicas = replicas
    BY <2>1, <2>3, <2>4, <2>6 DEF Merged
  <2> QED
    BY <2>7 DEF labels, global, replicas, ms, svc
<1>5. \A n \in D : w[n] \in Merged
  BY <1>3, <1>4
<1>6. D \subseteq Service
  BY <1>1, ViewsHave
<1> HIDE DEF w, D
<1>7. w \in View
  BY <1>2, <1>5, <1>6, ViewsAre
<1> QED
  BY <1>2, <1>3, <1>4, <1>7 DEF w, D

(* The views of a group of documents, one document after the other. *)
LEMMA MergeServicesIs ==
  ASSUME NEW group \in Seq(Document)
  PROVE  \E view \in [0 .. Len(group) -> View] :
           /\ view[0] = NoServices /\ MergeServices(group) = view[Len(group)]
           /\ \A i \in 1 .. Len(group) : view[i] = MergeService(view[i - 1], group[i])
<1> DEFINE m == Len(group)
           step == [i \in 1 .. m |-> [v \in View |-> MergeService(v, group[i])]]
           F[i \in 0 .. m] == IF i = 0 THEN NoServices ELSE MergeService(F[i - 1], group[i])
<1>1. m \in Nat /\ \A i \in 1 .. m : group[i] \in Document
  BY DocumentType
<1>2. MergeServices(group) = F[m]
  BY DEF MergeServices
<1> HIDE DEF m
<1>3. step \in [1 .. m -> [View -> View]]
  <2>1. \A i \in 1 .. m : [v \in View |-> MergeService(v, group[i])] \in [View -> View]
    BY <1>1, MergeServiceIs
  <2> QED
    BY <2>1
<1>4. \A i \in 1 .. m : \A v \in View : step[i][v] = MergeService(v, group[i])
  OBVIOUS
<1> HIDE DEF step
<1>5. PICK view \in [0 .. m -> View] : Iterates(view, m, NoServices, step)
  BY <1>1, <1>3, NewServiceType, IterationExists
<1>6. view = [i \in 0 .. m |-> IF i = 0 THEN NoServices ELSE step[i][view[i - 1]]]
  BY <1>5 DEF Iterates
<1>7. \A i \in 0 .. m : i # 0 => i \in 1 .. m /\ i - 1 \in 0 .. m
  BY <1>1
<1>8. \A i \in 0 .. m : (IF i = 0 THEN NoServices ELSE step[i][view[i - 1]])
                        = IF i = 0 THEN NoServices ELSE MergeService(view[i - 1], group[i])
  BY <1>4, <1>5, <1>7
<1>9. view = [i \in 0 .. m |-> IF i = 0 THEN NoServices ELSE MergeService(view[i - 1], group[i])]
  BY <1>6, <1>8
<1>10. F = [i \in 0 .. m |-> IF i = 0 THEN NoServices ELSE MergeService(F[i - 1], group[i])]
  BY <1>9
<1> HIDE DEF F
<1> DEFINE S == {i \in 0 .. m : F[i] = view[i]}
<1>11. \A i \in 0 .. m : /\ F[i] = IF i = 0 THEN NoServices ELSE MergeService(F[i - 1], group[i])
                         /\ view[i] = IF i = 0 THEN NoServices ELSE MergeService(view[i - 1], group[i])
  BY <1>9, <1>10
<1>12. 0 \in S
  <2>1. 0 \in 0 .. m
    BY <1>1
  <2> QED
    BY <2>1, <1>11
<1>13. ASSUME NEW i \in 0 .. m - 1, i \in S
       PROVE  i + 1 \in S
  <2>1. i + 1 \in 0 .. m /\ i + 1 # 0 /\ (i + 1) - 1 = i
    BY <1>1
  <2>2. F[i] = view[i]
    BY <1>13
  <2>3. F[i + 1] = MergeService(F[i], group[i + 1]) /\ view[i + 1] = MergeService(view[i], group[i + 1])
    BY <2>1, <1>11
  <2> QED
    BY <2>1, <2>2, <2>3
<1>14. 0 .. m \subseteq S
  <2> HIDE DEF S
  <2> QED
    BY <1>1, <1>12, <1>13, UpToInduction
<1>15. F[m] = view[m] /\ view[0] = NoServices
  <2>1. 0 \in 0 .. m /\ m \in 0 .. m
    BY <1>1
  <2> QED
    BY <2>1, <1>11, <1>14
<1>16. \A i \in 1 .. m : view[i] = MergeService(view[i - 1], group[i])
  <2>1. \A i \in 1 .. m : i \in 0 .. m /\ i # 0
    BY <1>1
  <2> QED
    BY <2>1, <1>11
<1> QED
  BY <1>2, <1>5, <1>15, <1>16 DEF m

LEMMA MergeGroupServicesIs ==
  ASSUME NEW group \in Seq(Document)
  PROVE  \E view \in [0 .. Len(group) -> View] :
           /\ view[0] = NoServices /\ MergeGroupServices(group) = view[Len(group)]
           /\ \A i \in 1 .. Len(group) : view[i] = MergeGroupService(view[i - 1], group[i])
<1> DEFINE m == Len(group)
           step == [i \in 1 .. m |-> [v \in View |-> MergeGroupService(v, group[i])]]
           F[i \in 0 .. m] == IF i = 0 THEN NoServices ELSE MergeGroupService(F[i - 1], group[i])
<1>1. m \in Nat /\ \A i \in 1 .. m : group[i] \in Document
  BY DocumentType
<1>2. MergeGroupServices(group) = F[m]
  BY DEF MergeGroupServices
<1> HIDE DEF m
<1>3. step \in [1 .. m -> [View -> View]]
  <2>1. \A i \in 1 .. m : [v \in View |-> MergeGroupService(v, group[i])] \in [View -> View]
    BY <1>1, MergeGroupServiceIs
  <2> QED
    BY <2>1
<1>4. \A i \in 1 .. m : \A v \in View : step[i][v] = MergeGroupService(v, group[i])
  OBVIOUS
<1> HIDE DEF step
<1>5. PICK view \in [0 .. m -> View] : Iterates(view, m, NoServices, step)
  BY <1>1, <1>3, NewServiceType, IterationExists
<1>6. view = [i \in 0 .. m |-> IF i = 0 THEN NoServices ELSE step[i][view[i - 1]]]
  BY <1>5 DEF Iterates
<1>7. \A i \in 0 .. m : i # 0 => i \in 1 .. m /\ i - 1 \in 0 .. m
  BY <1>1
<1>8. \A i \in 0 .. m : (IF i = 0 THEN NoServices ELSE step[i][view[i - 1]])
                        = IF i = 0 THEN NoServices ELSE MergeGroupService(view[i - 1], group[i])
  BY <1>4, <1>5, <1>7
<1>9. view = [i \in 0 .. m |-> IF i = 0 THEN NoServices ELSE MergeGroupService(view[i - 1], group[i])]
  BY <1>6, <1>8
<1>10. F = [i \in 0 .. m |-> IF i = 0 THEN NoServices ELSE MergeGroupService(F[i - 1], group[i])]
  BY <1>9
<1> HIDE DEF F
<1> DEFINE S == {i \in 0 .. m : F[i] = view[i]}
<1>11. \A i \in 0 .. m : /\ F[i] = IF i = 0 THEN NoServices ELSE MergeGroupService(F[i - 1], group[i])
                         /\ view[i] = IF i = 0 THEN NoServices ELSE MergeGroupService(view[i - 1], group[i])
  BY <1>9, <1>10
<1>12. 0 \in S
  <2>1. 0 \in 0 .. m
    BY <1>1
  <2> QED
    BY <2>1, <1>11
<1>13. ASSUME NEW i \in 0 .. m - 1, i \in S
       PROVE  i + 1 \in S
  <2>1. i + 1 \in 0 .. m /\ i + 1 # 0 /\ (i + 1) - 1 = i
    BY <1>1
  <2>2. F[i] = view[i]
    BY <1>13
  <2>3. F[i + 1] = MergeGroupService(F[i], group[i + 1]) /\ view[i + 1] = MergeGroupService(view[i], group[i + 1])
    BY <2>1, <1>11
  <2> QED
    BY <2>1, <2>2, <2>3
<1>14. 0 .. m \subseteq S
  <2> HIDE DEF S
  <2> QED
    BY <1>1, <1>12, <1>13, UpToInduction
<1>15. F[m] = view[m] /\ view[0] = NoServices
  <2>1. 0 \in 0 .. m /\ m \in 0 .. m
    BY <1>1
  <2> QED
    BY <2>1, <1>11, <1>14
<1>16. \A i \in 1 .. m : view[i] = MergeGroupService(view[i - 1], group[i])
  <2>1. \A i \in 1 .. m : i \in 0 .. m /\ i # 0
    BY <1>1
  <2> QED
    BY <2>1, <1>11
<1> QED
  BY <1>2, <1>5, <1>15, <1>16 DEF m

(* The two readings agree, on every group. *)
LEMMA ReadingsAgree ==
  ASSUME NEW group \in Seq(Document)
  PROVE  /\ MergeServices(group) \in View /\ MergeGroupServices(group) \in View
         /\ DOMAIN MergeServices(group) = Deployable(group) /\ DOMAIN MergeGroupServices(group) = Deployable(group)
         /\ \A n \in Deployable(group) : /\ MergeServices(group)[n].labels = MergeGroupServices(group)[n].labels
                                         /\ MergeServices(group)[n].global = MergeGroupServices(group)[n].global
<1> DEFINE m == Len(group)
           Upto(i) == UNION {DOMAIN group[j].services : j \in 1 .. i}
           Agree(v, w) == \A n \in DOMAIN v : v[n].labels = w[n].labels /\ v[n].global = w[n].global
<1>1. m \in Nat /\ DOMAIN group = 1 .. m /\ \A i \in 1 .. m : group[i] \in Document
  BY DocumentType
<1>2. PICK carried \in [0 .. m -> View] :
         /\ carried[0] = NoServices /\ MergeServices(group) = carried[m]
         /\ \A i \in 1 .. m : carried[i] = MergeService(carried[i - 1], group[i])
  BY MergeServicesIs
<1>3. PICK desired \in [0 .. m -> View] :
         /\ desired[0] = NoServices /\ MergeGroupServices(group) = desired[m]
         /\ \A i \in 1 .. m : desired[i] = MergeGroupService(desired[i - 1], group[i])
  BY MergeGroupServicesIs
<1>4. Deployable(group) = Upto(m)
  BY <1>1 DEF Deployable
<1> HIDE DEF m
<1> DEFINE S == {i \in 0 .. m : /\ DOMAIN carried[i] = Upto(i) /\ DOMAIN desired[i] = Upto(i)
                                /\ Agree(carried[i], desired[i])}
<1>5. 0 \in S
  <2>1. 0 \in 0 .. m /\ \A j : j \notin 1 .. 0
    BY <1>1
  <2>2. Upto(0) = {}
    BY <2>1
  <2>3. DOMAIN carried[0] = {} /\ DOMAIN desired[0] = {}
    BY <1>2, <1>3, NewServiceType
  <2> QED
    BY <2>1, <2>2, <2>3
<1>6. ASSUME NEW i \in 0 .. m - 1, i \in S
      PROVE  i + 1 \in S
  <2> DEFINE doc == group[i + 1]
             v == carried[i]
             w == desired[i]
  <2>1. i \in 0 .. m /\ i + 1 \in 0 .. m /\ i + 1 \in 1 .. m /\ (i + 1) - 1 = i
    BY <1>1
  <2>2. 1 .. i + 1 = (1 .. i) \cup {i + 1}
    BY <1>1
  <2>3. Upto(i + 1) = Upto(i) \cup DOMAIN doc.services
    BY <2>2
  <2>4. v \in View /\ w \in View /\ doc \in Document
    BY <2>1, <1>1
  <2>5. carried[i + 1] = MergeService(v, doc) /\ desired[i + 1] = MergeGroupService(w, doc)
    BY <2>1, <1>2, <1>3
  <2>6. DOMAIN v = Upto(i) /\ DOMAIN w = Upto(i) /\ \A n \in Upto(i) : v[n].labels = w[n].labels /\ v[n].global = w[n].global
    BY <1>6
  <2> HIDE DEF doc, v, w, Upto
  <2>7. DOMAIN MergeService(v, doc) = Upto(i + 1) /\ DOMAIN MergeGroupService(w, doc) = Upto(i + 1)
    BY <2>3, <2>4, <2>6, MergeServiceIs, MergeGroupServiceIs
  <2>8. \A n : Entry(v, n).labels = Entry(w, n).labels /\ Entry(v, n).global = Entry(w, n).global
    BY <2>6 DEF Entry
  <2>9. Agree(MergeService(v, doc), MergeGroupService(w, doc))
    <3> SUFFICES ASSUME NEW n \in Upto(i + 1)
                 PROVE  /\ MergeService(v, doc)[n].labels = MergeGroupService(w, doc)[n].labels
                        /\ MergeService(v, doc)[n].global = MergeGroupService(w, doc)[n].global
      BY <2>7
    <3>1. n \in DOMAIN v \cup DOMAIN doc.services /\ n \in DOMAIN w \cup DOMAIN doc.services
      BY <2>3, <2>6
    <3> DEFINE a == MergeService(v, doc)[n]
               b == MergeGroupService(w, doc)[n]
               ea == Entry(v, n)
               eb == Entry(w, n)
               svc == doc.services[n]
    <3>2. ea.labels = eb.labels /\ ea.global = eb.global
      BY <2>8
    <3>3. CASE n \notin DOMAIN doc.services
      <4>1. a = ea
        BY <3>1, <3>3, <2>4, MergeServiceIs
      <4>2. b = eb
        BY <3>1, <3>3, <2>4, MergeGroupServiceIs
      <4> QED
        BY <4>1, <4>2, <3>2
    <3>4. CASE n \in DOMAIN doc.services
      <4>1. /\ a.labels = Over(ServiceLabels(svc), ea.labels)
            /\ a.global = IF ExplicitMode(svc) = "" THEN ea.global ELSE ExplicitMode(svc) = "global"
        BY <3>1, <3>4, <2>4, MergeServiceIs
      <4>2. /\ b.labels = Over(ServiceLabels(svc), eb.labels)
            /\ b.global = IF ExplicitMode(svc) = "" THEN eb.global ELSE ExplicitMode(svc) = "global"
        BY <3>1, <3>4, <2>4, MergeGroupServiceIs
      <4> HIDE DEF a, b, ea, eb, svc
      <4>3. a.labels = b.labels /\ a.global = b.global
        BY <4>1, <4>2, <3>2
      <4> QED
        BY <4>3 DEF a, b
    <3> QED
      BY <3>3, <3>4
  <2> QED
    BY <2>1, <2>5, <2>7, <2>9
<1>7. 0 .. m \subseteq S
  <2> HIDE DEF S
  <2> QED
    BY <1>1, <1>5, <1>6, UpToInduction
<1>8. m \in 0 .. m
  BY <1>1
<1>9. m \in S
  BY <1>7, <1>8
<1> QED
  BY <1>2, <1>3, <1>4, <1>8, <1>9

-------------------------------------------------------------------------------
(* What docker/cli makes of a group.                                       *)

LEMMA LastStored ==
  ASSUME NEW section \in LabelList, NEW k \in DOMAIN StoredLabels(section)
  PROVE  \E i \in DOMAIN section : Says(section, k, i) /\ StoredLabels(section)[k] = section[i].value
<1> DEFINE last == Max({i \in DOMAIN section : section[i].key = k})
<1>1. k \in DOMAIN Flat(section)
  BY DEF Flat, StoredLabels
<1>2. \E i \in DOMAIN section : Says(section, k, i)
  BY <1>1, LastEntry
<1>3. DOMAIN section = 1 .. Len(section) /\ Len(section) \in Nat
  BY EntriesAre
<1> DEFINE T == {i \in DOMAIN section : section[i].key = k}
<1>4. T # {} /\ T \subseteq 0 .. Len(section)
  BY <1>2, <1>3 DEF Says
<1>5. Max(T) \in T /\ \A y \in T : Max(T) >= y
  <2> HIDE DEF T
  <2> QED
    BY <1>3, <1>4, GreatestIs
<1>6. PICK i \in DOMAIN section : Says(section, k, i)
  BY <1>2
<1>7. i \in T /\ i <= Max(T) /\ Max(T) <= i
  BY <1>3, <1>5, <1>6 DEF Says
<1>8. Max(T) = i
  <2>1. Max(T) \in Int /\ i \in Int
    BY <1>3, <1>5, <1>6
  <2> HIDE DEF T
  <2> QED
    BY <1>7, <2>1
<1>9. StoredLabels(section)[k] = section[Max(T)].value
  BY DEF StoredLabels
<1> QED
  BY <1>6, <1>8, <1>9

LEMMA StoredType ==
  ASSUME NEW section \in LabelList
  PROVE  StoredLabels(section) \in Labels
<1>1. \A k \in DOMAIN StoredLabels(section) : StoredLabels(section)[k] \in Text
  BY LastStored, EntriesAre DEF Text
<1>2. DOMAIN StoredLabels(section) \subseteq STRING
  BY EntriesAre DEF StoredLabels
<1>3. StoredLabels(section) = [k \in DOMAIN StoredLabels(section) |-> StoredLabels(section)[k]]
  BY DEF StoredLabels
<1> QED
  BY <1>1, <1>2, <1>3, LabelsAre

(* Without a bare item, docker/cli stores what the code reads. *)
LEMMA StoredIsFlat ==
  ASSUME NEW section \in LabelList, \A i \in DOMAIN section : section[i].value # ""
  PROVE  StoredLabels(section) = Flat(section)
<1>1. DOMAIN StoredLabels(section) = DOMAIN Flat(section)
  BY DEF StoredLabels, Flat
<1>2. ASSUME NEW k \in DOMAIN Flat(section)
      PROVE  StoredLabels(section)[k] = Flat(section)[k]
  <2> DEFINE last == Max({i \in DOMAIN section : section[i].key = k})
  <2>1. StoredLabels(section)[k] = section[last].value
    BY <1>1 DEF StoredLabels
  <2>2. Flat(section)[k] = IF section[last].value = "" THEN "true" ELSE section[last].value
    BY DEF Flat
  <2>3. PICK i \in DOMAIN section : StoredLabels(section)[k] = section[i].value
    BY <1>1, LastStored
  <2> HIDE DEF last
  <2> QED
    BY <2>1, <2>2, <2>3
<1>3. StoredLabels(section) = [k \in DOMAIN StoredLabels(section) |-> StoredLabels(section)[k]]
  BY DEF StoredLabels
<1>4. Flat(section) = [k \in DOMAIN Flat(section) |-> Flat(section)[k]]
  BY DEF Flat
<1> QED
  BY <1>1, <1>2, <1>3, <1>4

LEMMA DeployedLabelsIs ==
  ASSUME NEW group \in Seq(Document), NEW n
  PROVE  \E labels \in [0 .. Len(group) -> Labels] :
           /\ labels[0] = NoLabels /\ DeployedLabels(group, n) = labels[Len(group)]
           /\ \A i \in 1 .. Len(group) :
                labels[i] = IF n \in DOMAIN group[i].services
                            THEN Over(StoredLabels(group[i].services[n].deployLabels), labels[i - 1]) ELSE labels[i - 1]
<1> DEFINE m == Len(group)
           Next1(i, v) == IF n \in DOMAIN group[i].services
                          THEN Over(StoredLabels(group[i].services[n].deployLabels), v) ELSE v
           step == [i \in 1 .. m |-> [v \in Labels |-> Next1(i, v)]]
           F[i \in 0 .. m] == IF i = 0 THEN NoLabels
                              ELSE IF n \in DOMAIN group[i].services
                              THEN Over(StoredLabels(group[i].services[n].deployLabels), F[i - 1]) ELSE F[i - 1]
<1>1. m \in Nat /\ \A i \in 1 .. m : \A k \in DOMAIN group[i].services : group[i].services[k] \in Decl
  BY DocumentType
<1>2. DeployedLabels(group, n) = F[m]
  BY DEF DeployedLabels
<1> HIDE DEF m
<1>3. \A i \in 1 .. m : \A v \in Labels : Next1(i, v) \in Labels
  <2> SUFFICES ASSUME NEW i \in 1 .. m, NEW v \in Labels, n \in DOMAIN group[i].services
               PROVE  Over(StoredLabels(group[i].services[n].deployLabels), v) \in Labels
    OBVIOUS
  <2>1. group[i].services[n].deployLabels \in LabelList
    BY <1>1 DEF Decl
  <2> QED
    BY <2>1, StoredType, OverType
<1>4. step \in [1 .. m -> [Labels -> Labels]]
  <2> HIDE DEF Next1
  <2>1. \A i \in 1 .. m : [v \in Labels |-> Next1(i, v)] \in [Labels -> Labels]
    BY <1>3
  <2> QED
    BY <2>1
<1>5. \A i \in 1 .. m : \A v \in Labels : step[i][v] = Next1(i, v)
  OBVIOUS
<1> HIDE DEF step
<1>6. PICK labels \in [0 .. m -> Labels] : Iterates(labels, m, NoLabels, step)
  BY <1>1, <1>4, NewServiceType, IterationExists
<1>7. labels = [i \in 0 .. m |-> IF i = 0 THEN NoLabels ELSE step[i][labels[i - 1]]]
  BY <1>6 DEF Iterates
<1>8. \A i \in 0 .. m : i # 0 => i \in 1 .. m /\ i - 1 \in 0 .. m
  BY <1>1
<1>9. \A i \in 0 .. m : (IF i = 0 THEN NoLabels ELSE step[i][labels[i - 1]])
                        = IF i = 0 THEN NoLabels ELSE Next1(i, labels[i - 1])
  <2> HIDE DEF Next1
  <2> QED
    BY <1>5, <1>6, <1>8
<1>10. labels = [i \in 0 .. m |-> IF i = 0 THEN NoLabels ELSE Next1(i, labels[i - 1])]
  <2> HIDE DEF Next1
  <2> QED
    BY <1>7, <1>9
<1>11. F = [i \in 0 .. m |-> IF i = 0 THEN NoLabels ELSE Next1(i, F[i - 1])]
  BY <1>10
<1> HIDE DEF F, Next1
<1> DEFINE S == {i \in 0 .. m : F[i] = labels[i]}
<1>12. \A i \in 0 .. m : /\ F[i] = IF i = 0 THEN NoLabels ELSE Next1(i, F[i - 1])
                         /\ labels[i] = IF i = 0 THEN NoLabels ELSE Next1(i, labels[i - 1])
  BY <1>10, <1>11
<1>13. 0 \in S
  <2>1. 0 \in 0 .. m
    BY <1>1
  <2> QED
    BY <2>1, <1>12
<1>14. ASSUME NEW i \in 0 .. m - 1, i \in S
       PROVE  i + 1 \in S
  <2>1. i + 1 \in 0 .. m /\ i + 1 # 0 /\ (i + 1) - 1 = i
    BY <1>1
  <2>2. F[i] = labels[i]
    BY <1>14
  <2>3. F[i + 1] = Next1(i + 1, F[i]) /\ labels[i + 1] = Next1(i + 1, labels[i])
    BY <2>1, <1>12
  <2> QED
    BY <2>1, <2>2, <2>3
<1>15. 0 .. m \subseteq S
  <2> HIDE DEF S
  <2> QED
    BY <1>1, <1>13, <1>14, UpToInduction
<1>16. F[m] = labels[m] /\ labels[0] = NoLabels
  <2>1. 0 \in 0 .. m /\ m \in 0 .. m
    BY <1>1
  <2> QED
    BY <2>1, <1>12, <1>15
<1>17. \A i \in 1 .. m : labels[i] = Next1(i, labels[i - 1])
  <2>1. \A i \in 1 .. m : i \in 0 .. m /\ i # 0
    BY <1>1
  <2> QED
    BY <2>1, <1>12
<1> QED
  BY <1>2, <1>6, <1>16, <1>17 DEF m, Next1

(* The same declarations but for the counts: the same labels and mode. *)
SameBut(group, other, n) ==
  /\ Len(other) = Len(group)
  /\ \A i \in 1 .. Len(group) :
       /\ n \in DOMAIN other[i].services <=> n \in DOMAIN group[i].services
       /\ n \in DOMAIN group[i].services =>
            /\ other[i].services[n].deployLabels = group[i].services[n].deployLabels
            /\ other[i].services[n].deployMode = group[i].services[n].deployMode

LEMMA LabelsAndModeKept ==
  ASSUME NEW group \in Seq(Document), NEW other \in Seq(Document), NEW n, SameBut(group, other, n)
  PROVE  DeployedLabels(other, n) = DeployedLabels(group, n) /\ DeployedMode(other, n) = DeployedMode(group, n)
<1> DEFINE m == Len(group)
<1>1. m \in Nat /\ DOMAIN group = 1 .. m /\ DOMAIN other = 1 .. m /\ Len(other) = m
  BY DocumentType DEF SameBut
<1>2. PICK a \in [0 .. m -> Labels] :
        /\ a[0] = NoLabels /\ DeployedLabels(group, n) = a[m]
        /\ \A i \in 1 .. m : a[i] = IF n \in DOMAIN group[i].services
                                    THEN Over(StoredLabels(group[i].services[n].deployLabels), a[i - 1]) ELSE a[i - 1]
  BY <1>1, DeployedLabelsIs
<1>3. PICK b \in [0 .. m -> Labels] :
        /\ b[0] = NoLabels /\ DeployedLabels(other, n) = b[m]
        /\ \A i \in 1 .. m : b[i] = IF n \in DOMAIN other[i].services
                                    THEN Over(StoredLabels(other[i].services[n].deployLabels), b[i - 1]) ELSE b[i - 1]
  BY <1>1, DeployedLabelsIs
<1>4. \A i \in 1 .. m : /\ n \in DOMAIN other[i].services <=> n \in DOMAIN group[i].services
                        /\ n \in DOMAIN group[i].services =>
                             /\ other[i].services[n].deployLabels = group[i].services[n].deployLabels
                             /\ other[i].services[n].deployMode = group[i].services[n].deployMode
  BY DEF SameBut
<1>5. DeployedMode(other, n) = DeployedMode(group, n)
  <2> DEFINE A == {i \in DOMAIN group : n \in DOMAIN group[i].services /\ group[i].services[n]["deployMode"] # ""}
             B == {i \in DOMAIN other : n \in DOMAIN other[i].services /\ other[i].services[n]["deployMode"] # ""}
  <2>1. A = B
    BY <1>1, <1>4
  <2>2. LastSetting(group, n, "deployMode", "") = LastSetting(other, n, "deployMode", "")
    BY <2>1 DEF LastSetting
  <2>3. A # {} => Max(A) \in A
    <3>1. A \subseteq DOMAIN group
      OBVIOUS
    <3> HIDE DEF A
    <3>2. 1 .. m \subseteq 0 .. m
      BY <1>1
    <3>3. A \subseteq 0 .. m
      BY <1>1, <3>1, <3>2
    <3> QED
      BY <3>3, <1>1, GreatestIs
  <2>4. LET i == LastSetting(group, n, "deployMode", "") IN i = 0 \/ (i \in 1 .. m /\ n \in DOMAIN group[i].services)
    BY <2>3, <1>1 DEF LastSetting
  <2> HIDE DEF A, B
  <2> QED
    BY <2>2, <2>4, <1>4 DEF DeployedMode
<1> HIDE DEF m
<1> DEFINE S == {i \in 0 .. m : a[i] = b[i]}
<1>6. 0 \in S
  BY <1>1, <1>2, <1>3
<1>7. ASSUME NEW i \in 0 .. m - 1, i \in S
      PROVE  i + 1 \in S
  <2>1. i + 1 \in 0 .. m /\ i + 1 \in 1 .. m /\ (i + 1) - 1 = i
    BY <1>1
  <2>2. a[i] = b[i]
    BY <1>7
  <2>3. a[i + 1] = b[i + 1]
    BY <2>1, <2>2, <1>2, <1>3, <1>4
  <2> QED
    BY <2>1, <2>3
<1>8. 0 .. m \subseteq S
  <2> HIDE DEF S
  <2> QED
    BY <1>1, <1>6, <1>7, UpToInduction
<1>9. a[m] = b[m]
  <2>1. m \in 0 .. m
    BY <1>1
  <2> QED
    BY <2>1, <1>8
<1> QED
  BY <1>2, <1>3, <1>5, <1>9

(* The last setting of a field is one of the group's. *)
LEMMA LastSettingIs ==
  ASSUME NEW group \in Seq(Document), NEW n, NEW field, NEW unset
  PROVE  LET i == LastSetting(group, n, field, unset) IN
         /\ i = 0 \/ (i \in 1 .. Len(group) /\ n \in DOMAIN group[i].services
                      /\ group[i].services[n][field] # unset)
         /\ i = 0 => \A j \in 1 .. Len(group) :
                       n \in DOMAIN group[j].services => group[j].services[n][field] = unset
<1> DEFINE A == {i \in DOMAIN group : n \in DOMAIN group[i].services /\ group[i].services[n][field] # unset}
           m == Len(group)
<1>1. m \in Nat /\ DOMAIN group = 1 .. m
  BY DocumentType
<1>2. LastSetting(group, n, field, unset) = IF A = {} THEN 0 ELSE Max(A)
  BY DEF LastSetting
<1>3. 1 .. m \subseteq 0 .. m /\ 0 \notin 1 .. m
  BY <1>1
<1>4. A \subseteq DOMAIN group /\ 0 \notin A
  BY <1>1, <1>3
<1>5. A # {} => Max(A) \in A
  <2> HIDE DEF A, m
  <2>1. A \subseteq 0 .. m
    BY <1>1, <1>3, <1>4
  <2> QED
    BY <2>1, <1>1, GreatestIs
<1>6. CASE A = {}
  BY <1>1, <1>2, <1>6
<1>7. CASE A # {}
  <2> DEFINE i == Max(A)
  <2>1. i \in A /\ LastSetting(group, n, field, unset) = i
    BY <1>2, <1>5, <1>7
  <2> HIDE DEF i
  <2>2. i \in 1 .. m /\ n \in DOMAIN group[i].services /\ group[i].services[n][field] # unset
    BY <2>1, <1>1
  <2>3. i # 0
    BY <2>1, <1>4
  <2> QED
    BY <2>1, <2>2, <2>3
<1> QED
  BY <1>6, <1>7

LEMMA DeployedCountType ==
  ASSUME NEW group \in Seq(Document), NEW n
  PROVE  DeployedCount(group, n) \in Count
<1> DEFINE i == LastSetting(group, n, "deployReplicas", Unset)
<1>1. i = 0 \/ (i \in 1 .. Len(group) /\ n \in DOMAIN group[i].services
                /\ group[i].services[n]["deployReplicas"] # Unset)
  BY LastSettingIs
<1>2. DeployedCount(group, n) = IF i = 0 THEN 1 ELSE group[i].services[n].deployReplicas
  BY DEF DeployedCount
<1> HIDE DEF i
<1>3. CASE i = 0
  BY <1>2, <1>3, Bounds
<1>4. CASE i # 0
  <2>1. group[i].services[n] \in Decl /\ group[i].services[n].deployReplicas # Unset
    BY <1>1, <1>4, DocumentType
  <2> QED
    BY <2>1, <1>2, <1>4 DEF Decl
<1> QED
  BY <1>3, <1>4

LEMMA WithinIs ==
  ASSUME NEW labels, NEW count \in Count
  PROVE  Within(labels, count) \in Count
<1>1. ParseUintLabel(labels, "min") \in Count /\ ParseUintLabel(labels, "max") \in Count
  BY Bounds DEF ParseUintLabel
<1> QED
  BY <1>1 DEF Within

(* The stack's services in Swarm. *)
Live == [replicated : BOOLEAN, replicas : Count, labels : Labels]
LiveTyped(swarm) == DOMAIN swarm \subseteq Service /\ \A n \in DOMAIN swarm : swarm[n] \in Live

LEMMA SetReplicasIs ==
  ASSUME NEW decl \in Decl, NEW count \in Count
  PROVE  /\ SetReplicas(decl, count) \in Decl /\ SetReplicas(decl, count).deployReplicas = count
         /\ SetReplicas(decl, count).deployLabels = decl.deployLabels
         /\ SetReplicas(decl, count).deployMode = decl.deployMode
BY DEF SetReplicas, Decl

(* Carry-forward changes the counts of the services it carries, in every      *)
(* document that declares them, and nothing else.                           *)
LEMMA CarryForwardIs ==
  ASSUME NEW group \in Seq(Document), NEW swarm, LiveTyped(swarm)
  PROVE  LET other == ApplyCarryForwardGroup(group, swarm) IN
         /\ other \in Seq(Document) /\ Len(other) = Len(group)
         /\ \A i \in 1 .. Len(group) :
              /\ DOMAIN other[i].services = DOMAIN group[i].services
              /\ \A n \in DOMAIN group[i].services :
                   other[i].services[n] =
                     IF n \in Carried(group, swarm)
                     THEN SetReplicas(group[i].services[n], Within(MergeServices(group)[n].labels, swarm[n].replicas))
                     ELSE group[i].services[n]
<1> DEFINE m == Len(group)
           merged == MergeServices(group)
           C == Carried(group, swarm)
           services(i) == [n \in DOMAIN group[i].services |->
                             IF n \in C THEN SetReplicas(group[i].services[n], Within(merged[n].labels, swarm[n].replicas))
                             ELSE group[i].services[n]]
           other == ApplyCarryForwardGroup(group, swarm)
<1>1. m \in Nat /\ DOMAIN group = 1 .. m
  BY DocumentType
<1>2. \A i \in 1 .. m : /\ group[i] \in Document /\ DOMAIN group[i].services \subseteq Service
                        /\ \A n \in DOMAIN group[i].services : group[i].services[n] \in Decl
  BY DocumentType
<1>3. other = [i \in 1 .. m |-> [group[i] EXCEPT !.services = services(i)]]
  BY <1>1 DEF ApplyCarryForwardGroup
<1>4. \A n \in C : swarm[n].replicas \in Count
  BY DEF Carried, LiveTyped, Live
<1> HIDE DEF m, C, merged
<1>5. ASSUME NEW i \in 1 .. m
      PROVE  services(i) \in UNION {[D -> Decl] : D \in SUBSET Service}
  <2> DEFINE D == DOMAIN group[i].services
  <2>1. \A n \in D : (IF n \in C THEN SetReplicas(group[i].services[n], Within(merged[n].labels, swarm[n].replicas))
                      ELSE group[i].services[n]) \in Decl
    BY <1>2, <1>4, WithinIs, SetReplicasIs
  <2>2. services(i) \in [D -> Decl]
    BY <2>1
  <2>3. D \in SUBSET Service
    BY <1>2
  <2> HIDE DEF services, D
  <2> QED
    BY <2>2, <2>3
<1>6. ASSUME NEW i \in 1 .. m
      PROVE  /\ [group[i] EXCEPT !.services = services(i)] \in Document
             /\ [group[i] EXCEPT !.services = services(i)].services = services(i)
  <2>1. group[i] \in Document
    BY <1>2
  <2> HIDE DEF services
  <2> QED
    BY <2>1, <1>5 DEF Document
<1> HIDE DEF other
<1>7. /\ other \in Seq(Document) /\ Len(other) = m
      /\ \A i \in 1 .. m : other[i].services = services(i)
  <2> DEFINE doc(i) == [group[i] EXCEPT !.services = services(i)]
  <2>1. other = [i \in 1 .. m |-> doc(i)] /\ \A i \in 1 .. m : doc(i) \in Document /\ doc(i).services = services(i)
    BY <1>3, <1>6
  <2> HIDE DEF doc, services
  <2>2. other \in Seq(Document) /\ Len(other) = m /\ \A i \in 1 .. m : other[i] = doc(i)
    BY <2>1, <1>1
  <2> QED
    BY <2>1, <2>2
<1> QED
  BY <1>7 DEF other, m, C, merged

(* What a deploy writes of a group after carry-forward. *)
LEMMA DeployAfterCarryForward ==
  ASSUME NEW group \in Seq(Document), NEW swarm, LiveTyped(swarm)
  PROVE  LET other == ApplyCarryForwardGroup(group, swarm) IN
         /\ other \in Seq(Document) /\ Deployable(other) = Deployable(group)
         /\ \A n : /\ DeployedLabels(other, n) = DeployedLabels(group, n)
                   /\ DeployedMode(other, n) = DeployedMode(group, n)
                   /\ n \notin Carried(group, swarm) => DeployedService(other, n) = DeployedService(group, n)
                   /\ n \in Carried(group, swarm) =>
                        DeployedCount(other, n) = Within(MergeServices(group)[n].labels, swarm[n].replicas)
<1> DEFINE other == ApplyCarryForwardGroup(group, swarm)
           m == Len(group)
           C == Carried(group, swarm)
           new(n) == Within(MergeServices(group)[n].labels, swarm[n].replicas)
<1>1. /\ other \in Seq(Document) /\ Len(other) = m
      /\ \A i \in 1 .. m :
           /\ DOMAIN other[i].services = DOMAIN group[i].services
           /\ \A n \in DOMAIN group[i].services :
                other[i].services[n] = IF n \in C THEN SetReplicas(group[i].services[n], new(n)) ELSE group[i].services[n]
  BY CarryForwardIs
<1>2. m \in Nat /\ DOMAIN group = 1 .. m /\ DOMAIN other = 1 .. m
      /\ \A i \in 1 .. m : \A n \in DOMAIN group[i].services : group[i].services[n] \in Decl
  BY <1>1, DocumentType
<1>3. \A n \in C : new(n) \in Count /\ n \in DOMAIN MergeServices(group)
  BY WithinIs DEF Carried, LiveTyped, Live
<1> HIDE DEF other, m, C, new
<1>4. Deployable(other) = Deployable(group)
  BY <1>1, <1>2 DEF Deployable
<1>5. ASSUME NEW i \in 1 .. m, NEW n \in DOMAIN group[i].services
      PROVE  /\ other[i].services[n].deployLabels = group[i].services[n].deployLabels
             /\ other[i].services[n].deployMode = group[i].services[n].deployMode
             /\ n \in C => other[i].services[n].deployReplicas = new(n)
  <2>1. CASE n \in C
    BY <2>1, <1>1, <1>2, <1>3, SetReplicasIs
  <2>2. CASE n \notin C
    BY <2>2, <1>1
  <2> QED
    BY <2>1, <2>2
<1>6. ASSUME NEW n
      PROVE  DeployedLabels(other, n) = DeployedLabels(group, n) /\ DeployedMode(other, n) = DeployedMode(group, n)
  <2>1. SameBut(group, other, n)
    BY <1>1, <1>5 DEF SameBut, m
  <2> QED
    BY <2>1, <1>1, LabelsAndModeKept
<1>7. ASSUME NEW n, n \notin C
      PROVE  DeployedService(other, n) = DeployedService(group, n)
  <2> DEFINE A == {i \in 1 .. m : n \in DOMAIN group[i].services /\ group[i].services[n]["deployReplicas"] # Unset}
             B == {i \in 1 .. m : n \in DOMAIN other[i].services /\ other[i].services[n]["deployReplicas"] # Unset}
  <2>1. \A i \in 1 .. m : n \in DOMAIN group[i].services => other[i].services[n] = group[i].services[n]
    BY <1>1, <1>7
  <2>2. A = B
    BY <1>1, <2>1
  <2>3. LastSetting(group, n, "deployReplicas", Unset) = LastSetting(other, n, "deployReplicas", Unset)
    BY <2>2, <1>2 DEF LastSetting
  <2>4. LET i == LastSetting(group, n, "deployReplicas", Unset) IN i = 0 \/ (i \in 1 .. m /\ n \in DOMAIN group[i].services)
    BY LastSettingIs DEF m
  <2> HIDE DEF A, B
  <2>5. DeployedCount(other, n) = DeployedCount(group, n)
    BY <2>1, <2>3, <2>4 DEF DeployedCount
  <2> QED
    BY <2>5, <1>6 DEF DeployedService
<1>8. ASSUME NEW n \in C
      PROVE  DeployedCount(other, n) = new(n)
  <2> DEFINE i == LastSetting(other, n, "deployReplicas", Unset)
  <2>1. /\ i = 0 \/ (i \in 1 .. m /\ n \in DOMAIN other[i].services)
        /\ i = 0 => \A j \in 1 .. m : n \in DOMAIN other[j].services => other[j].services[n]["deployReplicas"] = Unset
    BY <1>1, LastSettingIs
  <2>2. DeployedCount(other, n) = IF i = 0 THEN 1 ELSE other[i].services[n].deployReplicas
    BY DEF DeployedCount
  <2> HIDE DEF i
  <2>3. n \in Deployable(group)
    BY <1>3, ReadingsAgree
  <2>4. PICK j \in 1 .. m : n \in DOMAIN group[j].services
    BY <2>3, <1>2 DEF Deployable
  <2>5. other[j].services[n].deployReplicas \in Count /\ n \in DOMAIN other[j].services
    BY <2>4, <1>1, <1>3, <1>5
  <2>6. i # 0
    BY <2>1, <2>4, <2>5, Bounds
  <2> QED
    BY <2>1, <2>2, <2>6, <1>1, <1>5
<1> QED
  BY <1>1, <1>4, <1>6, <1>7, <1>8 DEF other, C, new

LEMMA DeployedServiceType ==
  ASSUME NEW group \in Seq(Document), NEW n
  PROVE  DeployedService(group, n) \in Live
<1>1. DeployedCount(group, n) \in Count /\ 0 \in Count
  BY DeployedCountType, Bounds
<1>2. DeployedLabels(group, n) \in Labels
  <2>1. Len(group) \in Nat
    BY DocumentType
  <2>2. Len(group) \in 0 .. Len(group)
    BY <2>1
  <2>3. PICK labels \in [0 .. Len(group) -> Labels] : DeployedLabels(group, n) = labels[Len(group)]
    BY DeployedLabelsIs
  <2> QED
    BY <2>2, <2>3
<1> QED
  BY <1>1, <1>2 DEF DeployedService, Live

LEMMA DeployedServiceIs ==
  ASSUME NEW group, NEW n
  PROVE  /\ DeployedService(group, n).replicated = (DeployedMode(group, n) = "replicated")
         /\ DeployedMode(group, n) = "replicated" => DeployedService(group, n).replicas = DeployedCount(group, n)
         /\ DeployedService(group, n).labels = DeployedLabels(group, n)
BY DEF DeployedService

(* A group without a misplaced setting: what Swarm stores is what the code reads. *)
LEMMA NothingMisplaced ==
  ASSUME NEW group \in Seq(Document), NEW n \in Deployable(group), ~Misplaced(group, n)
  PROVE  /\ OptedIn(MergeServices(group)[n].labels) = OptedIn(DeployedLabels(group, n))
         /\ \A count : Within(MergeServices(group)[n].labels, count) = Within(DeployedLabels(group, n), count)
         /\ DeployedMode(group, n) = "replicated" <=> ~MergeServices(group)[n].global
         /\ MergeGroupServices(group)[n].replicas \in {Unset, DeployedCount(group, n)}
<1> DEFINE carried == MergeServices(group)[n]
           stored == DeployedService(group, n)
<1>1. /\ OptedIn(carried.labels) = OptedIn(stored.labels)
      /\ \A key \in {"min", "max"} : ParseUintLabel(carried.labels, key) = ParseUintLabel(stored.labels, key)
      /\ carried.global # stored.replicated
      /\ MergeGroupServices(group)[n].replicas \in {Unset, DeployedCount(group, n)}
  BY DEF Misplaced
<1>2. stored.labels = DeployedLabels(group, n) /\ stored.replicated = (DeployedMode(group, n) = "replicated")
  BY DEF DeployedService
<1>3. carried.global \in BOOLEAN
  <2>1. carried \in Merged
    BY ReadingsAgree, ViewsHave
  <2> QED
    BY <2>1 DEF Merged
<1> HIDE DEF carried, stored
<1>4. \A count : Within(carried.labels, count) = Within(stored.labels, count)
  BY <1>1 DEF Within
<1>5. DeployedMode(group, n) = "replicated" <=> ~carried.global
  BY <1>1, <1>2, <1>3
<1> QED
  BY <1>1, <1>2, <1>4, <1>5 DEF carried

(* The snapshot has the counts of services the autoscaler does not own. *)
Snapshots == UNION {[D -> Count] : D \in SUBSET Service}

LEMMA SnapshotsAre ==
  ASSUME NEW d, d = [n \in DOMAIN d |-> d[n]], DOMAIN d \subseteq Service, \A n \in DOMAIN d : d[n] \in Count
  PROVE  d \in Snapshots
<1>1. d \in [DOMAIN d -> Count]
  OBVIOUS
<1> QED
  BY <1>1 DEF Snapshots

LEMMA SnapshotsHave ==
  ASSUME NEW d \in Snapshots
  PROVE  DOMAIN d \subseteq Service /\ \A n \in DOMAIN d : d[n] \in Count
<1>1. PICK D \in SUBSET Service : d \in [D -> Count]
  BY DEF Snapshots
<1> QED
  BY <1>1

LEMMA DesiredReplicasIs ==
  ASSUME NEW group \in Seq(Document)
  PROVE  /\ DesiredReplicasGroup(group) \in Snapshots
         /\ \A n \in DOMAIN DesiredReplicasGroup(group) :
              /\ n \in Deployable(group) /\ ~OptedIn(MergeServices(group)[n].labels)
              /\ ~MergeServices(group)[n].global
              /\ DesiredReplicasGroup(group)[n] = MergeGroupServices(group)[n].replicas
              /\ DesiredReplicasGroup(group)[n] # Unset
<1> DEFINE merged == MergeGroupServices(group)
           d == DesiredReplicasGroup(group)
<1>1. /\ merged \in View /\ DOMAIN merged = Deployable(group)
      /\ \A n \in Deployable(group) : /\ MergeServices(group)[n].labels = merged[n].labels
                                      /\ MergeServices(group)[n].global = merged[n].global
  BY ReadingsAgree
<1>2. DOMAIN merged \subseteq Service /\ \A n \in DOMAIN merged : merged[n] \in Merged
  BY <1>1, ViewsHave
<1>3. d = [n \in {m \in DOMAIN merged : /\ ~merged[m].global /\ ~OptedIn(merged[m].labels)
                                       /\ merged[m].replicas # Unset} |-> merged[n].replicas]
  BY DEF DesiredReplicasGroup
<1> HIDE DEF merged, d
<1>4. d = [n \in DOMAIN d |-> d[n]]
  BY <1>3
<1>5. \A n \in DOMAIN d : /\ n \in DOMAIN merged /\ ~merged[n].global /\ ~OptedIn(merged[n].labels)
                          /\ merged[n].replicas # Unset /\ d[n] = merged[n].replicas
  BY <1>3
<1>6. \A n \in DOMAIN d : n \in Service /\ d[n] \in Count
  BY <1>2, <1>5 DEF Merged
<1>7. d \in Snapshots
  BY <1>4, <1>6, SnapshotsAre
<1> QED
  BY <1>1, <1>5, <1>7 DEF d, merged

LEMMA AnyGroup ==
  ASSUME NEW group \in MergeGroup \cup {<<>>}
  PROVE  group \in Seq(Document) /\ Deployable(group) \subseteq Service
<1>1. group \in Seq(Document)
  <2>1. <<>> \in Seq(Document)
    OBVIOUS
  <2> QED
    BY <2>1, GroupType
<1> QED
  BY <1>1, DocumentType DEF Deployable

-------------------------------------------------------------------------------
(* The stack.                                                              *)

StackTyped ==
  /\ docs \in MergeGroup \cup {<<>>}
  /\ LiveTyped(live) /\ foreign \subseteq Service
  /\ phase \in {"idle", "sync", "rendered", "deployed", "failed"}
  /\ phase \in {"rendered", "deployed"} => docs # <<>>
  /\ lastDesired = DesiredReplicasGroup(docs)
  /\ shown \in [state : {"", "syncing"}, ok : BOOLEAN, desired : Snapshots]
  /\ request \in [state : {"none", "", "syncing"}, ok : BOOLEAN, desired : Snapshots, fresh : BOOLEAN]
  /\ answer.drifted \subseteq Service

(* Swarm has what Git wants of every service the snapshot is about, but for  *)
(* those someone else touched.                                              *)
InOrder ==
  \A n \in DOMAIN lastDesired : ~Misplaced(docs, n) /\ n \notin foreign =>
    /\ n \in DOMAIN live /\ live[n].replicated
    /\ live[n].replicas = lastDesired[n] /\ live[n].labels = DeployedLabels(docs, n)

(* A stack is in order from its deploy to the next pass that renders, and a   *)
(* status is of the snapshot taken with that deploy as long.                *)
StackOrdered ==
  /\ shown.state = IF phase = "idle" THEN "" ELSE "syncing"
  /\ phase = "deployed" => InOrder
  /\ phase = "idle" /\ shown.ok => InOrder /\ shown.desired = lastDesired
  /\ request.fresh /\ request.state = "" /\ request.ok =>
       phase \in {"idle", "sync", "failed"} /\ InOrder /\ request.desired = lastDesired

LEMMA WriteServicesIs ==
  ASSUME NEW group \in Seq(Document), NEW written \in SUBSET Deployable(group),
         LiveTyped(live), foreign \subseteq Service, WriteServices(group, written)
  PROVE  /\ LiveTyped(live') /\ foreign' \subseteq Service
         /\ DOMAIN live' = written \cup DOMAIN live
         /\ \A n \in DOMAIN live' : live'[n] = IF n \in written THEN DeployedService(group, n) ELSE live[n]
<1>1. live' = Over([n \in written |-> DeployedService(group, n)], live) /\ foreign' = foreign \ written
  BY DEF WriteServices
<1>2. DOMAIN live' = written \cup DOMAIN live
  BY <1>1 DEF Over
<1>3. \A n \in DOMAIN live' : live'[n] = IF n \in written THEN DeployedService(group, n) ELSE live[n]
  BY <1>1 DEF Over
<1>4. written \subseteq Service
  BY DocumentType DEF Deployable
<1>5. LiveTyped(live')
  BY <1>2, <1>3, <1>4, DeployedServiceType DEF LiveTyped
<1> QED
  BY <1>1, <1>2, <1>3, <1>5

(* A deploy that ends brings the stack in order. *)
LEMMA DeployOrders ==
  ASSUME StackTyped, DeployStack
  PROVE  InOrder'
<1> DEFINE group == ApplyCarryForwardGroup(docs, live)
<1>1. docs \in Seq(Document) /\ LiveTyped(live) /\ foreign \subseteq Service /\ lastDesired = DesiredReplicasGroup(docs)
  BY AnyGroup DEF StackTyped
<1>2. /\ group \in Seq(Document) /\ Deployable(group) = Deployable(docs)
      /\ \A n : /\ DeployedLabels(group, n) = DeployedLabels(docs, n)
                /\ n \notin Carried(docs, live) => DeployedService(group, n) = DeployedService(docs, n)
  BY <1>1, DeployAfterCarryForward
<1>3. WriteServices(group, Deployable(group)) /\ docs' = docs /\ lastDesired' = lastDesired
  BY DEF DeployStack
<1> HIDE DEF group
<1>4. /\ DOMAIN live' = Deployable(docs) \cup DOMAIN live
      /\ \A n \in Deployable(docs) : live'[n] = DeployedService(group, n)
  BY <1>1, <1>2, <1>3, WriteServicesIs
<1> SUFFICES ASSUME NEW n \in DOMAIN lastDesired, ~Misplaced(docs, n)
             PROVE  /\ n \in DOMAIN live' /\ live'[n].replicated
                    /\ live'[n].replicas = lastDesired[n] /\ live'[n].labels = DeployedLabels(docs, n)
  BY <1>3 DEF InOrder
<1>5. /\ n \in Deployable(docs) /\ ~OptedIn(MergeServices(docs)[n].labels) /\ ~MergeServices(docs)[n].global
      /\ lastDesired[n] = MergeGroupServices(docs)[n].replicas /\ lastDesired[n] # Unset
  BY <1>1, DesiredReplicasIs
<1>6. live'[n] = DeployedService(docs, n)
  BY <1>2, <1>4, <1>5 DEF Carried
<1>7. DeployedMode(docs, n) = "replicated" /\ lastDesired[n] = DeployedCount(docs, n)
  BY <1>1, <1>5, NothingMisplaced
<1>8. /\ DeployedService(docs, n).replicated /\ DeployedService(docs, n).replicas = DeployedCount(docs, n)
      /\ DeployedService(docs, n).labels = DeployedLabels(docs, n)
  BY <1>7, DeployedServiceIs
<1>9. n \in DOMAIN live'
  BY <1>4, <1>5
<1> QED
  BY <1>6, <1>7, <1>8, <1>9

(* What the autoscaler and people do, and what it leaves in order: they own   *)
(* the service, or it is marked as touched.                                 *)
LEMMA OthersKeepTypes ==
  ASSUME StackTyped, NEW n \in Service, NEW c \in 0 .. MaxCount,
         AutoscaleService(n, c) \/ ScaleByHand(n, c) \/ RemoveService(n)
  PROVE  LiveTyped(live') /\ foreign' \subseteq Service
<1>1. LiveTyped(live) /\ foreign \subseteq Service /\ foreign' \subseteq Service
  BY DEF StackTyped, AutoscaleService, ScaleByHand, RemoveService, pipeline
<1>2. CASE AutoscaleService(n, c) \/ ScaleByHand(n, c)
  <2>1. n \in DOMAIN live /\ live' = [live EXCEPT ![n].replicas = c] /\ live[n] \in Live
    BY <1>1, <1>2 DEF AutoscaleService, ScaleByHand, LiveTyped
  <2>2. DOMAIN live' = DOMAIN live /\ \A m \in DOMAIN live : m # n => live'[m] = live[m]
    BY <2>1
  <2>3. live'[n] = [live[n] EXCEPT !.replicas = c]
    BY <2>1
  <2>4. live'[n] \in Live
    BY <2>1, <2>3 DEF Live, Count
  <2> QED
    BY <1>1, <2>2, <2>4 DEF LiveTyped
<1>3. CASE RemoveService(n)
  <2>1. live' = [m \in DOMAIN live \ {n} |-> live[m]]
    BY <1>3 DEF RemoveService
  <2> QED
    BY <1>1, <2>1 DEF LiveTyped
<1> QED
  BY <1>2, <1>3

LEMMA OthersKeepOrder ==
  ASSUME StackTyped, InOrder, NEW n \in Service, NEW c \in 0 .. MaxCount,
         AutoscaleService(n, c) \/ ScaleByHand(n, c) \/ RemoveService(n)
  PROVE  InOrder'
<1>1. /\ docs \in Seq(Document) /\ LiveTyped(live) /\ foreign \subseteq Service /\ lastDesired = DesiredReplicasGroup(docs)
      /\ docs' = docs /\ lastDesired' = lastDesired /\ foreign \subseteq foreign'
  BY AnyGroup DEF StackTyped, AutoscaleService, ScaleByHand, RemoveService, pipeline
<1>2. CASE AutoscaleService(n, c) \/ ScaleByHand(n, c)
  <2>1. n \in DOMAIN live /\ live' = [live EXCEPT ![n].replicas = c]
    BY <1>1, <1>2 DEF AutoscaleService, ScaleByHand, LiveTyped
  <2>2. DOMAIN live' = DOMAIN live /\ \A m \in DOMAIN live : m # n => live'[m] = live[m]
    BY <2>1
  <2>3. n \in DOMAIN lastDesired /\ ~Misplaced(docs, n) => n \in foreign \/ n \in foreign'
    <3> SUFFICES ASSUME n \in DOMAIN lastDesired, ~Misplaced(docs, n), n \notin foreign, AutoscaleService(n, c)
                 PROVE  FALSE
      BY <1>2 DEF ScaleByHand
    <3>1. live[n].labels = DeployedLabels(docs, n) /\ OptedIn(live[n].labels)
      BY DEF InOrder, AutoscaleService
    <3>2. n \in Deployable(docs) /\ ~OptedIn(MergeServices(docs)[n].labels)
      BY <1>1, DesiredReplicasIs
    <3> QED
      BY <1>1, <3>1, <3>2, NothingMisplaced
  <2> QED
    BY <1>1, <2>2, <2>3 DEF InOrder
<1>3. CASE RemoveService(n)
  <2>1. live' = [m \in DOMAIN live \ {n} |-> live[m]] /\ foreign' = foreign \cup {n}
    BY <1>3 DEF RemoveService
  <2> QED
    BY <1>1, <2>1 DEF InOrder
<1> QED
  BY <1>2, <1>3

StackInv == StackTyped /\ StackOrdered

LEMMA NoGroup == <<>> \in Seq(Document) /\ Deployable(<<>>) = {}
<1>1. <<>> \in Seq(Document) /\ Len(<<>>) = 0
  OBVIOUS
<1>2. DOMAIN <<>> = {}
  OBVIOUS
<1> QED
  BY <1>1, <1>2 DEF Deployable

LEMMA StackStarts == StackInit => StackInv
<1> SUFFICES ASSUME StackInit
             PROVE  StackInv
  OBVIOUS
<1> USE DEF StackInit
<1>1. docs = <<>> /\ docs \in Seq(Document) /\ Deployable(docs) = {}
  BY NoGroup
<1>2. NoDesired = [n \in DOMAIN NoDesired |-> NoDesired[n]] /\ DOMAIN NoDesired = {}
  BY DEF NoDesired
<1>3. NoDesired \in Snapshots
  BY <1>2, SnapshotsAre
<1>4. DesiredReplicasGroup(docs) = NoDesired
  <2> DEFINE d == DesiredReplicasGroup(docs)
  <2>1. DOMAIN d = {}
    BY <1>1, DesiredReplicasIs
  <2>2. d = [n \in DOMAIN d |-> d[n]]
    BY DEF DesiredReplicasGroup
  <2> HIDE DEF d
  <2>3. d = NoDesired
    BY <1>2, <2>1, <2>2
  <2> QED
    BY <2>3 DEF d
<1>5. LiveTyped(live)
  BY DEF LiveTyped
<1>6. shown \in [state : {"", "syncing"}, ok : BOOLEAN, desired : Snapshots]
  BY <1>3
<1>7. request \in [state : {"none", "", "syncing"}, ok : BOOLEAN, desired : Snapshots, fresh : BOOLEAN]
  BY <1>3 DEF NoRequest
<1>8. StackTyped
  BY <1>1, <1>4, <1>5, <1>6, <1>7 DEF StackTyped
<1>9. StackOrdered
  BY DEF StackOrdered, NoRequest
<1> QED
  BY <1>8, <1>9 DEF StackInv

LEMMA TypesKept ==
  ASSUME StackTyped, [StackNext]_stackVars
  PROVE  StackTyped'
<1> USE DEF StackTyped
<1>1. CASE SyncStack
  BY <1>1 DEF SyncStack, api
<1>2. CASE SyncStackFails
  BY <1>2 DEF SyncStackFails, api
<1>3. ASSUME NEW group \in MergeGroup, RenderStack(group)
      PROVE  StackTyped'
  BY <1>3, GroupType DEF RenderStack, Outdate
<1>4. CASE DeployStack \/ DeployStackFails
  <2> DEFINE group == ApplyCarryForwardGroup(docs, live)
  <2>1. docs \in Seq(Document) /\ LiveTyped(live) /\ foreign \subseteq Service
    BY AnyGroup
  <2>2. group \in Seq(Document)
    BY <2>1, DeployAfterCarryForward
  <2>3. \E written \in SUBSET Deployable(group) : WriteServices(group, written)
    <3>1. CASE DeployStack
      BY <3>1 DEF DeployStack
    <3>2. CASE DeployStackFails
      BY <3>2 DEF DeployStackFails
    <3> QED
      BY <1>4, <3>1, <3>2
  <2>4. UNCHANGED <<docs, lastDesired, shown, api>> /\ phase = "rendered" /\ phase' \in {"deployed", "failed"}
    BY <1>4 DEF DeployStack, DeployStackFails
  <2> HIDE DEF group
  <2>5. LiveTyped(live') /\ foreign' \subseteq Service
    BY <2>1, <2>2, <2>3, WriteServicesIs
  <2> QED
    BY <2>4, <2>5 DEF api
<1>5. CASE RecordStack
  <2>1. lastDesired \in Snapshots
    BY AnyGroup, DesiredReplicasIs
  <2> QED
    BY <1>5, <2>1 DEF RecordStack, api
<1>6. CASE ReadStatus
  BY <1>6 DEF ReadStatus, pipeline
<1>7. CASE AnswerDrift
  <2>1. request' \in [state : {"none", "", "syncing"}, ok : BOOLEAN, desired : Snapshots, fresh : BOOLEAN]
    <3>1. NoDesired = [n \in DOMAIN NoDesired |-> NoDesired[n]] /\ DOMAIN NoDesired = {}
      BY DEF NoDesired
    <3>2. NoDesired \in Snapshots
      BY <3>1, SnapshotsAre
    <3> QED
      BY <1>7, <3>2 DEF AnswerDrift, NoRequest
  <2>2. DOMAIN request.desired \subseteq Service
    BY SnapshotsHave
  <2>3. Drift(request.desired, live) \subseteq Service
    BY <2>2 DEF Drift
  <2>4. answer'.drifted \subseteq Service
    <3> HIDE DEF StackTyped
    <3>1. answer'.drifted \in {Drift(request.desired, live), {}}
      BY <1>7 DEF AnswerDrift
    <3> QED
      BY <3>1, <2>3
  <2> QED
    BY <1>7, <2>1, <2>4 DEF AnswerDrift, pipeline
<1>8. ASSUME NEW n \in Service, NEW c \in 0 .. MaxCount, AutoscaleService(n, c) \/ ScaleByHand(n, c) \/ RemoveService(n)
      PROVE  StackTyped'
  <2>1. LiveTyped(live') /\ foreign' \subseteq Service
    BY <1>8, OthersKeepTypes
  <2> QED
    BY <1>8, <2>1 DEF AutoscaleService, ScaleByHand, RemoveService, pipeline, api
<1>9. CASE UNCHANGED stackVars
  BY <1>9 DEF stackVars, pipeline, api
<1>10. 0 \in 0 .. MaxCount
  BY Bounds DEF Count
<1> HIDE DEF StackTyped
<1> QED
  BY <1>1, <1>2, <1>3, <1>4, <1>5, <1>6, <1>7, <1>8, <1>9, <1>10 DEF StackNext

LEMMA OrderKept ==
  ASSUME StackTyped, StackOrdered, [StackNext]_stackVars
  PROVE  StackOrdered'
<1> USE DEF StackOrdered
<1>a. /\ shown \in [state : {"", "syncing"}, ok : BOOLEAN, desired : Snapshots]
      /\ request \in [state : {"none", "", "syncing"}, ok : BOOLEAN, desired : Snapshots, fresh : BOOLEAN]
  BY DEF StackTyped
<1>1. CASE SyncStack
  BY <1>1, <1>a DEF SyncStack, api, InOrder
<1>2. CASE SyncStackFails
  BY <1>2 DEF SyncStackFails, api, InOrder
<1>3. ASSUME NEW group \in MergeGroup, RenderStack(group)
      PROVE  StackOrdered'
  BY <1>3, <1>a DEF RenderStack, Outdate
<1>4. CASE DeployStack
  <2>1. InOrder'
    BY <1>4, DeployOrders
  <2> QED
    BY <1>4, <2>1 DEF DeployStack, api
<1>5. CASE DeployStackFails
  BY <1>5 DEF DeployStackFails, api
<1>6. CASE RecordStack
  <2>1. /\ phase \in {"deployed", "failed"} /\ phase' = "idle" /\ UNCHANGED <<live, foreign, docs, lastDesired, request>>
        /\ shown'.state = "" /\ shown'.ok = (phase = "deployed") /\ shown'.desired = lastDesired
    BY <1>6 DEF RecordStack, api
  <2>2. InOrder' <=> InOrder
    BY <2>1 DEF InOrder
  <2> HIDE DEF InOrder
  <2> QED
    BY <2>1, <2>2
<1>7. CASE ReadStatus
  <2>1. InOrder' <=> InOrder
    BY <1>7 DEF ReadStatus, pipeline, InOrder
  <2>2. /\ UNCHANGED pipeline /\ request'.state = shown.state /\ request'.ok = shown.ok /\ request'.desired = shown.desired
    BY <1>7 DEF ReadStatus
  <2> QED
    BY <2>1, <2>2 DEF pipeline
<1>8. CASE AnswerDrift
  <2>1. InOrder' <=> InOrder
    BY <1>8 DEF AnswerDrift, pipeline, InOrder
  <2> QED
    BY <1>8, <2>1 DEF AnswerDrift, pipeline, NoRequest
<1>9. ASSUME NEW n \in Service, NEW c \in 0 .. MaxCount, AutoscaleService(n, c) \/ ScaleByHand(n, c) \/ RemoveService(n)
      PROVE  StackOrdered'
  <2>1. InOrder => InOrder'
    BY <1>9, OthersKeepOrder
  <2>2. UNCHANGED <<pipeline, api>>
    BY <1>9 DEF AutoscaleService, ScaleByHand, RemoveService
  <2> QED
    BY <2>1, <2>2 DEF pipeline, api
<1>10. CASE UNCHANGED stackVars
  BY <1>10 DEF stackVars, pipeline, api, InOrder
<1>11. 0 \in 0 .. MaxCount
  BY Bounds DEF Count
<1> HIDE DEF StackOrdered
<1> QED
  BY <1>1, <1>2, <1>3, <1>4, <1>5, <1>6, <1>7, <1>8, <1>9, <1>10, <1>11 DEF StackNext

LEMMA StackInvHolds == StackSpec => []StackInv
<1>1. StackInit => StackInv
  BY StackStarts
<1>2. StackInv /\ [StackNext]_stackVars => StackInv'
  BY TypesKept, OrderKept DEF StackInv
<1> QED
  BY <1>1, <1>2, PTL DEF StackSpec

(* Statuses, snapshots and answers are about services of the stack, and every *)
(* count the pipeline writes is one the model knows: buildPayload and         *)
(* StackServices never meet another.                                        *)
THEOREM StackIsTyped == StackSpec => []StackTypeOK
<1>1. StackInv => StackTypeOK
  <2> SUFFICES ASSUME StackTyped
               PROVE  StackTypeOK
    BY DEF StackInv
  <2>1. DesiredReplicasGroup(docs) \in Snapshots
    BY AnyGroup, DesiredReplicasIs DEF StackTyped
  <2>2. lastDesired \in Snapshots /\ shown.desired \in Snapshots /\ request.desired \in Snapshots
    BY <2>1 DEF StackTyped
  <2>3. \A d \in {lastDesired, shown.desired, request.desired} :
          DOMAIN d \subseteq Service /\ \A n \in DOMAIN d : d[n] \in 0 .. MaxCount
    BY <2>2, SnapshotsHave DEF Count
  <2>4. DOMAIN live \subseteq Service /\ \A n \in DOMAIN live : live[n].replicas \in 0 .. MaxCount /\ live[n].replicated \in BOOLEAN
    BY DEF StackTyped, LiveTyped, Live, Count
  <2>5. shown.state \in {"", "syncing"} /\ request.state \in {"none", "", "syncing"}
    BY DEF StackTyped
  <2> QED
    BY <2>3, <2>4, <2>5 DEF StackTyped, StackTypeOK
<1> QED
  BY <1>1, StackInvHolds, PTL

(* Carry-forward (carryforward.go) and the drift snapshot (loop.go) agree about *)
(* who owns a service's count, of every group of documents there can be.      *)
THEOREM OneReadingOfOwnership == StackSpec => []OwnershipReadingsAgree
<1>1. StackInv => OwnershipReadingsAgree
  <2> SUFFICES ASSUME StackTyped
               PROVE  OwnershipReadingsAgree
    BY DEF StackInv
  <2>1. docs \in Seq(Document)
    BY AnyGroup DEF StackTyped
  <2> QED
    BY <2>1, ReadingsAgree DEF OwnershipReadingsAgree
<1> QED
  BY <1>1, StackInvHolds, PTL

(* A deploy leaves the count of an autoscaled service to the autoscaler and   *)
(* brings every other one to Git's, in groups of any number of documents.     *)
THEOREM OneOwnerOfEveryCount == StackSpec => EveryCountHasOneOwner
<1>1. ASSUME StackTyped, DeployStack,
             NEW n \in DOMAIN live', n \in Deployable(docs), ~Misplaced(docs, n)
      PROVE  IF OptedIn(live'[n].labels) /\ live'[n].replicated /\ n \in DOMAIN live
             THEN live'[n].replicas = Within(live'[n].labels, live[n].replicas)
             ELSE live'[n].replicas = DeployedService(docs, n).replicas
  <2> DEFINE group == ApplyCarryForwardGroup(docs, live)
  <2>1. docs \in Seq(Document) /\ LiveTyped(live) /\ foreign \subseteq Service
    BY <1>1, AnyGroup DEF StackTyped
  <2>2. /\ group \in Seq(Document) /\ Deployable(group) = Deployable(docs)
        /\ DeployedLabels(group, n) = DeployedLabels(docs, n) /\ DeployedMode(group, n) = DeployedMode(docs, n)
        /\ n \notin Carried(docs, live) => DeployedService(group, n) = DeployedService(docs, n)
        /\ n \in Carried(docs, live) =>
             DeployedCount(group, n) = Within(MergeServices(docs)[n].labels, live[n].replicas)
    BY <2>1, DeployAfterCarryForward
  <2>3. WriteServices(group, Deployable(group)) /\ ~Refused(group, n)
    BY <1>1, <2>2 DEF DeployStack
  <2> HIDE DEF group
  <2>4. live'[n] = DeployedService(group, n)
    BY <1>1, <2>1, <2>2, <2>3, WriteServicesIs
  <2>5. /\ live'[n].labels = DeployedLabels(docs, n) /\ live'[n].replicated = (DeployedMode(docs, n) = "replicated")
        /\ DeployedMode(docs, n) = "replicated" => live'[n].replicas = DeployedCount(group, n)
    BY <2>2, <2>4, DeployedServiceIs
  <2>6. /\ OptedIn(MergeServices(docs)[n].labels) = OptedIn(live'[n].labels)
        /\ \A count : Within(MergeServices(docs)[n].labels, count) = Within(live'[n].labels, count)
        /\ live'[n].replicated <=> ~MergeServices(docs)[n].global
    BY <1>1, <2>1, <2>5, NothingMisplaced
  <2>7. DOMAIN MergeServices(docs) = Deployable(docs)
    BY <2>1, ReadingsAgree
  <2>8. n \in DOMAIN live => live[n].replicated = live'[n].replicated
    BY <2>3, <2>4 DEF Refused
  <2>9. n \in Carried(docs, live) <=> OptedIn(live'[n].labels) /\ live'[n].replicated /\ n \in DOMAIN live
    BY <1>1, <2>6, <2>7, <2>8 DEF Carried
  <2>10. CASE n \in Carried(docs, live)
    BY <2>2, <2>5, <2>6, <2>9, <2>10
  <2>11. CASE n \notin Carried(docs, live)
    BY <2>2, <2>4, <2>9, <2>11
  <2> QED
    BY <2>10, <2>11
<1>2. StackInv /\ [StackNext]_stackVars =>
        [DeployStack => \A n \in DOMAIN live' : n \in Deployable(docs) /\ ~Misplaced(docs, n) =>
           IF OptedIn(live'[n].labels) /\ live'[n].replicated /\ n \in DOMAIN live
           THEN live'[n].replicas = Within(live'[n].labels, live[n].replicas)
           ELSE live'[n].replicas = DeployedService(docs, n).replicas]_stackVars
  BY <1>1 DEF StackInv
<1> QED
  BY <1>2, StackInvHolds, PTL DEF StackSpec, EveryCountHasOneOwner

(* Drift a /stacks request shows for a stack at rest and in order is somebody's *)
(* doing, and a removed service is shown: the snapshot, the deploy and the     *)
(* decisions of the autoscaler never disagree by themselves.                 *)
THEOREM DriftHasADoer == StackSpec => DriftIsSomebodysDoing
<1>1. ASSUME StackInv, AnswerDrift, request.fresh, request.state = "", request.ok, ~answer'.failed,
             NEW n \in DOMAIN request.desired, ~Misplaced(docs, n)
      PROVE  /\ n \in answer'.drifted => n \in foreign
             /\ n \notin DOMAIN live => n \in answer'.drifted
  <2>1. InOrder /\ request.desired = lastDesired
    BY <1>1 DEF StackInv, StackOrdered
  <2>2. answer'.drifted = Drift(request.desired, live)
    <3> DEFINE read == [drifted |-> Drift(request.desired, live), failed |-> FALSE]
               unread == [drifted |-> {}, failed |-> TRUE]
    <3>1. answer' = read \/ answer' = unread
      BY <1>1 DEF AnswerDrift
    <3>2. unread.failed = TRUE /\ read.drifted = Drift(request.desired, live)
      OBVIOUS
    <3> HIDE DEF read, unread
    <3>3. answer' # unread
      BY <1>1, <3>2
    <3> QED
      BY <3>1, <3>2, <3>3
  <2>3. n \notin foreign => n \in DOMAIN live /\ live[n].replicated /\ live[n].replicas = request.desired[n]
    BY <1>1, <2>1 DEF InOrder
  <2> QED
    BY <2>2, <2>3 DEF Drift
<1>2. StackInv /\ [StackNext]_stackVars =>
        [AnswerDrift /\ request.fresh /\ request.state = "" /\ request.ok /\ ~answer'.failed =>
           \A n \in DOMAIN request.desired : ~Misplaced(docs, n) =>
             /\ n \in answer'.drifted => n \in foreign
             /\ n \notin DOMAIN live => n \in answer'.drifted]_stackVars
  BY <1>1
<1> QED
  BY <1>2, StackInvHolds, PTL DEF StackSpec, DriftIsSomebodysDoing

-------------------------------------------------------------------------------
(* What Misplaced leaves out: nothing of a service whose settings stand where *)
(* docker/cli looks for them.                                               *)

(* A value that some steps set and the others keep is the last one set. *)
Follows(f, m, sets, val) == \A i \in 1 .. m : f[i] = IF i \in sets THEN val[i] ELSE f[i - 1]

LEMMA LastWins ==
  ASSUME NEW m \in Nat, NEW sets \in SUBSET (1 .. m), NEW val, NEW f, Follows(f, m, sets, val)
  PROVE  f[m] = IF sets = {} THEN f[0] ELSE val[Max(sets)]
<1> DEFINE S == {k \in 0 .. m : LET upto == {i \in sets : i <= k} IN
                                f[k] = IF upto = {} THEN f[0] ELSE val[Max(upto)]}
<1>a. \A i \in sets : i \in Int /\ ~(i <= 0) /\ i <= m /\ i \in 0 .. m
  OBVIOUS
<1> USE DEF Follows
<1>1. 0 \in S
  <2>1. {i \in sets : i <= 0} = {}
    BY <1>a
  <2> QED
    BY <2>1
<1>2. ASSUME NEW k \in 0 .. m - 1, k \in S
      PROVE  k + 1 \in S
  <2> DEFINE A == {i \in sets : i <= k}
             B == {i \in sets : i <= k + 1}
  <2>1. k + 1 \in 0 .. m /\ k + 1 \in 1 .. m /\ (k + 1) - 1 = k
    OBVIOUS
  <2>2. f[k] = (IF A = {} THEN f[0] ELSE val[Max(A)]) /\ f[k + 1] = IF k + 1 \in sets THEN val[k + 1] ELSE f[k]
    BY <1>2, <2>1
  <2>3. CASE k + 1 \in sets
    <3>1. k + 1 \in B
      BY <2>3
    <3>2. \A y \in B : y <= k + 1
      OBVIOUS
    <3>3. B \subseteq 0 .. m /\ B # {} /\ B \subseteq Int
      <4>1. B \subseteq sets
        OBVIOUS
      <4> HIDE DEF B
      <4> QED
        BY <3>1, <4>1, <1>a
    <3> HIDE DEF B
    <3>4. Max(B) \in B /\ \A y \in B : Max(B) >= y
      BY <3>3, GreatestIs
    <3>5. Max(B) >= k + 1 /\ Max(B) <= k + 1 /\ Max(B) \in Int
      BY <3>1, <3>2, <3>3, <3>4
    <3>6. Max(B) = k + 1
      BY <3>5
    <3>7. f[k + 1] = IF B = {} THEN f[0] ELSE val[Max(B)]
      BY <2>2, <2>3, <3>3, <3>6
    <3> QED
      BY <2>1, <3>7 DEF B
  <2>4. CASE k + 1 \notin sets
    <3>1. \A i \in sets : i <= k <=> i <= k + 1
      <4>1. \A i \in sets : i \in Int /\ i # k + 1
        BY <2>4, <1>a
      <4> QED
        BY <4>1
    <3>2. A = B
      BY <3>1
    <3>3. f[k + 1] = IF B = {} THEN f[0] ELSE val[Max(B)]
      BY <2>2, <2>4, <3>2
    <3> QED
      BY <2>1, <3>3
  <2> QED
    BY <2>3, <2>4
<1>3. 0 .. m \subseteq S
  <2> HIDE DEF S
  <2> QED
    BY <1>1, <1>2, UpToInduction
<1>4. {i \in sets : i <= m} = sets
  BY <1>a
<1>5. m \in 0 .. m
  OBVIOUS
<1>6. m \in S
  BY <1>3, <1>5
<1> QED
  BY <1>4, <1>6

Placed(decl) ==
  /\ decl.labels = <<>> /\ decl.mode = "" /\ decl.replicas = Unset
  /\ \A i \in DOMAIN decl.deployLabels : decl.deployLabels[i].value # ""

LEMMA PlacedReadings ==
  ASSUME NEW svc \in Decl, Placed(svc)
  PROVE  /\ ServiceLabels(svc) = StoredLabels(svc.deployLabels)
         /\ ExplicitMode(svc) = svc.deployMode /\ ReplicasOf(svc) = svc.deployReplicas
<1>1. Flat(svc.labels) = [k \in {} |-> ""]
  <2>1. DOMAIN <<>> = {}
    OBVIOUS
  <2>2. svc.labels = <<>>
    BY DEF Placed
  <2>3. {svc.labels[i].key : i \in DOMAIN svc.labels} = {}
    BY <2>1, <2>2
  <2> QED
    BY <2>3 DEF Flat
<1>2. Over(Flat(svc.deployLabels), [k \in {} |-> ""]) = Flat(svc.deployLabels)
  <2> DEFINE f == Flat(svc.deployLabels)
  <2>1. f = [k \in DOMAIN f |-> f[k]]
    BY DEF Flat
  <2> HIDE DEF f
  <2>2. Over(f, [k \in {} |-> ""]) = [k \in DOMAIN f |-> f[k]]
    BY DEF Over
  <2> QED
    BY <2>1, <2>2 DEF f
<1>3. ServiceLabels(svc) = Flat(svc.deployLabels)
  BY <1>1, <1>2 DEF ServiceLabels
<1>4. ExplicitMode(svc) = svc.deployMode /\ ReplicasOf(svc) = svc.deployReplicas
  BY DEF Placed, ExplicitMode, ReplicasOf
<1>5. StoredLabels(svc.deployLabels) = Flat(svc.deployLabels)
  BY StoredIsFlat DEF Placed, Decl
<1> QED
  BY <1>3, <1>4, <1>5

(* How a document moves the entry of one service. *)
LEMMA EntryKept ==
  ASSUME NEW v \in View, NEW doc \in Document, NEW n, n \notin DOMAIN doc.services
  PROVE  Entry(MergeService(v, doc), n) = Entry(v, n) /\ Entry(MergeGroupService(v, doc), n) = Entry(v, n)
<1> DEFINE x == MergeService(v, doc)
           y == MergeGroupService(v, doc)
<1>1. DOMAIN x = DOMAIN v \cup DOMAIN doc.services /\ DOMAIN y = DOMAIN v \cup DOMAIN doc.services
  BY MergeServiceIs, MergeGroupServiceIs
<1>2. CASE n \notin DOMAIN v
  BY <1>1, <1>2 DEF Entry
<1>3. CASE n \in DOMAIN v
  <2>1. x[n] = Entry(v, n)
    BY <1>3, MergeServiceIs
  <2>2. y[n] = Entry(v, n)
    BY <1>3, MergeGroupServiceIs
  <2>3. Entry(x, n) = x[n] /\ Entry(y, n) = y[n]
    BY <1>1, <1>3 DEF Entry
  <2> QED
    BY <2>1, <2>2, <2>3
<1> QED
  BY <1>2, <1>3

LEMMA EntryMoved ==
  ASSUME NEW v \in View, NEW doc \in Document, NEW n \in DOMAIN doc.services
  PROVE  /\ Entry(MergeService(v, doc), n).labels = Over(ServiceLabels(doc.services[n]), Entry(v, n).labels)
         /\ Entry(MergeService(v, doc), n).global =
              IF ExplicitMode(doc.services[n]) = "" THEN Entry(v, n).global ELSE ExplicitMode(doc.services[n]) = "global"
         /\ Entry(MergeGroupService(v, doc), n).replicas =
              IF ReplicasOf(doc.services[n]) = Unset THEN Entry(v, n).replicas ELSE ReplicasOf(doc.services[n])
<1> DEFINE x == MergeService(v, doc)
           y == MergeGroupService(v, doc)
           e == Entry(v, n)
           svc == doc.services[n]
<1>1. /\ x[n].labels = Over(ServiceLabels(svc), e.labels)
      /\ x[n].global = IF ExplicitMode(svc) = "" THEN e.global ELSE ExplicitMode(svc) = "global"
  BY MergeServiceIs
<1>2. y[n].replicas = IF ReplicasOf(svc) = Unset THEN e.replicas ELSE ReplicasOf(svc)
  BY MergeGroupServiceIs
<1>3. DOMAIN x = DOMAIN v \cup DOMAIN doc.services /\ DOMAIN y = DOMAIN v \cup DOMAIN doc.services
  BY MergeServiceIs, MergeGroupServiceIs
<1>4. Entry(x, n) = x[n] /\ Entry(y, n) = y[n]
  BY <1>3 DEF Entry
<1> HIDE DEF x, y, e, svc
<1>5. /\ Entry(x, n).labels = Over(ServiceLabels(svc), e.labels)
      /\ Entry(x, n).global = IF ExplicitMode(svc) = "" THEN e.global ELSE ExplicitMode(svc) = "global"
      /\ Entry(y, n).replicas = IF ReplicasOf(svc) = Unset THEN e.replicas ELSE ReplicasOf(svc)
  BY <1>1, <1>2, <1>4
<1> QED
  BY <1>5 DEF x, y, e, svc

(* A service whose labels, mode and count stand under deploy, no label bare,  *)
(* in every document of its group, is never misplaced: the properties about  *)
(* ownership and drift hold for it without exception.                        *)
THEOREM PlacedIsNotMisplaced ==
  ASSUME NEW group \in MergeGroup, NEW n \in Deployable(group),
         \A i \in DOMAIN group : n \in DOMAIN group[i].services => Placed(group[i].services[n])
  PROVE  ~Misplaced(group, n)
<1> DEFINE m == Len(group)
           has(i) == n \in DOMAIN group[i].services
           svc(i) == group[i].services[n]
<1>1. group \in Seq(Document)
  BY GroupType
<1>2. /\ m \in Nat /\ DOMAIN group = 1 .. m
      /\ \A i \in 1 .. m : group[i] \in Document /\ (has(i) => svc(i) \in Decl /\ Placed(svc(i)))
  BY <1>1, DocumentType
<1>3. PICK carried \in [0 .. m -> View] :
         /\ carried[0] = NoServices /\ MergeServices(group) = carried[m]
         /\ \A i \in 1 .. m : carried[i] = MergeService(carried[i - 1], group[i])
  BY <1>1, MergeServicesIs
<1>4. PICK desired \in [0 .. m -> View] :
         /\ desired[0] = NoServices /\ MergeGroupServices(group) = desired[m]
         /\ \A i \in 1 .. m : desired[i] = MergeGroupService(desired[i - 1], group[i])
  BY <1>1, MergeGroupServicesIs
<1>5. PICK labels \in [0 .. m -> Labels] :
         /\ labels[0] = NoLabels /\ DeployedLabels(group, n) = labels[m]
         /\ \A i \in 1 .. m : labels[i] = IF has(i) THEN Over(StoredLabels(svc(i).deployLabels), labels[i - 1]) ELSE labels[i - 1]
  BY <1>1, DeployedLabelsIs
<1>6. Misplaced(group, n) =>
        \/ OptedIn(MergeServices(group)[n].labels) # OptedIn(DeployedLabels(group, n))
        \/ \E key \in {"min", "max"} :
             ParseUintLabel(MergeServices(group)[n].labels, key) # ParseUintLabel(DeployedLabels(group, n), key)
        \/ MergeServices(group)[n].global = (DeployedMode(group, n) = "replicated")
        \/ MergeGroupServices(group)[n].replicas \notin {Unset, DeployedCount(group, n)}
  BY DeployedServiceIs DEF Misplaced
<1>7. Entry(carried[m], n) = MergeServices(group)[n] /\ Entry(desired[m], n) = MergeGroupServices(group)[n]
  BY <1>1, <1>3, <1>4, ReadingsAgree DEF Entry
<1>8. Entry(carried[0], n) = NewService /\ Entry(desired[0], n) = NewService
  BY <1>3, <1>4, NewServiceType DEF Entry
<1> DEFINE a(i) == Entry(carried[i], n)
           b(i) == Entry(desired[i], n)
<1>9. ASSUME NEW i \in 1 .. m
      PROVE  /\ a(i).labels = IF has(i) THEN Over(StoredLabels(svc(i).deployLabels), a(i - 1).labels) ELSE a(i - 1).labels
             /\ a(i).global = IF has(i) /\ svc(i).deployMode # "" THEN svc(i).deployMode = "global" ELSE a(i - 1).global
             /\ b(i).replicas = IF has(i) /\ svc(i).deployReplicas # Unset THEN svc(i).deployReplicas
                                ELSE b(i - 1).replicas
  <2>1. i - 1 \in 0 .. m
    BY <1>2
  <2>2. /\ carried[i - 1] \in View /\ carried[i] = MergeService(carried[i - 1], group[i])
        /\ desired[i - 1] \in View /\ desired[i] = MergeGroupService(desired[i - 1], group[i])
    BY <2>1, <1>3, <1>4
  <2> DEFINE v == carried[i - 1]
             w == desired[i - 1]
             doc == group[i]
  <2>3. v \in View /\ w \in View /\ doc \in Document
    BY <2>2, <1>2
  <2>4. a(i) = Entry(MergeService(v, doc), n) /\ b(i) = Entry(MergeGroupService(w, doc), n)
        /\ a(i - 1) = Entry(v, n) /\ b(i - 1) = Entry(w, n)
    BY <2>2
  <2> HIDE DEF v, w, doc, a, b
  <2>5. CASE ~has(i)
    <3>1. n \notin DOMAIN doc.services
      BY <2>5 DEF doc
    <3>2. Entry(MergeService(v, doc), n) = Entry(v, n)
      BY <2>3, <3>1, EntryKept
    <3>3. Entry(MergeGroupService(w, doc), n) = Entry(w, n)
      BY <2>3, <3>1, EntryKept
    <3>4. a(i) = a(i - 1) /\ b(i) = b(i - 1)
      BY <2>4, <3>2, <3>3
    <3> QED
      BY <2>5, <3>4
  <2>6. CASE has(i)
    <3>1. /\ ServiceLabels(svc(i)) = StoredLabels(svc(i).deployLabels)
          /\ ExplicitMode(svc(i)) = svc(i).deployMode /\ ReplicasOf(svc(i)) = svc(i).deployReplicas
      BY <2>6, <1>2, PlacedReadings
    <3>2. n \in DOMAIN doc.services /\ doc.services[n] = svc(i)
      BY <2>6 DEF doc
    <3> HIDE DEF svc
    <3>3. Entry(MergeService(v, doc), n).labels = Over(ServiceLabels(svc(i)), Entry(v, n).labels)
      BY <2>3, <3>2, EntryMoved
    <3>4. LET s == doc.services[n] IN
          /\ Entry(MergeService(v, doc), n).global =
               IF ExplicitMode(s) = "" THEN Entry(v, n).global ELSE ExplicitMode(s) = "global"
          /\ Entry(MergeGroupService(w, doc), n).replicas =
               IF ReplicasOf(s) = Unset THEN Entry(w, n).replicas ELSE ReplicasOf(s)
      BY <2>3, <3>2, EntryMoved
    <3> HIDE DEF has
    <3> QED
      BY <2>4, <2>6, <3>1, <3>2, <3>3, <3>4
  <2> QED
    BY <2>5, <2>6
<1>10. MergeServices(group)[n].labels = DeployedLabels(group, n)
  <2> DEFINE S == {i \in 0 .. m : a(i).labels = labels[i]}
  <2> HIDE DEF m, a, b, svc, has
  <2>1. 0 \in S
    BY <1>2, <1>5, <1>8 DEF NewService, a
  <2>2. ASSUME NEW i \in 0 .. m - 1, i \in S
        PROVE  i + 1 \in S
    <3>1. i + 1 \in 0 .. m /\ i + 1 \in 1 .. m /\ (i + 1) - 1 = i
      BY <1>2
    <3>2. a(i).labels = labels[i]
      BY <2>2
    <3>3. a(i + 1).labels = labels[i + 1]
      BY <3>1, <3>2, <1>5, <1>9
    <3> QED
      BY <3>1, <3>3
  <2>3. 0 .. m \subseteq S
    <3> HIDE DEF S
    <3> QED
      BY <1>2, <2>1, <2>2, UpToInduction
  <2>4. m \in 0 .. m
    BY <1>2
  <2>5. a(m).labels = labels[m]
    BY <2>3, <2>4
  <2> QED
    BY <2>5, <1>5, <1>7 DEF a
<1>11. MergeServices(group)[n].global # (DeployedMode(group, n) = "replicated")
  <2> DEFINE sets == {i \in DOMAIN group : n \in DOMAIN group[i].services /\ group[i].services[n]["deployMode"] # ""}
             val == [i \in 1 .. m |-> svc(i).deployMode = "global"]
             f == [i \in 0 .. m |-> a(i).global]
             last == LastSetting(group, n, "deployMode", "")
  <2>1. last = IF sets = {} THEN 0 ELSE Max(sets)
    BY DEF LastSetting
  <2>2. sets \in SUBSET (1 .. m) /\ \A i \in 1 .. m : i \in sets <=> has(i) /\ svc(i).deployMode # ""
    BY <1>2
  <2>3. DeployedMode(group, n) = IF last = 0 THEN "replicated" ELSE svc(last).deployMode
    BY DEF DeployedMode
  <2>4. last = 0 \/ (last \in 1 .. m /\ has(last) /\ svc(last).deployMode # "")
    <3> DEFINE field == "deployMode"
               unset == ""
               i == LastSetting(group, n, field, unset)
    <3> HIDE DEF field, unset
    <3>1. i = 0 \/ (i \in 1 .. m /\ has(i) /\ svc(i)[field] # unset)
      BY <1>1, LastSettingIs
    <3> QED
      BY <3>1 DEF field, unset
  <2> HIDE DEF m, a, b, svc, has, sets, last
  <2>5. Follows(f, m, sets, val)
    <3>1. \A i \in 1 .. m : i \in 0 .. m /\ i - 1 \in 0 .. m
      BY <1>2
    <3>2. \A i \in 1 .. m : f[i] = a(i).global /\ f[i - 1] = a(i - 1).global /\ val[i] = (svc(i).deployMode = "global")
      BY <3>1
    <3> QED
      BY <3>2, <2>2, <1>9 DEF Follows
  <2>6. 0 \in 0 .. m /\ m \in 0 .. m /\ 0 \notin 1 .. m
    BY <1>2
  <2>7. f[0] = a(0).global /\ f[m] = a(m).global /\ \A i \in 1 .. m : val[i] = (svc(i).deployMode = "global")
    BY <2>6
  <2> HIDE DEF f, val
  <2>8. f[m] = IF sets = {} THEN f[0] ELSE val[Max(sets)]
    <3>1. m \in Nat
      BY <1>2
    <3>2. sets \in SUBSET (1 .. m)
      BY <2>2
    <3> QED
      BY <3>1, <3>2, <2>5, LastWins
  <2>9. CASE last = 0
    <3>1. sets = {}
      <4>1. sets # {} => Max(sets) \in sets
        <5>1. m \in Nat /\ 1 .. m \subseteq 0 .. m
          BY <1>2
        <5>2. sets \subseteq 0 .. m
          BY <2>2, <5>1
        <5> QED
          BY <5>1, <5>2, GreatestIs
      <4> QED
        BY <4>1, <2>1, <2>2, <2>6, <2>9
    <3>2. a(m).global = FALSE
      BY <3>1, <2>7, <2>8, <1>8 DEF NewService, a
    <3> QED
      BY <3>2, <2>3, <2>9, <1>7 DEF a
  <2>10. CASE last # 0
    <3>1. sets # {} /\ Max(sets) = last /\ last \in 1 .. m
      BY <2>1, <2>4, <2>10
    <3>2. a(m).global = (svc(last).deployMode = "global")
      BY <3>1, <2>7, <2>8
    <3>3. svc(last).deployMode \in {"replicated", "global"}
      BY <2>4, <2>10, <1>2 DEF Decl, Mode
    <3> QED
      BY <3>2, <3>3, <2>3, <2>10, <1>7 DEF a
  <2> QED
    BY <2>9, <2>10
<1>12. MergeGroupServices(group)[n].replicas \in {Unset, DeployedCount(group, n)}
  <2> DEFINE sets == {i \in DOMAIN group : n \in DOMAIN group[i].services /\ group[i].services[n]["deployReplicas"] # Unset}
             val == [i \in 1 .. m |-> svc(i).deployReplicas]
             f == [i \in 0 .. m |-> b(i).replicas]
             last == LastSetting(group, n, "deployReplicas", Unset)
  <2>1. last = IF sets = {} THEN 0 ELSE Max(sets)
    BY DEF LastSetting
  <2>2. sets \in SUBSET (1 .. m) /\ \A i \in 1 .. m : i \in sets <=> has(i) /\ svc(i).deployReplicas # Unset
    BY <1>2
  <2>3. DeployedCount(group, n) = IF last = 0 THEN 1 ELSE svc(last).deployReplicas
    BY DEF DeployedCount
  <2> HIDE DEF m, a, b, svc, has, sets, last
  <2>4. Follows(f, m, sets, val)
    <3>1. \A i \in 1 .. m : i \in 0 .. m /\ i - 1 \in 0 .. m
      BY <1>2
    <3>2. \A i \in 1 .. m : f[i] = b(i).replicas /\ f[i - 1] = b(i - 1).replicas /\ val[i] = svc(i).deployReplicas
      BY <3>1
    <3> QED
      BY <3>2, <2>2, <1>9 DEF Follows
  <2>5. 0 \in 0 .. m /\ m \in 0 .. m /\ 0 \notin 1 .. m
    BY <1>2
  <2>6. f[0] = b(0).replicas /\ f[m] = b(m).replicas /\ \A i \in 1 .. m : val[i] = svc(i).deployReplicas
    BY <2>5
  <2> HIDE DEF f, val
  <2>7. f[m] = IF sets = {} THEN f[0] ELSE val[Max(sets)]
    <3>1. m \in Nat
      BY <1>2
    <3>2. sets \in SUBSET (1 .. m)
      BY <2>2
    <3> QED
      BY <3>1, <3>2, <2>4, LastWins
  <2>8. CASE sets = {}
    <3>1. b(m).replicas = Unset
      BY <2>6, <2>7, <2>8, <1>8 DEF NewService, b
    <3> QED
      BY <3>1, <1>7 DEF b
  <2>9. CASE sets # {}
    <3>1. Max(sets) \in sets
      <4>1. m \in Nat /\ 1 .. m \subseteq 0 .. m
        BY <1>2
      <4>2. sets \subseteq 0 .. m
        BY <2>2, <4>1
      <4> QED
        BY <4>1, <4>2, <2>9, GreatestIs
    <3>2. last = Max(sets) /\ last \in 1 .. m /\ last # 0
      BY <3>1, <2>1, <2>2, <2>5, <2>9
    <3>3. b(m).replicas = svc(last).deployReplicas
      BY <3>2, <2>6, <2>7, <2>9
    <3> QED
      BY <3>2, <3>3, <2>3, <1>7 DEF b
  <2> QED
    BY <2>8, <2>9
<1> QED
  BY <1>6, <1>10, <1>11, <1>12

-------------------------------------------------------------------------------
(* Paths.                                                                  *)

(* ".." is a string, which the provers do not see. *)
Name == STRING \cup {".."}

LEMMA CleanStepIs ==
  ASSUME NEW s, NEW x
  PROVE  /\ x \in {"", "."} => CleanStep(s, x) = s
         /\ x = ".." /\ s # <<>> /\ Last(s) \notin {"..", "/"} => CleanStep(s, x) = Front(s)
         /\ x = ".." /\ s # <<>> /\ Last(s) = "/" => CleanStep(s, x) = s
         /\ x = ".." /\ (s = <<>> \/ Last(s) = "..") => CleanStep(s, x) = Append(s, x)
         /\ x = "/" /\ s # <<>> => CleanStep(s, x) = s
         /\ x = "/" /\ s = <<>> => CleanStep(s, x) = Append(s, x)
         /\ x \notin {"", ".", "..", "/"} => CleanStep(s, x) = Append(s, x)
<1>1. x \in {"", "."} => CleanStep(s, x) = s
  BY DEF CleanStep
<1>2. x = ".." /\ s # <<>> /\ Last(s) \notin {"..", "/"} => CleanStep(s, x) = Front(s)
  BY DEF CleanStep
<1>3. x = ".." /\ s # <<>> /\ Last(s) = "/" => CleanStep(s, x) = s
  BY DEF CleanStep
<1>4. x = ".." /\ (s = <<>> \/ Last(s) = "..") => CleanStep(s, x) = Append(s, x)
  BY DEF CleanStep
<1>5. x = "/" /\ s # <<>> => CleanStep(s, x) = s
  BY DEF CleanStep
<1>6. x = "/" /\ s = <<>> => CleanStep(s, x) = Append(s, x)
  BY DEF CleanStep
<1>7. x \notin {"", ".", "..", "/"} => CleanStep(s, x) = Append(s, x)
  BY DEF CleanStep
<1> QED
  BY <1>1, <1>2, <1>3, <1>4, <1>5, <1>6, <1>7

LEMMA CleanStepOneOf ==
  ASSUME NEW s, NEW x
  PROVE  \/ CleanStep(s, x) = s
         \/ CleanStep(s, x) = Front(s) /\ s # <<>> /\ Last(s) \notin {"..", "/"}
         \/ CleanStep(s, x) = Append(s, x) /\ (x = "/" => s = <<>>) /\ x \notin {"", "."} /\ (x = ".." /\ s # <<>> => Last(s) = "..")
<1>1. CASE x \in {"", "."}
  BY <1>1, CleanStepIs
<1>2. CASE x = ".."
  BY <1>2, CleanStepIs
<1>3. CASE x = "/"
  BY <1>3, CleanStepIs
<1>4. CASE x \notin {"", ".", "..", "/"}
  BY <1>4, CleanStepIs
<1> QED
  BY <1>1, <1>2, <1>3, <1>4
LEMMA CleanStepType ==
  ASSUME NEW s \in Seq(Name), NEW x \in Name
  PROVE  CleanStep(s, x) \in Seq(Name)
<1>1. s # <<>> => Front(s) \in Seq(Name)
  BY DEF Front
<1>2. Append(s, x) \in Seq(Name)
  OBVIOUS
<1> HIDE DEF Name
<1> QED
  BY <1>1, <1>2, CleanStepOneOf

(* Clean reads a path name by name; it may start from what it has done. *)
CleanFrom(s, path) ==
  LET done[i \in 0 .. Len(path)] == IF i = 0 THEN s ELSE CleanStep(done[i - 1], path[i])
  IN  done[Len(path)]

LEMMA CleanIsFrom == \A path : Clean(path) = CleanFrom(<<>>, path)
BY DEF Clean, CleanFrom

LEMMA CleanFromIs ==
  ASSUME NEW s \in Seq(Name), NEW path \in Seq(Name)
  PROVE  \E done \in [0 .. Len(path) -> Seq(Name)] :
           /\ done[0] = s /\ CleanFrom(s, path) = done[Len(path)]
           /\ \A i \in 1 .. Len(path) : done[i] = CleanStep(done[i - 1], path[i])
<1> DEFINE m == Len(path)
           V == Seq(Name)
           step == [i \in 1 .. m |-> [v \in V |-> CleanStep(v, path[i])]]
           F[i \in 0 .. m] == IF i = 0 THEN s ELSE CleanStep(F[i - 1], path[i])
<1>1. m \in Nat /\ s \in V /\ \A i \in 1 .. m : path[i] \in Name
  OBVIOUS
<1>2. CleanFrom(s, path) = F[m]
  BY DEF CleanFrom
<1>3. \A v \in V : \A x \in Name : CleanStep(v, x) \in V
  BY CleanStepType
<1> HIDE DEF m, V
<1>4. step \in [1 .. m -> [V -> V]]
  <2>1. \A i \in 1 .. m : [v \in V |-> CleanStep(v, path[i])] \in [V -> V]
    BY <1>1, <1>3
  <2> QED
    BY <2>1
<1>5. \A i \in 1 .. m : \A v \in V : step[i][v] = CleanStep(v, path[i])
  OBVIOUS
<1> HIDE DEF step
<1>6. PICK done \in [0 .. m -> V] : Iterates(done, m, s, step)
  BY <1>1, <1>4, IterationExists
<1>7. done = [i \in 0 .. m |-> IF i = 0 THEN s ELSE step[i][done[i - 1]]]
  BY <1>6 DEF Iterates
<1>8. \A i \in 0 .. m : i # 0 => i \in 1 .. m /\ i - 1 \in 0 .. m
  BY <1>1
<1>9. \A i \in 0 .. m : (IF i = 0 THEN s ELSE step[i][done[i - 1]]) = IF i = 0 THEN s ELSE CleanStep(done[i - 1], path[i])
  BY <1>5, <1>6, <1>8
<1>10. done = [i \in 0 .. m |-> IF i = 0 THEN s ELSE CleanStep(done[i - 1], path[i])]
  BY <1>7, <1>9
<1>11. F = [i \in 0 .. m |-> IF i = 0 THEN s ELSE CleanStep(F[i - 1], path[i])]
  BY <1>10
<1> HIDE DEF F
<1> DEFINE S == {i \in 0 .. m : F[i] = done[i]}
<1>12. \A i \in 0 .. m : /\ F[i] = IF i = 0 THEN s ELSE CleanStep(F[i - 1], path[i])
                         /\ done[i] = IF i = 0 THEN s ELSE CleanStep(done[i - 1], path[i])
  BY <1>10, <1>11
<1>13. 0 \in S
  <2>1. 0 \in 0 .. m
    BY <1>1
  <2> QED
    BY <2>1, <1>12
<1>14. ASSUME NEW i \in 0 .. m - 1, i \in S
       PROVE  i + 1 \in S
  <2>1. i + 1 \in 0 .. m /\ i + 1 # 0 /\ (i + 1) - 1 = i
    BY <1>1
  <2>2. F[i] = done[i]
    BY <1>14
  <2>3. F[i + 1] = CleanStep(F[i], path[i + 1]) /\ done[i + 1] = CleanStep(done[i], path[i + 1])
    BY <2>1, <1>12
  <2> QED
    BY <2>1, <2>2, <2>3
<1>15. 0 .. m \subseteq S
  <2> HIDE DEF S
  <2> QED
    BY <1>1, <1>13, <1>14, UpToInduction
<1>16. F[m] = done[m] /\ done[0] = s
  <2>1. 0 \in 0 .. m /\ m \in 0 .. m
    BY <1>1
  <2> QED
    BY <2>1, <1>12, <1>15
<1>17. \A i \in 1 .. m : done[i] = CleanStep(done[i - 1], path[i])
  <2>1. \A i \in 1 .. m : i \in 0 .. m /\ i # 0
    BY <1>1
  <2> QED
    BY <2>1, <1>12
<1> QED
  BY <1>2, <1>6, <1>16, <1>17 DEF m, V

(* Whatever goes through the same steps ends in the same. *)
LEMMA CleanFromUnique ==
  ASSUME NEW s \in Seq(Name), NEW path \in Seq(Name), NEW g, g[0] = s,
         \A i \in 1 .. Len(path) : g[i] = CleanStep(g[i - 1], path[i])
  PROVE  CleanFrom(s, path) = g[Len(path)]
<1> DEFINE m == Len(path)
<1>1. m \in Nat
  OBVIOUS
<1>2. PICK done \in [0 .. m -> Seq(Name)] :
        /\ done[0] = s /\ CleanFrom(s, path) = done[m]
        /\ \A i \in 1 .. m : done[i] = CleanStep(done[i - 1], path[i])
  BY CleanFromIs
<1> HIDE DEF m
<1>3. \A i \in 1 .. m : g[i] = CleanStep(g[i - 1], path[i])
  BY DEF m
<1> DEFINE S == {i \in 0 .. m : g[i] = done[i]}
<1>4. 0 \in S
  BY <1>1, <1>2
<1>5. ASSUME NEW i \in 0 .. m - 1, i \in S
      PROVE  i + 1 \in S
  <2>1. i + 1 \in 0 .. m /\ i + 1 \in 1 .. m /\ (i + 1) - 1 = i
    BY <1>1
  <2>2. g[i] = done[i]
    BY <1>5
  <2>3. g[i + 1] = done[i + 1]
    BY <2>1, <2>2, <1>2, <1>3
  <2> QED
    BY <2>1, <2>3
<1>6. 0 .. m \subseteq S
  <2> HIDE DEF S
  <2> QED
    BY <1>1, <1>4, <1>5, UpToInduction
<1>7. m \in 0 .. m
  BY <1>1
<1>8. g[m] = done[m]
  BY <1>6, <1>7
<1> QED
  BY <1>2, <1>8 DEF m

LEMMA CleanFromNothing ==
  ASSUME NEW s \in Seq(Name)
  PROVE  CleanFrom(s, <<>>) = s
<1> DEFINE none == <<>>
<1>1. none \in Seq(Name)
  OBVIOUS
<1>2. Len(none) = 0
  OBVIOUS
<1> HIDE DEF none
<1>3. PICK done \in [0 .. Len(none) -> Seq(Name)] :
        /\ done[0] = s /\ CleanFrom(s, none) = done[Len(none)]
        /\ \A i \in 1 .. Len(none) : done[i] = CleanStep(done[i - 1], none[i])
  BY <1>1, CleanFromIs
<1>4. CleanFrom(s, none) = s
  BY <1>2, <1>3
<1> QED
  BY <1>4 DEF none

LEMMA CleanFromAppend ==
  ASSUME NEW s \in Seq(Name), NEW path \in Seq(Name), NEW x \in Name
  PROVE  CleanFrom(s, Append(path, x)) = CleanStep(CleanFrom(s, path), x) /\ CleanFrom(s, path) \in Seq(Name)
<1> DEFINE m == Len(path)
           longer == Append(path, x)
<1>1. m \in Nat /\ longer \in Seq(Name) /\ Len(longer) = m + 1 /\ longer[m + 1] = x /\ \A i \in 1 .. m : longer[i] = path[i]
  OBVIOUS
<1> HIDE DEF longer
<1>2. PICK done \in [0 .. m + 1 -> Seq(Name)] :
        /\ done[0] = s /\ CleanFrom(s, longer) = done[m + 1]
        /\ \A i \in 1 .. m + 1 : done[i] = CleanStep(done[i - 1], longer[i])
  <2>1. longer \in Seq(Name)
    BY <1>1
  <2>2. PICK done \in [0 .. Len(longer) -> Seq(Name)] :
          /\ done[0] = s /\ CleanFrom(s, longer) = done[Len(longer)]
          /\ \A i \in 1 .. Len(longer) : done[i] = CleanStep(done[i - 1], longer[i])
    BY <2>1, CleanFromIs
  <2> QED
    BY <1>1, <2>2
<1>3. \A i \in 1 .. m : i \in 1 .. m + 1
  BY <1>1
<1>4. \A i \in 1 .. m : done[i] = CleanStep(done[i - 1], path[i])
  BY <1>1, <1>2, <1>3
<1>5. CleanFrom(s, path) = done[m]
  BY <1>2, <1>4, CleanFromUnique
<1>6. m + 1 \in 1 .. m + 1 /\ (m + 1) - 1 = m /\ m \in 0 .. m + 1
  BY <1>1
<1>7. done[m + 1] = CleanStep(done[m], x)
  BY <1>1, <1>2, <1>6
<1> QED
  BY <1>2, <1>5, <1>6, <1>7 DEF longer

(* done goes through path name by name. *)
Cleans(done, s, path) ==
  /\ done \in [0 .. Len(path) -> Seq(Name)] /\ done[0] = s
  /\ \A i \in 1 .. Len(path) : done[i] = CleanStep(done[i - 1], path[i])

LEMMA CleansExists ==
  ASSUME NEW s \in Seq(Name), NEW path \in Seq(Name)
  PROVE  \E done : Cleans(done, s, path) /\ CleanFrom(s, path) = done[Len(path)]
<1>1. PICK done \in [0 .. Len(path) -> Seq(Name)] :
           /\ done[0] = s /\ CleanFrom(s, path) = done[Len(path)]
           /\ \A i \in 1 .. Len(path) : done[i] = CleanStep(done[i - 1], path[i])
  BY CleanFromIs
<1>2. Cleans(done, s, path)
  BY <1>1 DEF Cleans
<1> QED
  BY <1>1, <1>2

LEMMA CleanFromType ==
  ASSUME NEW s \in Seq(Name), NEW path \in Seq(Name)
  PROVE  CleanFrom(s, path) \in Seq(Name)
<1>1. PICK done \in [0 .. Len(path) -> Seq(Name)] :
           /\ done[0] = s /\ CleanFrom(s, path) = done[Len(path)]
           /\ \A i \in 1 .. Len(path) : done[i] = CleanStep(done[i - 1], path[i])
  BY CleanFromIs
<1>2. Len(path) \in 0 .. Len(path)
  OBVIOUS
<1> QED
  BY <1>1, <1>2

LEMMA ConcatIs ==
  ASSUME NEW s \in Seq(Name), NEW t \in Seq(Name)
  PROVE  /\ s \o t \in Seq(Name) /\ Len(s \o t) = Len(s) + Len(t)
         /\ \A i \in 1 .. Len(s) : (s \o t)[i] = s[i]
         /\ \A i \in Len(s) + 1 .. Len(s) + Len(t) : (s \o t)[i] = t[i - Len(s)]
OBVIOUS

LEMMA CleanFromConcat ==
  ASSUME NEW s \in Seq(Name), NEW t \in Seq(Name), NEW u \in Seq(Name)
  PROVE  CleanFrom(s, t \o u) = CleanFrom(CleanFrom(s, t), u)
<1> DEFINE m == Len(t)
           n == Len(u)
           tu == t \o u
           mid == CleanFrom(s, t)
<1>1. m \in Nat /\ n \in Nat
  OBVIOUS
<1>2. mid \in Seq(Name)
  BY CleanFromType
<1>3. PICK a : Cleans(a, s, t) /\ mid = a[m]
  BY CleansExists
<1> HIDE DEF mid
<1>4. PICK b : Cleans(b, mid, u) /\ CleanFrom(mid, u) = b[n]
  BY <1>2, CleansExists
<1>5. /\ tu \in Seq(Name) /\ Len(tu) = m + n
      /\ \A i \in 1 .. m : tu[i] = t[i]
      /\ \A i \in m + 1 .. m + n : tu[i] = u[i - m]
  BY ConcatIs
<1>6. tu \in Seq(Name)
  BY <1>5
<1> HIDE DEF tu
<1>7. /\ a[0] = s /\ a[m] = mid /\ b[0] = mid /\ CleanFrom(mid, u) = b[n]
      /\ \A i \in 1 .. m : a[i] = CleanStep(a[i - 1], t[i])
      /\ \A i \in 1 .. n : b[i] = CleanStep(b[i - 1], u[i])
  BY <1>3, <1>4 DEF Cleans
<1> HIDE DEF m, n
<1> DEFINE g == [i \in 0 .. m + n |-> IF i <= m THEN a[i] ELSE b[i - m]]
<1>8. g[0] = s /\ g[m + n] = b[n]
  <2>1. 0 \in 0 .. m + n /\ 0 <= m /\ m + n \in 0 .. m + n
    BY <1>1
  <2>2. g[0] = s
    BY <2>1, <1>7
  <2>3. CASE n = 0
    BY <2>1, <2>3, <1>1, <1>7
  <2>4. CASE n # 0
    <3>1. ~(m + n <= m) /\ (m + n) - m = n
      BY <2>4, <1>1
    <3> QED
      BY <2>1, <2>2, <3>1
  <2> QED
    BY <2>2, <2>3, <2>4
<1>9. ASSUME NEW i \in 1 .. m + n
      PROVE  g[i] = CleanStep(g[i - 1], tu[i])
  <2>0. i \in 0 .. m + n /\ i - 1 \in 0 .. m + n
    BY <1>1
  <2>1. CASE i <= m
    <3>1. i \in 1 .. m /\ i - 1 <= m
      BY <2>1, <1>1
    <3>2. g[i] = a[i] /\ g[i - 1] = a[i - 1]
      BY <2>0, <2>1, <3>1
    <3> QED
      BY <3>1, <3>2, <1>5, <1>7
  <2>2. CASE i = m + 1
    <3>1. 1 \in 1 .. n /\ ~(i <= m) /\ i - 1 <= m /\ i - 1 = m /\ i - m = 1 /\ 1 - 1 = 0 /\ i \in m + 1 .. m + n
      BY <2>2, <1>1
    <3>2. g[i] = b[1] /\ g[i - 1] = a[m]
      BY <2>0, <3>1
    <3>3. tu[i] = u[1]
      BY <3>1, <1>5
    <3>4. b[1] = CleanStep(b[0], u[1])
      BY <3>1, <1>7
    <3> QED
      BY <3>2, <3>3, <3>4, <1>7
  <2>3. CASE i > m + 1
    <3>1. i - m \in 1 .. n /\ ~(i <= m) /\ ~(i - 1 <= m) /\ (i - m) - 1 = (i - 1) - m /\ i \in m + 1 .. m + n
      BY <2>3, <1>1
    <3>2. g[i] = b[i - m] /\ g[i - 1] = b[(i - m) - 1]
      BY <2>0, <3>1
    <3>3. tu[i] = u[i - m]
      BY <3>1, <1>5
    <3>4. b[i - m] = CleanStep(b[(i - m) - 1], u[i - m])
      BY <3>1, <1>7
    <3> QED
      BY <3>2, <3>3, <3>4
  <2> QED
    BY <2>1, <2>2, <2>3, <1>1
<1> HIDE DEF g
<1>10. CleanFrom(s, tu) = g[m + n]
  <2>1. \A i \in 1 .. Len(tu) : g[i] = CleanStep(g[i - 1], tu[i])
    BY <1>5, <1>9
  <2>2. g[0] = s
    BY <1>8
  <2> QED
    BY <2>1, <2>2, <1>5, <1>6, CleanFromUnique
<1> QED
  BY <1>7, <1>8, <1>10 DEF tu, mid, n

-------------------------------------------------------------------------------
Cleaned(s) ==
  \A i \in DOMAIN s : /\ s[i] \notin {"", "."} /\ (s[i] = "/" => i = 1)
                      /\ s[i] = ".." => i = 1 \/ s[i - 1] = ".."
Slashless(s) == \A i \in DOMAIN s : s[i] # "/"
(* What t has of the root and of steps up, s has too. *)
Rooted(t, s) == \A i \in DOMAIN t : t[i] \in {"..", "/"} => i \in DOMAIN s /\ s[i] = t[i]

LEMMA AppendIs ==
  ASSUME NEW s \in Seq(Name), NEW x \in Name
  PROVE  /\ Append(s, x) \in Seq(Name) /\ Len(Append(s, x)) = Len(s) + 1
         /\ DOMAIN Append(s, x) = 1 .. Len(s) + 1 /\ DOMAIN s = 1 .. Len(s) /\ Len(s) \in Nat
         /\ Append(s, x)[Len(s) + 1] = x
         /\ \A i \in 1 .. Len(s) : Append(s, x)[i] = s[i]
OBVIOUS

LEMMA FrontIs ==
  ASSUME NEW s \in Seq(Name), s # <<>>
  PROVE  /\ Front(s) \in Seq(Name) /\ Len(Front(s)) = Len(s) - 1 /\ Len(s) \in Nat \ {0}
         /\ DOMAIN Front(s) = 1 .. Len(s) - 1 /\ DOMAIN s = 1 .. Len(s)
         /\ Last(s) = s[Len(s)] /\ Last(s) \in Name
         /\ \A i \in 1 .. Len(s) - 1 : Front(s)[i] = s[i]
         /\ s = Append(Front(s), Last(s))
<1>1. Len(s) \in Nat \ {0} /\ DOMAIN s = 1 .. Len(s) /\ s[Len(s)] \in Name
  OBVIOUS
<1>2. /\ Front(s) \in Seq(Name) /\ Len(Front(s)) = Len(s) - 1
      /\ DOMAIN Front(s) = 1 .. Len(s) - 1
  BY <1>1 DEF Front
<1>3. \A i \in 1 .. Len(s) - 1 : Front(s)[i] = s[i]
  BY <1>1 DEF Front
<1>4. s = Append(Front(s), Last(s))
  BY <1>1 DEF Front, Last
<1> QED
  BY <1>1, <1>2, <1>3, <1>4 DEF Last

LEMMA FrontAppend ==
  ASSUME NEW s \in Seq(Name), NEW x \in Name
  PROVE  Front(Append(s, x)) = s /\ Last(Append(s, x)) = x /\ Append(s, x) # <<>>
BY DEF Front, Last

LEMMA StepKeeps ==
  ASSUME NEW s \in Seq(Name), NEW x \in Name, NEW t
  PROVE  /\ Cleaned(s) => Cleaned(CleanStep(s, x))
         /\ Slashless(s) /\ x # "/" => Slashless(CleanStep(s, x))
         /\ Rooted(t, s) => Rooted(t, CleanStep(s, x))
<1> DEFINE s2 == CleanStep(s, x)
<1>1. CASE s2 = s
  BY <1>1
<1>2. CASE s2 = Front(s) /\ s # <<>> /\ Last(s) \notin {"..", "/"}
  <2>1. /\ Len(s) \in Nat \ {0} /\ DOMAIN s2 = 1 .. Len(s) - 1 /\ DOMAIN s = 1 .. Len(s)
        /\ s[Len(s)] \notin {"..", "/"} /\ \A i \in 1 .. Len(s) - 1 : s2[i] = s[i]
    BY <1>2, FrontIs
  <2> HIDE DEF s2
  <2>2. \A i \in 1 .. Len(s) - 1 : i \in 1 .. Len(s) /\ (i = 1 \/ i - 1 \in 1 .. Len(s) - 1)
    BY <2>1
  <2>3. \A i \in 1 .. Len(s) : i = Len(s) \/ i \in 1 .. Len(s) - 1
    <3>1. Len(s) \in Nat
      BY <2>1
    <3> QED
      BY <3>1
  <2>4. Cleaned(s) => Cleaned(s2)
    BY <2>1, <2>2 DEF Cleaned
  <2>5. Slashless(s) => Slashless(s2)
    BY <2>1, <2>2 DEF Slashless
  <2>6. Rooted(t, s) => Rooted(t, s2)
    BY <2>1, <2>2, <2>3 DEF Rooted
  <2> QED
    BY <2>4, <2>5, <2>6 DEF s2
<1>3. CASE s2 = Append(s, x) /\ (x = "/" => s = <<>>) /\ x \notin {"", "."} /\ (x = ".." /\ s # <<>> => Last(s) = "..")
  <2>1. /\ Len(s) \in Nat /\ DOMAIN s2 = 1 .. Len(s) + 1 /\ DOMAIN s = 1 .. Len(s)
        /\ s2[Len(s) + 1] = x /\ \A i \in 1 .. Len(s) : s2[i] = s[i]
    <3>1. /\ Len(s) \in Nat /\ DOMAIN Append(s, x) = 1 .. Len(s) + 1 /\ DOMAIN s = 1 .. Len(s)
          /\ Append(s, x)[Len(s) + 1] = x /\ \A i \in 1 .. Len(s) : Append(s, x)[i] = s[i]
      BY AppendIs
    <3>2. s2 = Append(s, x)
      BY <1>3
    <3> HIDE DEF s2
    <3> QED
      BY <3>1, <3>2
  <2>2. s = <<>> => Len(s) = 0
    OBVIOUS
  <2>3. s # <<>> => Len(s) # 0 /\ Last(s) = s[Len(s)]
    BY DEF Last
  <2> HIDE DEF s2
  <2>4. \A i \in 1 .. Len(s) + 1 : \/ i = Len(s) + 1 /\ i - 1 = Len(s)
                                   \/ i \in 1 .. Len(s) /\ (i = 1 \/ i - 1 \in 1 .. Len(s))
    BY <2>1
  <2>5. \A i \in 1 .. Len(s) : i \in 1 .. Len(s) + 1
    BY <2>1
  <2>6. Cleaned(s) => Cleaned(s2)
    <3> SUFFICES ASSUME Cleaned(s), NEW i \in 1 .. Len(s) + 1
                 PROVE  /\ s2[i] \notin {"", "."} /\ (s2[i] = "/" => i = 1)
                        /\ s2[i] = ".." => i = 1 \/ s2[i - 1] = ".."
      BY <2>1 DEF Cleaned
    <3>1. CASE i = Len(s) + 1
      <4>1. s2[i] = x /\ i - 1 = Len(s)
        BY <3>1, <2>1
      <4>2. CASE s = <<>>
        <5>1. i = 1
          BY <4>2, <2>2, <3>1
        <5>2. x \notin {"", "."}
          BY <1>3
        <5> QED
          BY <5>1, <5>2, <4>1
      <4>3. CASE s # <<>>
        <5>1. Len(s) \in 1 .. Len(s)
          BY <4>3, <2>3, <2>1
        <5>2. s2[i - 1] = s[Len(s)]
          BY <5>1, <4>1, <2>1
        <5> QED
          BY <4>1, <4>3, <5>2, <2>3, <1>3
      <4> QED
        BY <4>2, <4>3
    <3>2. CASE i # Len(s) + 1
      BY <3>2, <2>1, <2>4 DEF Cleaned
    <3> QED
      BY <3>1, <3>2
  <2>7. Slashless(s) /\ x # "/" => Slashless(s2)
    BY <2>1, <2>4 DEF Slashless
  <2>8. Rooted(t, s) => Rooted(t, s2)
    BY <2>1, <2>5 DEF Rooted
  <2> QED
    BY <2>6, <2>7, <2>8 DEF s2
<1> QED
  BY <1>1, <1>2, <1>3, CleanStepOneOf

LEMMA CleansKeep ==
  ASSUME NEW s \in Seq(Name), NEW path \in Seq(Name), NEW done, Cleans(done, s, path)
  PROVE  \A i \in 0 .. Len(path) : /\ done[i] \in Seq(Name)
                                   /\ Cleaned(s) => Cleaned(done[i])
                                   /\ Slashless(s) /\ Slashless(path) => Slashless(done[i])
                                   /\ Rooted(s, done[i])
<1> DEFINE m == Len(path)
           Kept(i) == /\ Cleaned(s) => Cleaned(done[i])
                      /\ Slashless(s) /\ Slashless(path) => Slashless(done[i])
                      /\ Rooted(s, done[i])
           S == {i \in 0 .. m : Kept(i)}
<1>1. m \in Nat /\ DOMAIN path = 1 .. m /\ \A i \in 1 .. m : path[i] \in Name
  OBVIOUS
<1>2. /\ done \in [0 .. m -> Seq(Name)] /\ done[0] = s
      /\ \A i \in 1 .. m : done[i] = CleanStep(done[i - 1], path[i])
  BY DEF Cleans
<1>3. Rooted(s, s)
  BY DEF Rooted
<1> HIDE DEF m
<1>4. 0 \in S
  BY <1>1, <1>2, <1>3
<1>5. ASSUME NEW i \in 0 .. m - 1, i \in S
      PROVE  i + 1 \in S
  <2>1. i + 1 \in 0 .. m /\ i + 1 \in 1 .. m /\ (i + 1) - 1 = i /\ i \in 0 .. m
    BY <1>1
  <2>2. Kept(i)
    BY <1>5
  <2>3. done[i] \in Seq(Name) /\ path[i + 1] \in Name /\ done[i + 1] = CleanStep(done[i], path[i + 1])
    BY <2>1, <1>1, <1>2
  <2>4. Slashless(path) => path[i + 1] # "/"
    BY <2>1, <1>1 DEF Slashless
  <2>5. /\ Cleaned(done[i]) => Cleaned(done[i + 1])
        /\ Slashless(done[i]) /\ path[i + 1] # "/" => Slashless(done[i + 1])
        /\ Rooted(s, done[i]) => Rooted(s, done[i + 1])
    BY <2>3, StepKeeps
  <2>6. Kept(i + 1)
    BY <2>2, <2>4, <2>5
  <2> QED
    BY <2>1, <2>6
<1>6. 0 .. m \subseteq S
  <2> HIDE DEF S
  <2> QED
    BY <1>1, <1>4, <1>5, UpToInduction
<1> QED
  BY <1>2, <1>6 DEF m

LEMMA CleanFromKeeps ==
  ASSUME NEW s \in Seq(Name), NEW path \in Seq(Name)
  PROVE  /\ CleanFrom(s, path) \in Seq(Name)
         /\ Cleaned(s) => Cleaned(CleanFrom(s, path))
         /\ Slashless(s) /\ Slashless(path) => Slashless(CleanFrom(s, path))
         /\ Rooted(s, CleanFrom(s, path))
<1>1. PICK done : Cleans(done, s, path) /\ CleanFrom(s, path) = done[Len(path)]
  BY CleansExists
<1>2. Len(path) \in 0 .. Len(path)
  OBVIOUS
<1> QED
  BY <1>1, <1>2, CleansKeep

LEMMA NothingIsClean == <<>> \in Seq(Name) /\ Cleaned(<<>>) /\ Slashless(<<>>)
<1>1. DOMAIN <<>> = {}
  OBVIOUS
<1> QED
  BY <1>1 DEF Cleaned, Slashless

LEMMA OneStepLater ==
  ASSUME NEW s \in Seq(Name), NEW q \in Seq(Name), NEW x \in Name, Cleaned(q), Slashless(q), x # "/"
  PROVE  CleanFrom(s, CleanStep(q, x)) = CleanStep(CleanFrom(s, q), x)
<1>1. CASE x \in {"", "."}
  BY <1>1, CleanStepIs
<1>2. CASE x = ".." /\ q # <<>> /\ Last(q) # ".."
  <2> DEFINE y == Last(q)
             r == CleanFrom(s, Front(q))
  <2>1. Front(q) \in Seq(Name) /\ y \in Name /\ q = Append(Front(q), y) /\ Len(q) \in DOMAIN q /\ y = q[Len(q)]
    BY <1>2, FrontIs
  <2>2. y \notin {"", ".", "..", "/"}
    BY <2>1, <1>2 DEF Cleaned, Slashless
  <2>3. CleanFrom(s, q) = CleanStep(r, y) /\ r \in Seq(Name)
    <3> DEFINE p == Front(q)
    <3>1. p \in Seq(Name)
      BY <2>1
    <3>2. q = Append(p, y) /\ r = CleanFrom(s, p)
      BY <2>1
    <3> HIDE DEF p, y, r
    <3>3. y \in Name
      BY <2>1
    <3>4. CleanFrom(s, Append(p, y)) = CleanStep(CleanFrom(s, p), y) /\ CleanFrom(s, p) \in Seq(Name)
      BY <3>1, <3>3, CleanFromAppend
    <3> QED
      BY <3>2, <3>4
  <2>4. CleanStep(r, y) = Append(r, y)
    BY <2>2, CleanStepIs
  <2> HIDE DEF r, y
  <2>5. Front(Append(r, y)) = r /\ Last(Append(r, y)) = y /\ Append(r, y) # <<>>
    BY <2>1, <2>3, FrontAppend
  <2>6. CleanStep(Append(r, y), x) = r
    <3> DEFINE longer == Append(r, y)
    <3>1. longer # <<>> /\ Last(longer) \notin {"..", "/"} /\ Front(longer) = r
      BY <2>2, <2>5
    <3> HIDE DEF longer
    <3>2. CleanStep(longer, x) = Front(longer)
      BY <1>2, <3>1, CleanStepIs
    <3> QED
      BY <3>1, <3>2 DEF longer
  <2>7. CleanStep(q, x) = Front(q)
    BY <1>2, <2>2, CleanStepIs DEF y
  <2> QED
    BY <2>3, <2>4, <2>6, <2>7 DEF r
<1>3. CASE x = ".." /\ (q = <<>> \/ Last(q) = "..")
  <2>1. CleanStep(q, x) = Append(q, x)
    BY <1>3, CleanStepIs
  <2> QED
    BY <2>1, CleanFromAppend
<1>4. CASE x \notin {"", ".", ".."}
  <2>1. CleanStep(q, x) = Append(q, x)
    BY <1>4, CleanStepIs
  <2> QED
    BY <2>1, CleanFromAppend
<1> QED
  BY <1>1, <1>2, <1>3, <1>4

(* A relative path may be cleaned before it is followed. *)
LEMMA CleanFirst ==
  ASSUME NEW s \in Seq(Name), NEW b \in Seq(Name), Slashless(b)
  PROVE  CleanFrom(s, Clean(b)) = CleanFrom(s, b)
<1> DEFINE m == Len(b)
           none == <<>>
<1>1. m \in Nat /\ DOMAIN b = 1 .. m /\ \A i \in 1 .. m : b[i] \in Name
  OBVIOUS
<1>2. none \in Seq(Name) /\ Cleaned(none) /\ Slashless(none)
  BY NothingIsClean
<1>3. Clean(b) = CleanFrom(none, b)
  BY CleanIsFrom
<1>4. CleanFrom(s, none) = s
  BY CleanFromNothing
<1> HIDE DEF none
<1>5. PICK q : Cleans(q, none, b) /\ CleanFrom(none, b) = q[m]
  BY <1>2, CleansExists
<1>6. \A i \in 0 .. m : q[i] \in Seq(Name) /\ Cleaned(q[i]) /\ Slashless(q[i])
  BY <1>2, <1>5, CleansKeep
<1>7. q[0] = none /\ \A i \in 1 .. m : q[i] = CleanStep(q[i - 1], b[i])
  BY <1>5 DEF Cleans
<1>8. \A i \in 1 .. m : b[i] # "/"
  BY <1>1 DEF Slashless
<1> HIDE DEF m
<1> DEFINE g == [i \in 0 .. m |-> CleanFrom(s, q[i])]
<1>9. g[0] = s /\ g[m] = CleanFrom(s, q[m])
  <2>1. 0 \in 0 .. m /\ m \in 0 .. m
    BY <1>1
  <2> QED
    BY <2>1, <1>4, <1>7
<1>10. ASSUME NEW i \in 1 .. m
       PROVE  g[i] = CleanStep(g[i - 1], b[i])
  <2>1. i \in 0 .. m /\ i - 1 \in 0 .. m
    BY <1>1
  <2>2. g[i] = CleanFrom(s, q[i]) /\ g[i - 1] = CleanFrom(s, q[i - 1])
    BY <2>1
  <2>3. q[i - 1] \in Seq(Name) /\ Cleaned(q[i - 1]) /\ Slashless(q[i - 1]) /\ b[i] \in Name /\ b[i] # "/"
    BY <2>1, <1>1, <1>6, <1>8
  <2>4. CleanFrom(s, CleanStep(q[i - 1], b[i])) = CleanStep(CleanFrom(s, q[i - 1]), b[i])
    BY <2>3, OneStepLater
  <2> QED
    BY <2>2, <2>4, <1>7
<1> HIDE DEF g
<1>11. CleanFrom(s, b) = g[m]
  <2>1. \A i \in 1 .. Len(b) : g[i] = CleanStep(g[i - 1], b[i])
    BY <1>10 DEF m
  <2> QED
    BY <2>1, <1>9, CleanFromUnique DEF m
<1> QED
  BY <1>3, <1>5, <1>9, <1>11

LEMMA StepsUp ==
  ASSUME NEW base \in Seq(Name), NEW n \in 0 .. Len(base),
         \A i \in n + 1 .. Len(base) : base[i] \notin {"..", "/"}
  PROVE  CleanFrom(base, [i \in 1 .. Len(base) - n |-> ".."]) = SubSeq(base, 1, n)
<1> DEFINE m == Len(base) - n
           ups == [i \in 1 .. m |-> ".."]
           g == [k \in 0 .. m |-> SubSeq(base, 1, Len(base) - k)]
<1>1. Len(base) \in Nat /\ n \in Nat /\ m \in Nat /\ Len(base) - m = n
  OBVIOUS
<1>2. ups \in Seq(Name)
  BY <1>1 DEF Name
<1>3. Len(ups) = m
  BY <1>1
<1>4. \A i \in 1 .. m : ups[i] = ".."
  OBVIOUS
<1> HIDE DEF ups
<1>5. g[0] = base /\ g[m] = SubSeq(base, 1, n)
  <2>1. 0 \in 0 .. m /\ m \in 0 .. m /\ Len(base) - 0 = Len(base)
    BY <1>1
  <2>2. SubSeq(base, 1, Len(base)) = base
    OBVIOUS
  <2> QED
    BY <2>1, <2>2, <1>1
<1>6. ASSUME NEW k \in 1 .. m
      PROVE  g[k] = CleanStep(g[k - 1], ups[k])
  <2> DEFINE j == Len(base) - (k - 1)
             t == SubSeq(base, 1, j)
  <2>1. j \in n + 1 .. Len(base) /\ Len(base) - k = j - 1 /\ j \in 1 .. Len(base) /\ k \in 0 .. m /\ k - 1 \in 0 .. m
    BY <1>1
  <2>2. g[k] = SubSeq(base, 1, j - 1) /\ g[k - 1] = t
    BY <2>1
  <2> HIDE DEF j
  <2>3. t \in Seq(Name) /\ Len(t) = j /\ t[j] = base[j]
    BY <2>1
  <2>4. t # <<>> /\ Last(t) = base[j]
    BY <2>1, <2>3 DEF Last
  <2>5. Front(t) = SubSeq(base, 1, j - 1)
    BY <2>1, <2>3 DEF Front
  <2>6. base[j] \notin {"..", "/"}
    BY <2>1
  <2> HIDE DEF t
  <2>7. CleanStep(t, ups[k]) = Front(t)
    BY <2>4, <2>6, <1>4, CleanStepIs
  <2> QED
    BY <2>2, <2>5, <2>7
<1> HIDE DEF g, m
<1>7. CleanFrom(base, ups) = g[m]
  BY <1>2, <1>3, <1>5, <1>6, CleanFromUnique
<1> QED
  BY <1>5, <1>7 DEF ups, m

LEMMA BackDown ==
  ASSUME NEW t \in Seq(Name), Cleaned(t), NEW n \in 0 .. Len(t)
  PROVE  CleanFrom(SubSeq(t, 1, n), SubSeq(t, n + 1, Len(t))) = t
<1> DEFINE m == Len(t) - n
           from == SubSeq(t, 1, n)
           rest == SubSeq(t, n + 1, Len(t))
           g == [k \in 0 .. m |-> SubSeq(t, 1, n + k)]
<1>1. Len(t) \in Nat /\ n \in Nat /\ m \in Nat /\ n + m = Len(t) /\ DOMAIN t = 1 .. Len(t)
  OBVIOUS
<1>2. from \in Seq(Name) /\ Len(from) = n
  OBVIOUS
<1>3. rest \in Seq(Name) /\ Len(rest) = m
  OBVIOUS
<1>4. \A k \in 1 .. m : rest[k] = t[n + k]
  OBVIOUS
<1>5. rest \in Seq(Name)
  BY <1>3
<1> HIDE DEF rest
<1>6. g[0] = from /\ g[m] = t
  <2>1. 0 \in 0 .. m /\ m \in 0 .. m /\ n + 0 = n
    BY <1>1
  <2>2. SubSeq(t, 1, Len(t)) = t
    OBVIOUS
  <2> QED
    BY <2>1, <2>2, <1>1
<1>7. ASSUME NEW k \in 1 .. m
      PROVE  g[k] = CleanStep(g[k - 1], rest[k])
  <2> DEFINE j == n + k
             u == SubSeq(t, 1, j - 1)
             x == t[j]
  <2>1. j \in 1 .. Len(t) /\ n + (k - 1) = j - 1 /\ k \in 0 .. m /\ k - 1 \in 0 .. m /\ j - 1 \in 0 .. Len(t)
    BY <1>1
  <2>2. g[k] = SubSeq(t, 1, j) /\ g[k - 1] = u /\ rest[k] = x
    BY <2>1, <1>4
  <2> HIDE DEF j
  <2>3. u \in Seq(Name) /\ Len(u) = j - 1 /\ x \in Name
    BY <2>1
  <2>4. SubSeq(t, 1, j) = Append(u, x)
    BY <2>1
  <2>5. /\ x \notin {"", "."} /\ (x = "/" => j = 1)
        /\ x = ".." => j = 1 \/ t[j - 1] = ".."
    BY <2>1, <1>1 DEF Cleaned
  <2>6. j = 1 => u = <<>>
    BY <2>1, <2>3
  <2>7. j # 1 => u # <<>> /\ Last(u) = t[j - 1]
    BY <2>1, <2>3 DEF Last
  <2> HIDE DEF u, x
  <2>8. CleanStep(u, x) = Append(u, x)
    BY <2>5, <2>6, <2>7, CleanStepIs
  <2> QED
    BY <2>2, <2>4, <2>8
<1> HIDE DEF g, m, from
<1>8. CleanFrom(from, rest) = g[m]
  BY <1>2, <1>3, <1>5, <1>6, <1>7, CleanFromUnique
<1> QED
  BY <1>6, <1>8 DEF from, rest

LEMMA CleanIsClean ==
  ASSUME NEW t \in Seq(Name), Cleaned(t)
  PROVE  Clean(t) = t
<1>1. 0 \in 0 .. Len(t) /\ 0 + 1 = 1
  OBVIOUS
<1>2. SubSeq(t, 1, 0) = <<>> /\ SubSeq(t, 1, Len(t)) = t
  OBVIOUS
<1>3. CleanFrom(SubSeq(t, 1, 0), SubSeq(t, 0 + 1, Len(t))) = t
  BY <1>1, BackDown
<1> QED
  BY <1>1, <1>2, <1>3, CleanIsFrom

(* The longest prefix of both. *)
LEMMA SharedIs ==
  ASSUME NEW a \in Seq(Name), NEW b \in Seq(Name)
  PROVE  /\ Shared(a, b) \in 0 .. Len(a) /\ Shared(a, b) \in 0 .. Len(b)
         /\ SubSeq(a, 1, Shared(a, b)) = SubSeq(b, 1, Shared(a, b))
         /\ \A m \in 0 .. Len(a) : m <= Len(b) /\ (\A i \in 1 .. m : a[i] = b[i]) => m <= Shared(a, b)
<1> DEFINE least == Min({Len(a), Len(b)})
           T == {n \in 0 .. least : SubSeq(a, 1, n) = SubSeq(b, 1, n)}
<1>1. Len(a) \in Nat /\ Len(b) \in Nat
  OBVIOUS
<1>2. least \in {Len(a), Len(b)} /\ least <= Len(a) /\ least <= Len(b)
  <2>1. \E x \in {Len(a), Len(b)} : \A y \in {Len(a), Len(b)} : x <= y
    BY <1>1
  <2> QED
    BY <2>1 DEF Min
<1>3. Shared(a, b) = Max(T)
  BY DEF Shared
<1> HIDE DEF least
<1>4. least \in Nat
  BY <1>1, <1>2
<1>5. 0 \in T
  <2>1. SubSeq(a, 1, 0) = <<>> /\ SubSeq(b, 1, 0) = <<>>
    OBVIOUS
  <2> QED
    BY <2>1, <1>4
<1>6. T \subseteq 0 .. least /\ T # {}
  BY <1>5
<1>7. Max(T) \in T /\ \A y \in T : Max(T) >= y
  <2> HIDE DEF T
  <2> QED
    BY <1>4, <1>6, GreatestIs
<1>8. Max(T) \in 0 .. least /\ SubSeq(a, 1, Max(T)) = SubSeq(b, 1, Max(T))
  BY <1>7
<1>9. ASSUME NEW m \in 0 .. Len(a), m <= Len(b), \A i \in 1 .. m : a[i] = b[i]
      PROVE  m <= Max(T)
  <2>1. m \in 0 .. least
    BY <1>1, <1>2, <1>9
  <2>2. SubSeq(a, 1, m) = SubSeq(b, 1, m)
    BY <1>1, <1>9
  <2>3. m \in T
    BY <2>1, <2>2
  <2>4. Max(T) >= m /\ Max(T) \in Nat /\ m \in Nat
    BY <2>1, <2>3, <1>7, <1>8, <1>4
  <2> QED
    BY <2>4
<1> HIDE DEF T
<1>10. Max(T) \in 0 .. Len(a) /\ Max(T) \in 0 .. Len(b)
  BY <1>1, <1>2, <1>4, <1>8
<1> QED
  BY <1>3, <1>8, <1>9, <1>10

LEMMA AbsoluteIs ==
  ASSUME NEW s \in Seq(Name)
  PROVE  /\ IsAbs(s) <=> 1 \in DOMAIN s /\ s[1] = "/"
         /\ 1 \in DOMAIN s <=> Len(s) # 0
         /\ Slashless(s) => ~IsAbs(s)
         /\ Cleaned(s) /\ ~IsAbs(s) => Slashless(s)
<1>1. 1 \in DOMAIN s <=> s # <<>>
  OBVIOUS
<1>2. 1 \in DOMAIN s <=> Len(s) # 0
  OBVIOUS
<1>3. IsAbs(s) <=> 1 \in DOMAIN s /\ s[1] = "/"
  BY <1>1 DEF IsAbs
<1>4. Slashless(s) => ~IsAbs(s)
  BY <1>3 DEF Slashless
<1>5. Cleaned(s) /\ ~IsAbs(s) => Slashless(s)
  BY <1>3 DEF Cleaned, Slashless
<1> QED
  BY <1>2, <1>3, <1>4, <1>5

(* Names without "/" lead neither to the root nor away from it. *)
LEMMA AbsoluteKept ==
  ASSUME NEW s \in Seq(Name), Cleaned(s), NEW path \in Seq(Name), Slashless(path)
  PROVE  IsAbs(CleanFrom(s, path)) <=> IsAbs(s)
<1> DEFINE t == CleanFrom(s, path)
<1>1. t \in Seq(Name)
  BY CleanFromKeeps
<1>2. Slashless(s) => Slashless(t)
  BY CleanFromKeeps
<1>3. Rooted(s, t)
  BY CleanFromKeeps
<1> HIDE DEF t
<1>4. IsAbs(s) => IsAbs(t)
  BY <1>1, <1>3, AbsoluteIs DEF Rooted
<1>5. ~IsAbs(s) => ~IsAbs(t)
  BY <1>1, <1>2, AbsoluteIs
<1> QED
  BY <1>4, <1>5 DEF t

(* Join of a base and what leads from it to a target is the target. *)
LEMMA RelLeadsThere ==
  ASSUME NEW base \in Seq(Name), NEW target \in Seq(Name), Cleaned(base), Cleaned(target),
         RelDefined(base, target)
  PROVE  Join(base, Rel(base, target)) = target /\ ~IsAbs(Rel(base, target))
<1> DEFINE n == Shared(base, target)
           ups == [i \in 1 .. Len(base) - n |-> ".."]
           rest == SubSeq(target, n + 1, Len(target))
<1>1. /\ n \in 0 .. Len(base) /\ n \in 0 .. Len(target) /\ SubSeq(base, 1, n) = SubSeq(target, 1, n)
      /\ \A m \in 0 .. Len(base) : m <= Len(target) /\ (\A i \in 1 .. m : base[i] = target[i]) => m <= n
  BY SharedIs
<1>2. Rel(base, target) = ups \o rest
  BY DEF Rel
<1>3. (IsAbs(base) <=> IsAbs(target)) /\ \A i \in n + 1 .. Len(base) : base[i] # ".."
  BY DEF RelDefined
<1> HIDE DEF n
<1>4. Len(base) \in Nat /\ Len(target) \in Nat /\ DOMAIN base = 1 .. Len(base) /\ DOMAIN target = 1 .. Len(target)
  OBVIOUS
<1>5. IsAbs(base) => n >= 1
  <2> SUFFICES ASSUME IsAbs(base)
               PROVE  n >= 1
    OBVIOUS
  <2>1. 1 \in DOMAIN base /\ base[1] = "/" /\ 1 \in DOMAIN target /\ target[1] = "/"
    BY <1>3, AbsoluteIs
  <2>2. 1 \in 0 .. Len(base) /\ 1 <= Len(target)
    BY <2>1, <1>4
  <2>3. \A i \in 1 .. 1 : base[i] = target[i]
    BY <2>1
  <2>4. 1 <= n /\ n \in Nat
    BY <2>2, <2>3, <1>1
  <2> QED
    BY <2>4
<1>6. \A i \in n + 1 .. Len(base) : base[i] \notin {"..", "/"}
  <2> SUFFICES ASSUME NEW i \in n + 1 .. Len(base), base[i] = "/"
               PROVE  FALSE
    BY <1>3
  <2>1. i \in DOMAIN base /\ n < i
    BY <1>1, <1>4
  <2>2. i = 1
    BY <2>1 DEF Cleaned
  <2>3. IsAbs(base)
    BY <2>1, <2>2, AbsoluteIs
  <2> QED
    BY <2>1, <2>2, <2>3, <1>1, <1>5
<1>7. ups \in Seq(Name) /\ \A i \in DOMAIN ups : ups[i] = ".."
  <2>1. Len(base) - n \in Nat
    BY <1>1, <1>4
  <2> QED
    BY <2>1 DEF Name
<1>8. rest \in Seq(Name) /\ DOMAIN rest = 1 .. Len(target) - n
  BY <1>1, <1>4
<1>9. \A i \in 1 .. Len(target) - n : rest[i] = target[n + i] /\ n + i \in DOMAIN target
  BY <1>1, <1>4
<1>10. CleanFrom(base, ups) = SubSeq(base, 1, n)
  BY <1>1, <1>6, StepsUp
<1>11. CleanFrom(SubSeq(target, 1, n), rest) = target
  BY <1>1, BackDown
<1>12. Slashless(rest)
  <2> SUFFICES ASSUME NEW i \in 1 .. Len(target) - n, rest[i] = "/"
               PROVE  FALSE
    BY <1>8 DEF Slashless
  <2>1. target[n + i] = "/" /\ n + i \in DOMAIN target
    BY <1>9
  <2>2. n + i = 1
    BY <2>1 DEF Cleaned
  <2>3. IsAbs(base)
    BY <2>1, <2>2, <1>3, AbsoluteIs
  <2>4. n \in Nat /\ i \in Nat \ {0}
    BY <1>1, <1>4
  <2> QED
    BY <2>2, <2>3, <2>4, <1>5
<1> HIDE DEF ups, rest
<1>13. ups \in Seq(Name)
  BY <1>7
<1>14. rest \in Seq(Name)
  BY <1>8
<1>15. ups \o rest \in Seq(Name)
  BY <1>13, <1>14
<1>16. ~IsAbs(ups \o rest)
  <2>1. Slashless(ups)
    BY <1>7 DEF Slashless
  <2>2. \A i \in DOMAIN (ups \o rest) : \/ i \in DOMAIN ups /\ (ups \o rest)[i] = ups[i]
                                        \/ i - Len(ups) \in DOMAIN rest /\ (ups \o rest)[i] = rest[i - Len(ups)]
    BY <1>13, <1>14
  <2>3. Slashless(ups \o rest)
    BY <2>1, <2>2, <1>12 DEF Slashless
  <2> QED
    BY <2>3, <1>15, AbsoluteIs
<1>17. Join(base, ups \o rest) = target
  <2> DEFINE none == <<>>
             rel == ups \o rest
  <2>1. none \in Seq(Name)
    BY NothingIsClean
  <2>2. Join(base, rel) = CleanFrom(none, base \o rel)
    BY CleanIsFrom DEF Join
  <2>3. CleanFrom(none, base) = base
    BY CleanIsClean, CleanIsFrom
  <2>4. CleanFrom(base, rel) = CleanFrom(CleanFrom(base, ups), rest)
    BY <1>13, <1>14, CleanFromConcat
  <2>5. rel \in Seq(Name)
    BY <1>15
  <2> HIDE DEF none, rel
  <2>6. CleanFrom(none, base \o rel) = CleanFrom(CleanFrom(none, base), rel)
    BY <2>1, <2>5, CleanFromConcat
  <2>7. Join(base, rel) = target
    BY <2>2, <2>3, <2>4, <2>6, <1>1, <1>10, <1>11
  <2> QED
    BY <2>7 DEF rel
<1> QED
  BY <1>2, <1>16, <1>17

(* Join follows the path from where its directory leads. *)
LEMMA JoinIs ==
  ASSUME NEW dir \in Seq(Name), NEW path \in Seq(Name)
  PROVE  /\ Clean(dir) \in Seq(Name) /\ Cleaned(Clean(dir))
         /\ Join(dir, path) = CleanFrom(Clean(dir), path)
         /\ Join(dir, path) \in Seq(Name) /\ Cleaned(Join(dir, path))
<1> DEFINE none == <<>>
<1>1. none \in Seq(Name) /\ Cleaned(none)
  BY NothingIsClean
<1>2. \A p : Clean(p) = CleanFrom(none, p)
  BY CleanIsFrom
<1> HIDE DEF none
<1>3. none \in Seq(Name)
  BY <1>1
<1>4. CleanFrom(none, dir) \in Seq(Name) /\ Cleaned(CleanFrom(none, dir))
  BY <1>1, <1>3, CleanFromKeeps
<1>5. CleanFrom(none, dir \o path) = CleanFrom(CleanFrom(none, dir), path)
  BY <1>3, CleanFromConcat
<1>6. Join(dir, path) = CleanFrom(Clean(dir), path)
  BY <1>2, <1>5 DEF Join
<1>7. Clean(dir) \in Seq(Name) /\ Cleaned(Clean(dir))
  BY <1>2, <1>4
<1>8. CleanFrom(Clean(dir), path) \in Seq(Name) /\ Cleaned(CleanFrom(Clean(dir), path))
  BY <1>7, CleanFromKeeps
<1> QED
  BY <1>6, <1>7, <1>8

(* What decryption and rotation make of a `file:` and what docker/cli makes of *)
(* the rebased one are the same file.                                        *)
LEMMA RebasedIsTheFile ==
  ASSUME NEW w \in Seq(Name), NEW d \in Seq(Name), NEW d1 \in Seq(Name), NEW f \in Seq(Name),
         Slashless(d), Slashless(d1), Slashless(f), f # <<>>,
         \A k \in DOMAIN Join(w, d1) : Join(w, d1)[k] = ".." => k \in DOMAIN Clean(w) /\ Clean(w)[k] = ".."
  PROVE  OpenedByDocker(Join(w, d1), RebaseFile(Join(w, d), Join(w, d1), f)) = Join(w, Join(d, f))
<1> DEFINE top == Clean(w)
           base == Join(w, d1)
           own == Join(w, d)
           target == Join(own, f)
<1>1. top \in Seq(Name) /\ Cleaned(top)
  BY JoinIs
<1>2. base \in Seq(Name) /\ Cleaned(base) /\ base = CleanFrom(top, d1)
  BY JoinIs
<1>3. own \in Seq(Name) /\ Cleaned(own) /\ own = CleanFrom(top, d)
  BY JoinIs
<1>4. \A k \in DOMAIN base : base[k] = ".." => k \in DOMAIN top /\ top[k] = ".."
  OBVIOUS
<1> HIDE DEF top, base, own
<1>5. target \in Seq(Name) /\ Cleaned(target) /\ target = CleanFrom(own, f)
  <2>1. target \in Seq(Name) /\ Cleaned(target) /\ target = CleanFrom(Clean(own), f)
    BY <1>3, JoinIs
  <2> QED
    BY <2>1, <1>3, CleanIsClean
<1> HIDE DEF target
<1>6. IsAbs(base) = IsAbs(target)
  <2>1. IsAbs(base) <=> IsAbs(top)
    BY <1>1, <1>2, AbsoluteKept
  <2>2. IsAbs(own) <=> IsAbs(top)
    BY <1>1, <1>3, AbsoluteKept
  <2>3. IsAbs(target) <=> IsAbs(own)
    BY <1>3, <1>5, AbsoluteKept
  <2>4. IsAbs(base) \in BOOLEAN /\ IsAbs(target) \in BOOLEAN
    BY DEF IsAbs
  <2> QED
    BY <2>1, <2>2, <2>3, <2>4
<1>7. Rooted(top, base) /\ Rooted(top, target)
  <2>1. Rooted(top, base)
    BY <1>1, <1>2, CleanFromKeeps
  <2>2. Rooted(top, own)
    BY <1>1, <1>3, CleanFromKeeps
  <2>3. Rooted(own, target)
    BY <1>3, <1>5, CleanFromKeeps
  <2> QED
    BY <2>1, <2>2, <2>3 DEF Rooted
<1>8. RelDefined(base, target)
  <2> DEFINE n == Shared(base, target)
  <2>1. /\ n \in 0 .. Len(base)
        /\ \A m \in 0 .. Len(base) : m <= Len(target) /\ (\A i \in 1 .. m : base[i] = target[i]) => m <= n
    BY <1>2, <1>5, SharedIs
  <2> HIDE DEF n
  <2>2. /\ Len(base) \in Nat /\ DOMAIN base = 1 .. Len(base) /\ Len(target) \in Nat /\ DOMAIN target = 1 .. Len(target)
        /\ Len(top) \in Nat /\ DOMAIN top = 1 .. Len(top)
    BY <1>1, <1>2, <1>5
  <2>3. ASSUME NEW m \in n + 1 .. Len(base), base[m] = ".."
        PROVE  FALSE
    <3>1. m \in DOMAIN top /\ top[m] = ".." /\ m \in Nat \ {0} /\ n < m
      <4>1. n \in Nat
        BY <2>1
      <4>2. m \in 1 .. Len(base) /\ m \in Nat \ {0} /\ n < m
        BY <4>1, <2>2, <2>3
      <4>3. m \in DOMAIN base
        BY <4>2, <2>2
      <4> QED
        BY <4>2, <4>3, <2>3, <1>4
    <3>2. ASSUME NEW i \in 1 .. m
          PROVE  top[i] = ".."
      <4> DEFINE S == {k \in 0 .. m - 1 : top[m - k] = ".."}
      <4>1. m - 1 \in Nat /\ 0 \in 0 .. m - 1 /\ m - 0 = m
        BY <3>1
      <4>2. 0 \in S
        BY <4>1, <3>1
      <4>3. ASSUME NEW k \in 0 .. (m - 1) - 1, k \in S
            PROVE  k + 1 \in S
        <5>1. k + 1 \in 0 .. m - 1 /\ m - k \in DOMAIN top /\ m - k # 1 /\ (m - k) - 1 = m - (k + 1)
          <6>1. m \in Nat \ {0} /\ m <= Len(top)
            BY <3>1, <2>2
          <6>2. k \in Nat /\ k + 1 <= m - 1
            BY <6>1
          <6>3. m - k \in 1 .. Len(top)
            BY <6>1, <6>2, <2>2
          <6> QED
            BY <6>1, <6>2, <6>3, <2>2
        <5>2. top[m - k] = ".."
          BY <4>3
        <5>3. top[(m - k) - 1] = ".."
          BY <5>1, <5>2, <1>1 DEF Cleaned
        <5> QED
          BY <5>1, <5>3
      <4>4. 0 .. m - 1 \subseteq S
        <5> HIDE DEF S
        <5> QED
          BY <4>1, <4>2, <4>3, UpToInduction
      <4>5. m - i \in 0 .. m - 1 /\ m - (m - i) = i
        BY <3>1
      <4> QED
        BY <4>4, <4>5
    <3>3. \A i \in 1 .. m : i \in DOMAIN top
      BY <3>1, <2>2
    <3>4. \A i \in 1 .. m : i \in DOMAIN base /\ base[i] = ".." /\ i \in DOMAIN target /\ target[i] = ".."
      BY <3>2, <3>3, <1>7 DEF Rooted
    <3>5. m \in 0 .. Len(base) /\ m <= Len(target)
      <4>1. m \in 1 .. m
        BY <3>1
      <4> QED
        BY <4>1, <3>4, <2>2
    <3>6. m <= n
      BY <3>4, <3>5, <2>1
    <3> QED
      BY <3>1, <3>6, <2>1
  <2> QED
    BY <2>3, <1>6 DEF RelDefined, n
<1>9. RebaseFile(own, base, f) = Rel(base, target)
  <2>1. ~IsAbs(f)
    BY AbsoluteIs
  <2> QED
    BY <2>1, <1>8 DEF RebaseFile, target
<1>10. OpenedByDocker(base, Rel(base, target)) = target
  BY <1>2, <1>5, <1>8, RelLeadsThere DEF OpenedByDocker
<1>11. Join(w, Join(d, f)) = target
  <2>1. d \o f \in Seq(Name) /\ Slashless(d \o f)
    <3>1. \A i \in DOMAIN (d \o f) : \/ i \in DOMAIN d /\ (d \o f)[i] = d[i]
                                     \/ i - Len(d) \in DOMAIN f /\ (d \o f)[i] = f[i - Len(d)]
      OBVIOUS
    <3>2. d \o f \in Seq(Name)
      OBVIOUS
    <3> QED
      BY <3>1, <3>2 DEF Slashless
  <2>2. Join(d, f) \in Seq(Name)
    BY JoinIs
  <2>3. Join(w, Join(d, f)) = CleanFrom(top, Join(d, f))
    BY <2>2, JoinIs DEF top
  <2>4. Join(d, f) = Clean(d \o f)
    BY DEF Join
  <2>5. CleanFrom(top, Clean(d \o f)) = CleanFrom(top, d \o f)
    <3> DEFINE df == d \o f
    <3>1. df \in Seq(Name) /\ Slashless(df)
      BY <2>1
    <3> HIDE DEF df
    <3>2. CleanFrom(top, Clean(df)) = CleanFrom(top, df)
      BY <3>1, <1>1, CleanFirst
    <3> QED
      BY <3>2 DEF df
  <2>6. CleanFrom(top, d \o f) = CleanFrom(CleanFrom(top, d), f)
    BY <1>1, CleanFromConcat
  <2> QED
    BY <2>3, <2>4, <2>5, <2>6, <1>3, <1>5
<1> QED
  BY <1>9, <1>10, <1>11 DEF base, own

LEMMA DirectoryIs ==
  ASSUME NEW path \in Seq(STRING), path # <<>>, \A k \in DOMAIN path : path[k] # "/"
  PROVE  Front(path) \in Seq(Name) /\ Slashless(Front(path))
<1>1. path \in Seq(Name)
  BY DEF Name
<1>2. /\ Front(path) \in Seq(Name) /\ DOMAIN Front(path) = 1 .. Len(path) - 1 /\ DOMAIN path = 1 .. Len(path)
      /\ Len(path) \in Nat \ {0} /\ \A i \in 1 .. Len(path) - 1 : Front(path)[i] = path[i]
  BY <1>1, FrontIs
<1>3. \A i \in 1 .. Len(path) - 1 : i \in 1 .. Len(path)
  BY <1>2
<1> QED
  BY <1>2, <1>3 DEF Slashless

(* Wherever the documents and the worktree lie, relative or absolute, docker/cli *)
(* opens the file that decryption (discover.go) wrote and rotation            *)
(* (rotate.go) hashed, once deploy.go has rebased its path.                   *)
THEOREM OneFileEverywhere == StackSpec => []SameFileEverywhere
<1>1. StackInv => SameFileEverywhere
  <2> SUFFICES ASSUME StackTyped, phase = "rendered", NEW w \in Worktree, NEW i \in DOMAIN docs,
                      NEW f \in docs[i].files, ~IsAbs(f)
               PROVE  LET base   == DocDir(w, docs[1].path)
                          opened == OpenedByDocker(base, RebaseFile(DocDir(w, docs[i].path), base, f))
                      IN  /\ opened = ReadFile(w, DiscoverSecretFile(docs[i].path, f))
                          /\ opened = ReadFile(w, RotationRel(docs[i].path, f))
    BY DEF StackInv, SameFileEverywhere
  <2> DEFINE d == Front(docs[i].path)
             d1 == Front(docs[1].path)
  <2>1. docs \in MergeGroup
    BY DEF StackTyped
  <2>2. docs \in Seq(Document) /\ docs # <<>>
    BY <2>1, GroupType
  <2>3. i \in DOMAIN docs /\ 1 \in DOMAIN docs /\ docs[i] \in Document /\ docs[1] \in Document
    <3>1. DOMAIN docs = 1 .. Len(docs) /\ Len(docs) \in Nat /\ Len(docs) # 0
      BY <2>2
    <3>2. 1 \in DOMAIN docs
      BY <3>1
    <3> QED
      BY <3>2, <2>2
  <2>4. docs[i].path \in Seq(STRING) /\ docs[1].path \in Seq(STRING) /\ f \in Seq(STRING)
    BY <2>3 DEF Document
  <2>5. /\ docs[i].path # <<>> /\ \A k \in DOMAIN docs[i].path : docs[i].path[k] # "/"
        /\ docs[1].path # <<>> /\ \A k \in DOMAIN docs[1].path : docs[1].path[k] # "/"
        /\ f # <<>> /\ \A k \in DOMAIN f : f[k] = "/" => k = 1
    BY <2>1, <2>3, PathsOK DEF PathsOK
  <2>6. w \in Seq(STRING)
    BY PathsOK DEF PathsOK
  <2>7. \A k \in DOMAIN Join(w, d1) : Join(w, d1)[k] = ".." => k \in DOMAIN Clean(w) /\ Clean(w)[k] = ".."
    BY <2>1, PathsOK DEF PathsOK, DocDir
  <2>8. d \in Seq(Name) /\ Slashless(d)
    BY <2>4, <2>5, DirectoryIs
  <2>9. d1 \in Seq(Name) /\ Slashless(d1)
    BY <2>4, <2>5, DirectoryIs
  <2>10. w \in Seq(Name) /\ f \in Seq(Name)
    BY <2>4, <2>6 DEF Name
  <2>11. Slashless(f)
    BY <2>5, <2>10, AbsoluteIs DEF Slashless
  <2> HIDE DEF d, d1
  <2>12. OpenedByDocker(Join(w, d1), RebaseFile(Join(w, d), Join(w, d1), f)) = Join(w, Join(d, f))
    BY <2>5, <2>7, <2>8, <2>9, <2>10, <2>11, RebasedIsTheFile
  <2>13. DocDir(w, docs[i].path) = Join(w, d) /\ DocDir(w, docs[1].path) = Join(w, d1)
    BY DEF DocDir, d, d1
  <2>14. /\ ReadFile(w, DiscoverSecretFile(docs[i].path, f)) = Join(w, Join(d, f))
         /\ ReadFile(w, RotationRel(docs[i].path, f)) = Join(w, Join(d, f))
    BY DEF ReadFile, DiscoverSecretFile, RotationRel, d
  <2> QED
    BY <2>12, <2>13, <2>14
<1> QED
  BY <1>1, StackInvHolds, PTL
===============================================================================
