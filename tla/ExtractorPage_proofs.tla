------------------------ MODULE ExtractorPage_proofs ------------------------
(***************************************************************************)
(* Proofs about ExtractorPage and the tree it extends, for any cart: the   *)
(* counter counts the answers still to come whatever their order, the tree *)
(* is ready only when all are there, the options of every node are those   *)
(* last given to it, and the extract button comes back.                    *)
(***************************************************************************)
EXTENDS ExtractorPage, FiniteSetTheorems, TLAPS

(* The inductive invariant: what the page's handlers must keep of the tree *)
(* (TreeInv) and of the options (PageInv).                                 *)
TreeInv == TreeTypeOK /\ RequestsFollow /\ CounterCountsAnswers /\ ReadyWhenAnswered

PageInv ==
    /\ selected \in Nodes /\ custom \in Resolutions \cup {Blank} /\ timers \in Nat
    /\ OptionsInv /\ GlobalIsShown /\ ButtonComesBack

-----------------------------------------------------------------------------
(* Requests.                                                               *)

\* A request is known by its kind and by what it is about.
LEMMA RequestsDiffer ==
    /\ \A i, j : Capabilities(i) = Capabilities(j) => i = j
    /\ \A r, s : DescribeLayer(r) = DescribeLayer(s) => r = s
    /\ \A r, s : Metadata(r) = Metadata(s) => r = s
    /\ \A i, r : Capabilities(i) # DescribeLayer(r) /\ Capabilities(i) # Metadata(r)
    /\ \A r, s : DescribeLayer(r) # Metadata(s)
BY DEF Capabilities, DescribeLayer, Metadata

LEMMA RequestsFinite == IsFiniteSet(TreeRequests)
<1> DEFINE C == {Capabilities(i) : i \in Items}
           D == {DescribeLayer(r) : r \in Records}
           M == {Metadata(r) : r \in Records}
<1>1. IsFiniteSet(C)
  <2> DEFINE f == [i \in Items |-> Capabilities(i)]
  <2>1. f \in Surjection(Items, C)
    BY DEF Surjection
  <2> QED
    BY <2>1, FS_Surjection, CartAssumption
<1>2. IsFiniteSet(D)
  <2> DEFINE f == [r \in Records |-> DescribeLayer(r)]
  <2>1. f \in Surjection(Records, D)
    BY DEF Surjection
  <2> QED
    BY <2>1, FS_Surjection, CartAssumption
<1>3. IsFiniteSet(M)
  <2> DEFINE f == [r \in Records |-> Metadata(r)]
  <2>1. f \in Surjection(Records, M)
    BY DEF Surjection
  <2> QED
    BY <2>1, FS_Surjection, CartAssumption
<1>4. TreeRequests = (C \cup D) \cup M
  BY DEF TreeRequests
<1> HIDE DEF C, D, M
<1> QED
  BY <1>1, <1>2, <1>3, <1>4, FS_Union

LEMMA RequestSets ==
    \A S \in SUBSET TreeRequests :
        IsFiniteSet(S) /\ Cardinality(S) \in Nat /\ (Cardinality(S) = 0 <=> S = {})
<1> SUFFICES ASSUME NEW S \in SUBSET TreeRequests
             PROVE  IsFiniteSet(S) /\ Cardinality(S) \in Nat /\ (Cardinality(S) = 0 <=> S = {})
  OBVIOUS
<1>1. IsFiniteSet(S)
  BY RequestsFinite, FS_Subset
<1> QED
  BY <1>1, FS_CardinalityType, FS_EmptySet

-----------------------------------------------------------------------------
(* The counter.                                                            *)

(* An answer that is counted, and asks for more: the counter follows, and  *)
(* it is 0 only when nothing is waited for.                                *)
LEMMA Counted ==
    ASSUME TreeInv, NEW q \in pending, NEW asks \in SUBSET TreeRequests,
           asks \cap pending = {}, pending' = (pending \ {q}) \cup asks,
           CheckNullCounter(counter + Cardinality(asks))
    PROVE  /\ mask' \in {"none", "shown", "hidden"} /\ counter' \in Int
           /\ pending' \subseteq TreeRequests /\ raised' = raised /\ ready' \in BOOLEAN
           /\ CounterCountsAnswers' /\ ReadyWhenAnswered'
<1> DEFINE a == Cardinality(asks)  p == Cardinality(pending)  w == Cardinality(raised)
<1>1. /\ pending \in SUBSET TreeRequests /\ raised \in SUBSET TreeRequests
      /\ mask \in {"none", "shown", "hidden"} /\ ready \in BOOLEAN
      /\ counter = p + w
  BY DEF TreeInv, TreeTypeOK, CounterCountsAnswers
<1>2. a \in Nat /\ p \in Nat /\ w \in Nat /\ IsFiniteSet(asks) /\ IsFiniteSet(pending)
  BY <1>1, RequestSets
<1>3. pending' \in SUBSET TreeRequests
  BY <1>1
<1>4. Cardinality(pending') = p - 1 + a
  <2> DEFINE others == pending \ {q}
  <2>1. IsFiniteSet(others) /\ Cardinality(others) = p - 1
    BY <1>2, FS_RemoveElement
  <2>2. others \cap asks = {} /\ pending' = others \cup asks
    OBVIOUS
  <2> HIDE DEF others
  <2>3. Cardinality(others \cup asks) =
           Cardinality(others) + Cardinality(asks) - Cardinality(others \cap asks)
    BY <1>2, <2>1, FS_Union
  <2>4. Cardinality(others \cap asks) = 0
    BY <2>2, FS_EmptySet
  <2>5. Cardinality(pending') = Cardinality(others \cup asks)
    BY <2>2
  <2> HIDE DEF p, a
  <2>6. Cardinality(others) = p - 1 /\ Cardinality(asks) = a
    BY <2>1 DEF p, a
  <2> QED
    BY <1>2, <2>3, <2>4, <2>5, <2>6
<1>5. counter' = (counter + a) - 1 /\ raised' = raised
  BY DEF CheckNullCounter
<1>6. CounterCountsAnswers' /\ counter' \in Int
  BY <1>1, <1>2, <1>4, <1>5 DEF CounterCountsAnswers
<1>7. ~ready /\ mask # "hidden"
  BY DEF TreeInv, ReadyWhenAnswered
<1>8. /\ mask' \in {"none", "shown", "hidden"} /\ ready' \in BOOLEAN
      /\ (ready' \/ mask' = "hidden") => counter + a = 1
  BY <1>1, <1>7 DEF CheckNullCounter
<1>9. ReadyWhenAnswered'
  <2> SUFFICES ASSUME ready' \/ mask' = "hidden" PROVE pending' = {}
    BY DEF ReadyWhenAnswered
  <2>1. Cardinality(pending') \in Nat
    BY <1>3, RequestSets
  <2>2. p + w + a = 1
    BY <1>1, <1>8
  <2> HIDE DEF p, w, a
  <2>3. Cardinality(pending') = 0
    BY <1>2, <1>4, <2>1, <2>2
  <2> QED
    BY <1>3, <2>3, RequestSets
<1> QED
  BY <1>3, <1>5, <1>6, <1>8, <1>9

\* The same when nothing more is asked for.
LEMMA CountedLast ==
    ASSUME TreeInv, NEW q \in pending, pending' = pending \ {q}, CheckNullCounter(counter)
    PROVE  /\ mask' \in {"none", "shown", "hidden"} /\ counter' \in Int
           /\ pending' \subseteq TreeRequests /\ raised' = raised /\ ready' \in BOOLEAN
           /\ CounterCountsAnswers' /\ ReadyWhenAnswered'
<1> DEFINE none == {}
<1>1. Cardinality(none) = 0 /\ counter + 0 = counter
  BY FS_EmptySet DEF TreeInv, TreeTypeOK
<1>2. /\ none \in SUBSET TreeRequests /\ none \cap pending = {}
      /\ pending' = (pending \ {q}) \cup none
  OBVIOUS
<1>3. CheckNullCounter(counter + Cardinality(none))
  BY <1>1
<1> HIDE DEF none
<1> QED
  BY <1>2, <1>3, Counted

-----------------------------------------------------------------------------
(* The tree.                                                               *)

\* An answer about record r, which has no node yet, and not about its item.
LEMMA RecordFollows ==
    ASSUME RequestsFollow, NEW r \in Records, NEW q \in {DescribeLayer(r), Metadata(r)},
           q \in pending, pending' = pending \ {q}, raised' = raised,
           \A s \in Records \ {r} : node'[s] = node[s]
    PROVE  RequestsFollow'
<1>1. \A i \in Items : Capabilities(i) \in pending' =>
         \A s \in RecordsOf[i] :
             node'[s] = "absent" /\ DescribeLayer(s) \notin pending' /\ Metadata(s) \notin pending'
  <2> SUFFICES ASSUME NEW i \in Items, Capabilities(i) \in pending, NEW s \in RecordsOf[i]
               PROVE  /\ node'[s] = "absent" /\ DescribeLayer(s) \notin pending'
                      /\ Metadata(s) \notin pending'
    OBVIOUS
  <2>1. s \in Records
    BY CartAssumption
  <2>2. node[s] = "absent" /\ DescribeLayer(s) \notin pending /\ Metadata(s) \notin pending
    BY DEF RequestsFollow
  <2>3. s # r
    BY <2>2
  <2> QED
    BY <2>1, <2>2, <2>3
<1>2. \A s \in Records :
         /\ DescribeLayer(s) \in pending' => node'[s] = "absent" /\ Metadata(s) \notin pending'
         /\ Metadata(s) \in pending' => node'[s] = "absent"
  <2> SUFFICES ASSUME NEW s \in Records
               PROVE  /\ DescribeLayer(s) \in pending' =>
                            node'[s] = "absent" /\ Metadata(s) \notin pending'
                      /\ Metadata(s) \in pending' => node'[s] = "absent"
    OBVIOUS
  <2>1. CASE s = r
    <3>1. DescribeLayer(r) \notin pending' /\ Metadata(r) \notin pending'
      BY DEF RequestsFollow
    <3> QED
      BY <2>1, <3>1
  <2>2. CASE s # r
    BY <2>2 DEF RequestsFollow
  <2> QED
    BY <2>1, <2>2
<1>3. raised' \subseteq {Capabilities(i) : i \in Items} \ pending'
  BY DEF RequestsFollow
<1> QED
  BY <1>1, <1>2, <1>3 DEF RequestsFollow

\* The answer for item i, that gives nodes to records of it or asks for some.
LEMMA ItemFollows ==
    ASSUME RequestsFollow, NEW i \in Items, Capabilities(i) \in pending,
           NEW S \in SUBSET RecordsOf[i], NEW N \in SUBSET RecordsOf[i], S = {} \/ N = {},
           pending' = (pending \ {Capabilities(i)}) \cup {DescribeLayer(r) : r \in S},
           \A s \in Records \ N : node'[s] = node[s],
           raised' \subseteq raised \cup {Capabilities(i)}
    PROVE  RequestsFollow'
<1> USE RequestsDiffer
<1> DEFINE D == {DescribeLayer(r) : r \in S}
<1>1. \A j \in Items : Capabilities(j) \in pending' => j # i /\ Capabilities(j) \in pending
  OBVIOUS
<1>2. \A s : DescribeLayer(s) \in D => s \in S
  OBVIOUS
<1>3. \A s : Metadata(s) \in pending' => Metadata(s) \in pending
  OBVIOUS
<1>4. \A s : DescribeLayer(s) \in pending' => s \in S \/ DescribeLayer(s) \in pending
  BY <1>2
<1>5. \A s \in RecordsOf[i] :
         /\ s \in Records /\ node[s] = "absent"
         /\ DescribeLayer(s) \notin pending /\ Metadata(s) \notin pending
  BY CartAssumption DEF RequestsFollow
<1>6. \A j \in Items : Capabilities(j) \in pending' =>
         \A s \in RecordsOf[j] :
             node'[s] = "absent" /\ DescribeLayer(s) \notin pending' /\ Metadata(s) \notin pending'
  <2> SUFFICES ASSUME NEW j \in Items, Capabilities(j) \in pending', NEW s \in RecordsOf[j]
               PROVE  /\ node'[s] = "absent" /\ DescribeLayer(s) \notin pending'
                      /\ Metadata(s) \notin pending'
    OBVIOUS
  <2>1. s \in Records /\ s \notin RecordsOf[i]
    BY <1>1, CartAssumption
  <2>2. node[s] = "absent" /\ DescribeLayer(s) \notin pending /\ Metadata(s) \notin pending
    BY <1>1 DEF RequestsFollow
  <2> QED
    BY <1>3, <1>4, <2>1, <2>2
<1>7. ASSUME NEW s \in Records
      PROVE  /\ DescribeLayer(s) \in pending' => node'[s] = "absent" /\ Metadata(s) \notin pending'
             /\ Metadata(s) \in pending' => node'[s] = "absent"
  <2>1. CASE s \in RecordsOf[i]
    <3>1. Metadata(s) \notin pending'
      BY <1>3, <1>5, <2>1
    <3>2. DescribeLayer(s) \in pending' => s \in S /\ s \notin N
      BY <1>4, <1>5, <2>1
    <3> QED
      BY <1>5, <2>1, <3>1, <3>2
  <2>2. CASE s \notin RecordsOf[i]
    BY <1>3, <1>4, <2>2 DEF RequestsFollow
  <2> QED
    BY <2>1, <2>2
<1>8. raised' \subseteq {Capabilities(j) : j \in Items} \ pending'
  BY DEF RequestsFollow
<1> QED
  BY <1>6, <1>7, <1>8 DEF RequestsFollow

\* A node that is there stays as it is.
NodesStay == \A r \in Records : node[r] # "absent" => node'[r] = node[r]

LEMMA NodesAppended ==
    ASSUME TreeTypeOK, NEW S \in SUBSET Records, NEW kind \in NodeKinds, AppendNodes(S, kind)
    PROVE  /\ node' \in [Records -> NodeKinds] /\ checked' \subseteq Records
           /\ \A s \in Records \ S : node'[s] = node[s]
BY DEF TreeTypeOK, AppendNodes

\* Options do not change when the tree grows.
LEMMA PageStays ==
    ASSUME TreeInv, PageInv, NodesStay,
           UNCHANGED <<page, resolution, combo, button, wanted>>
    PROVE  PageInv'
<1>1. UNCHANGED <<selected, custom, timers>>
  BY DEF page, options, jobs
<1>2. selected # Global => selected \in Records /\ node[selected] # "absent"
                           /\ node'[selected] = node[selected]
  BY DEF PageInv, OptionsInv, Nodes, NodesStay
<1>3. OptionsInv'
  BY <1>1, <1>2 DEF PageInv, OptionsInv, HasSource
<1> QED
  BY <1>1, <1>3 DEF PageInv, GlobalIsShown, ButtonComesBack

\* An answer about a record, whatever it says: its node comes with it at most.
LEMMA RecordAnswered ==
    ASSUME TreeInv, NEW r \in Records, NEW q \in {DescribeLayer(r), Metadata(r)},
           q \in pending, pending' = pending \ {q}, CheckNullCounter(counter),
           node' \in [Records -> NodeKinds], checked' \subseteq Records,
           \A s \in Records \ {r} : node'[s] = node[s],
           resolution' \in [Nodes -> Resolutions \cup {Blank}],
           combo' \in Resolutions \cup {Blank}, button' \in BOOLEAN,
           wanted' \in [Nodes -> Resolutions \cup {Blank}]
    PROVE  TreeInv' /\ NodesStay
<1>1. /\ mask' \in {"none", "shown", "hidden"} /\ counter' \in Int
      /\ pending' \subseteq TreeRequests /\ raised' = raised /\ ready' \in BOOLEAN
      /\ CounterCountsAnswers' /\ ReadyWhenAnswered'
  BY CountedLast
<1>2. RequestsFollow'
  BY <1>1, RecordFollows DEF TreeInv
<1>3. TreeTypeOK'
  BY <1>1 DEF TreeInv, TreeTypeOK
<1>4. node[r] = "absent"
  BY DEF TreeInv, RequestsFollow
<1>5. NodesStay
  BY <1>4 DEF NodesStay
<1> QED
  BY <1>1, <1>2, <1>3, <1>5 DEF TreeInv

\* Answers about a record that leave the options alone.
LEMMA DescribedInv ==
    ASSUME TreeInv, PageInv, UNCHANGED page, NEW r \in Records,
           DescribedUseless(r) \/ DescribeFailed(r) \/ DescribedSource(r)
             \/ MetadataUseless(r) \/ MetadataNotXml(r)
    PROVE  TreeInv' /\ PageInv'
<1>1. PICK q \in {DescribeLayer(r), Metadata(r)} :
         q \in pending /\ pending' = pending \ {q}
  BY DEF DescribedUseless, DescribeFailed, DescribedSource, MetadataUseless, MetadataNotXml
<1>2. CheckNullCounter(counter) /\ UNCHANGED <<resolution, combo, button, wanted>>
  BY DEF DescribedUseless, DescribeFailed, DescribedSource, MetadataUseless, MetadataNotXml
<1>3. (\E kind \in NodeKinds : AppendNodes({r}, kind)) \/ UNCHANGED <<node, checked>>
  BY DEF DescribedUseless, DescribeFailed, DescribedSource, MetadataUseless, MetadataNotXml,
         NodeKinds
<1>4. /\ node' \in [Records -> NodeKinds] /\ checked' \subseteq Records
      /\ \A s \in Records \ {r} : node'[s] = node[s]
  <2>1. CASE UNCHANGED <<node, checked>>
    BY <2>1 DEF TreeInv, TreeTypeOK
  <2>2. ASSUME NEW kind \in NodeKinds, AppendNodes({r}, kind)
        PROVE  /\ node' \in [Records -> NodeKinds] /\ checked' \subseteq Records
               /\ \A s \in Records \ {r} : node'[s] = node[s]
    <3>1. {r} \in SUBSET Records
      OBVIOUS
    <3> QED
      BY <2>2, <3>1, NodesAppended DEF TreeInv
  <2> QED
    BY <1>3, <2>1, <2>2
<1>5. TreeInv' /\ NodesStay
  BY <1>1, <1>2, <1>4, RecordAnswered DEF TreeInv, TreeTypeOK
<1> QED
  BY <1>2, <1>5, PageStays

\* The metadata's resolution goes to the layer, and to the cart if it is lower.
LEMMA MetadataReadInv ==
    ASSUME TreeInv, PageInv, UNCHANGED page, NEW r \in Records, NEW v \in Resolutions,
           MetadataRead(r, v)
    PROVE  TreeInv' /\ PageInv'
<1> DEFINE lower == v < combo
           given == IF lower THEN {r, Global} ELSE {r}
<1>1. /\ Metadata(r) \in pending /\ pending' = pending \ {Metadata(r)}
      /\ CheckNullCounter(counter) /\ AppendNodes({r}, "raster")
      /\ resolution' = [n \in Nodes |-> IF n \in given THEN v ELSE resolution[n]]
      /\ wanted' = [n \in Nodes |-> IF n \in given THEN v ELSE wanted[n]]
      /\ combo' = IF lower THEN v ELSE combo
      /\ button' = (lower \/ button)
  BY DEF MetadataRead
<1>2. lower \in BOOLEAN /\ r \in given /\ (Global \in given <=> lower)
      /\ \A n \in Nodes : n \in given => n = r \/ n = Global
  BY CartAssumption
<1>3. r \in Nodes /\ Global \in Nodes /\ r # Global /\ v # Blank
  BY CartAssumption DEF Nodes, Resolutions, Blank
<1> HIDE DEF lower, given
<1>4. /\ node' \in [Records -> NodeKinds] /\ checked' \subseteq Records
      /\ \A s \in Records \ {r} : node'[s] = node[s]
  <2>1. {r} \in SUBSET Records /\ "raster" \in NodeKinds
    BY DEF NodeKinds
  <2> QED
    BY <1>1, <2>1, NodesAppended DEF TreeInv
<1>5. /\ resolution' \in [Nodes -> Resolutions \cup {Blank}]
      /\ wanted' \in [Nodes -> Resolutions \cup {Blank}]
  BY <1>1 DEF TreeInv, TreeTypeOK
<1>6. combo' \in Resolutions \cup {Blank} /\ button' \in BOOLEAN
  BY <1>1, <1>2 DEF TreeInv, TreeTypeOK
<1>7. TreeInv' /\ NodesStay
  BY <1>1, <1>4, <1>5, <1>6, RecordAnswered
<1>8. UNCHANGED <<selected, custom, timers>>
  BY DEF page, options, jobs
<1>9. selected # r
  BY <1>1, <1>3 DEF TreeInv, RequestsFollow, PageInv, OptionsInv
<1>10. selected # Global => selected \in Records /\ node'[selected] = node[selected]
  BY <1>7 DEF PageInv, OptionsInv, Nodes, NodesStay
<1>11. GlobalIsShown'
  BY <1>1, <1>2, <1>3, <1>8 DEF PageInv, GlobalIsShown
<1>12. ButtonComesBack'
  BY <1>1, <1>8 DEF PageInv, ButtonComesBack
<1>13. OptionsInv'
  <2>1. wanted'[Global] = combo'
    BY <1>1, <1>2, <1>3 DEF PageInv, OptionsInv
  <2>2. \A s \in Records \ {selected} : wanted'[s] = resolution'[s]
    BY <1>1, <1>2, CartAssumption DEF PageInv, OptionsInv, Nodes
  <2>3. selected # Global /\ HasSource(selected)' => wanted'[selected] = custom
    <3> SUFFICES ASSUME selected # Global, HasSource(selected)' PROVE wanted'[selected] = custom
      OBVIOUS
    <3>1. wanted[selected] = custom
      BY <1>8, <1>10 DEF PageInv, OptionsInv, HasSource
    <3>2. selected \in Nodes /\ selected \notin given
      BY <1>2, <1>9 DEF PageInv
    <3> QED
      BY <1>1, <3>1, <3>2
  <2>4. selected # Global => node'[selected] \in {"raster", "vector", "error"}
    BY <1>10 DEF PageInv, OptionsInv
  <2> QED
    BY <1>8, <2>1, <2>2, <2>3, <2>4 DEF OptionsInv
<1> QED
  BY <1>7, <1>8, <1>11, <1>12, <1>13 DEF PageInv

\* The request of the metadata is counted when the description is.
LEMMA WithMetadataInv ==
    ASSUME TreeInv, PageInv, UNCHANGED page, NEW r \in Records, DescribedWithMetadata(r)
    PROVE  TreeInv' /\ PageInv'
<1> DEFINE q == DescribeLayer(r)  m == Metadata(r)
<1>1. /\ q \in pending /\ pending' = (pending \ {q}) \cup {m}
      /\ CheckNullCounter(counter + 1)
      /\ UNCHANGED <<node, checked, resolution, combo, button, wanted>>
  BY DEF DescribedWithMetadata
<1>2. m \in TreeRequests /\ m \notin pending
  BY <1>1 DEF TreeRequests, TreeInv, RequestsFollow
<1>3. Cardinality({m}) = 1
  BY FS_Singleton
<1>4. \A i \in Items : Capabilities(i) \in pending => r \notin RecordsOf[i]
  BY <1>1 DEF TreeInv, RequestsFollow
<1>5. /\ \A i : Capabilities(i) # m
      /\ \A s : DescribeLayer(s) # m
      /\ \A s : Metadata(s) = m => s = r
      /\ \A s : DescribeLayer(s) = q => s = r
  BY RequestsDiffer
<1> HIDE DEF q, m
<1>6. /\ mask' \in {"none", "shown", "hidden"} /\ counter' \in Int
      /\ pending' \subseteq TreeRequests /\ raised' = raised /\ ready' \in BOOLEAN
      /\ CounterCountsAnswers' /\ ReadyWhenAnswered'
  <2> DEFINE asks == {m}
  <2>1. asks \in SUBSET TreeRequests /\ asks \cap pending = {}
        /\ pending' = (pending \ {q}) \cup asks
        /\ CheckNullCounter(counter + Cardinality(asks))
    BY <1>1, <1>2, <1>3
  <2> HIDE DEF asks
  <2> QED
    BY <1>1, <2>1, Counted
<1>7. RequestsFollow'
  <2>1. ASSUME NEW i \in Items, Capabilities(i) \in pending', NEW s \in RecordsOf[i]
        PROVE  /\ node'[s] = "absent" /\ DescribeLayer(s) \notin pending'
               /\ Metadata(s) \notin pending'
    <3>1. Capabilities(i) \in pending
      BY <1>1, <1>5, <2>1
    <3>2. s # r /\ s \in Records
      BY <1>4, <3>1, CartAssumption
    <3> QED
      BY <1>1, <1>5, <3>1, <3>2 DEF TreeInv, RequestsFollow
  <2>2. ASSUME NEW s \in Records
        PROVE  /\ DescribeLayer(s) \in pending' => node'[s] = "absent" /\ Metadata(s) \notin pending'
               /\ Metadata(s) \in pending' => node'[s] = "absent"
    <3>1. DescribeLayer(s) \in pending' => DescribeLayer(s) \in pending /\ s # r
      BY <1>1, <1>5 DEF q
    <3>2. Metadata(s) \in pending' => s = r \/ Metadata(s) \in pending
      BY <1>1, <1>5
    <3>3. node[r] = "absent"
      BY <1>1 DEF TreeInv, RequestsFollow, q
    <3> QED
      BY <1>1, <3>1, <3>2, <3>3 DEF TreeInv, RequestsFollow
  <2>3. raised' \subseteq {Capabilities(i) : i \in Items} \ pending'
    BY <1>1, <1>5, <1>6 DEF TreeInv, RequestsFollow
  <2> QED
    BY <2>1, <2>2, <2>3 DEF RequestsFollow
<1>8. TreeTypeOK'
  BY <1>1, <1>6 DEF TreeInv, TreeTypeOK
<1>9. NodesStay
  BY <1>1 DEF NodesStay
<1> QED
  BY <1>1, <1>6, <1>7, <1>8, <1>9, PageStays DEF TreeInv

\* The capabilities of an item give nodes to some of its records, or ask about some.
LEMMA CapabilitiesReadInv ==
    ASSUME TreeInv, PageInv, UNCHANGED page, NEW i \in Items, NEW S \in SUBSET RecordsOf[i],
           CapabilitiesRead(i, S)
    PROVE  TreeInv' /\ PageInv'
<1> DEFINE q == Capabilities(i)
           given == IF S = {} /\ i \notin Services THEN RecordsOf[i]
                    ELSE IF i \in WfsItems THEN S ELSE {}
           described == IF i \in WfsItems THEN {} ELSE S
           asks == {DescribeLayer(r) : r \in described}
<1>1. q \in pending /\ UNCHANGED <<resolution, combo, button, wanted>>
  BY DEF CapabilitiesRead
<1>2. given \in SUBSET RecordsOf[i] /\ described \in SUBSET RecordsOf[i]
      /\ (described = {} \/ given = {}) /\ RecordsOf[i] \in SUBSET Records
  BY CartAssumption
<1>3. CheckNullCounter(counter + Cardinality(asks)) /\ pending' = (pending \ {q}) \cup asks
  <2>1. CASE i \in WfsItems
    <3>1. asks = {}
      BY <2>1
    <3>4. Cardinality(asks) = 0
      BY <3>1, FS_EmptySet
    <3>2. counter + Cardinality(asks) = counter
      BY <3>4 DEF TreeInv, TreeTypeOK
    <3>3. pending' = pending \ {q} /\ CheckNullCounter(counter)
      BY <2>1 DEF CapabilitiesRead
    <3> QED
      BY <3>1, <3>2, <3>3
  <2>2. CASE i \notin WfsItems
    BY <2>2 DEF CapabilitiesRead
  <2> QED
    BY <2>1, <2>2
<1>4. (\E kind \in NodeKinds : AppendNodes(given, kind))
        \/ (given = {} /\ UNCHANGED <<node, checked>>)
  BY DEF CapabilitiesRead, NodeKinds
<1>5. \A r \in RecordsOf[i] : node[r] = "absent" /\ DescribeLayer(r) \notin pending
  BY <1>1 DEF TreeInv, RequestsFollow
<1>6. asks \in SUBSET TreeRequests /\ asks \cap pending = {}
  BY <1>2, <1>5 DEF TreeRequests
<1> HIDE DEF given, described
<1>7. /\ node' \in [Records -> NodeKinds] /\ checked' \subseteq Records
      /\ \A s \in Records \ given : node'[s] = node[s]
  <2>1. given \in SUBSET Records
    BY <1>2
  <2> QED
    BY <1>4, <2>1, NodesAppended DEF TreeInv, TreeTypeOK
<1> HIDE DEF asks
<1>8. /\ mask' \in {"none", "shown", "hidden"} /\ counter' \in Int
      /\ pending' \subseteq TreeRequests /\ raised' = raised /\ ready' \in BOOLEAN
      /\ CounterCountsAnswers' /\ ReadyWhenAnswered'
  BY <1>1, <1>3, <1>6, Counted
<1>9. RequestsFollow'
  <2>1. pending' = (pending \ {q}) \cup {DescribeLayer(r) : r \in described}
    BY <1>3 DEF asks
  <2> QED
    BY <1>1, <1>2, <1>7, <1>8, <2>1, ItemFollows DEF TreeInv
<1>10. TreeTypeOK'
  BY <1>1, <1>7, <1>8 DEF TreeInv, TreeTypeOK
<1>11. NodesStay
  BY <1>2, <1>5, <1>7 DEF NodesStay
<1> QED
  BY <1>1, <1>8, <1>9, <1>10, <1>11, PageStays DEF TreeInv

\* A failure is counted, or its handler raises and the counter keeps it.
LEMMA CapabilitiesFailedInv ==
    ASSUME TreeInv, PageInv, UNCHANGED page, NEW i \in Items, CapabilitiesFailed(i)
    PROVE  TreeInv' /\ PageInv'
<1> DEFINE q == Capabilities(i)
<1>1. /\ q \in pending /\ pending' = pending \ {q}
      /\ UNCHANGED <<node, checked, resolution, combo, button, wanted>>
  BY DEF CapabilitiesFailed
<1>2. /\ pending \in SUBSET TreeRequests /\ raised \in SUBSET TreeRequests
      /\ q \in TreeRequests /\ q \notin raised
  BY <1>1 DEF TreeInv, TreeTypeOK, RequestsFollow
<1>3. /\ mask' \in {"none", "shown", "hidden"} /\ counter' \in Int
      /\ pending' \subseteq TreeRequests /\ raised' \subseteq TreeRequests /\ ready' \in BOOLEAN
      /\ raised' \subseteq raised \cup {q}
      /\ CounterCountsAnswers' /\ ReadyWhenAnswered'
  <2>1. CASE Services = {}
    <3>1. raised' = raised \cup {q} /\ UNCHANGED <<mask, counter, ready>>
      BY <2>1 DEF CapabilitiesFailed
    <3>2. Cardinality(pending') = Cardinality(pending) - 1
      BY <1>1, <1>2, RequestSets, FS_RemoveElement
    <3>3. Cardinality(raised') = Cardinality(raised) + 1
      BY <1>2, <3>1, RequestSets, FS_AddElement
    <3>4. Cardinality(pending) \in Nat /\ Cardinality(raised) \in Nat
      BY <1>2, RequestSets
    <3>5. CounterCountsAnswers'
      BY <3>1, <3>2, <3>3, <3>4 DEF TreeInv, CounterCountsAnswers
    <3>6. ReadyWhenAnswered'
      BY <1>1, <3>1 DEF TreeInv, ReadyWhenAnswered
    <3> QED
      BY <1>1, <1>2, <3>1, <3>5, <3>6 DEF TreeInv, TreeTypeOK
  <2>2. CASE Services # {}
    <3>1. CheckNullCounter(counter)
      BY <2>2 DEF CapabilitiesFailed
    <3> QED
      BY <1>1, <1>2, <3>1, CountedLast
  <2> QED
    BY <2>1, <2>2
<1>4. RequestsFollow'
  <2> DEFINE nothing == {}
  <2>1. nothing \in SUBSET RecordsOf[i]
        /\ pending' = (pending \ {q}) \cup {DescribeLayer(r) : r \in nothing}
        /\ \A s \in Records \ nothing : node'[s] = node[s]
    BY <1>1
  <2> QED
    BY <1>1, <1>3, <2>1, ItemFollows DEF TreeInv
<1>5. TreeTypeOK'
  BY <1>1, <1>3 DEF TreeInv, TreeTypeOK
<1>6. NodesStay
  BY <1>1 DEF NodesStay
<1> QED
  BY <1>1, <1>3, <1>4, <1>5, <1>6, PageStays DEF TreeInv

LEMMA TreeStepInv == ASSUME TreeInv, PageInv, TreeStep PROVE TreeInv' /\ PageInv'
<1>1. UNCHANGED page
  BY DEF TreeStep
<1>2. CASE ShowMask
  <2>1. /\ mask' = "shown"
        /\ UNCHANGED <<counter, pending, raised, ready, node, checked, resolution, combo,
                       button, wanted>>
    BY <1>2 DEF ShowMask
  <2>2. TreeInv'
    BY <2>1 DEF TreeInv, TreeTypeOK, RequestsFollow, CounterCountsAnswers, ReadyWhenAnswered
  <2> QED
    BY <1>1, <2>1, <2>2, PageStays DEF NodesStay
<1>3. ASSUME NEW i \in Items, CapabilitiesAnswered(i) PROVE TreeInv' /\ PageInv'
  BY <1>1, <1>3, CapabilitiesReadInv, CapabilitiesFailedInv DEF CapabilitiesAnswered
<1>4. ASSUME NEW r \in Records, DescribeAnswered(r) PROVE TreeInv' /\ PageInv'
  BY <1>1, <1>4, DescribedInv, WithMetadataInv DEF DescribeAnswered
<1>5. ASSUME NEW r \in Records, MetadataAnswered(r) PROVE TreeInv' /\ PageInv'
  BY <1>1, <1>5, DescribedInv, MetadataReadInv DEF MetadataAnswered
<1> QED
  BY <1>2, <1>3, <1>4, <1>5 DEF TreeStep, TreeNext

-----------------------------------------------------------------------------
(* The page.                                                               *)

\* The first state: a request for every item, the options of the cart shown.
LEMMA InitInv == Init => TreeInv /\ PageInv
<1> SUFFICES ASSUME Init PROVE TreeInv /\ PageInv
  OBVIOUS
<1> USE DEF Init, TreeInit
<1>1. TreeTypeOK
  <2>1. counter \in Int
    BY CartAssumption, FS_CardinalityType
  <2>2. pending \subseteq TreeRequests /\ raised \subseteq TreeRequests
    BY DEF TreeRequests
  <2>3. node \in [Records -> NodeKinds] /\ checked \subseteq Records
    BY DEF NodeKinds
  <2>4. MaxResolution \in Resolutions
    BY CartAssumption DEF Resolutions
  <2>5. /\ resolution \in [Nodes -> Resolutions \cup {Blank}]
        /\ wanted \in [Nodes -> Resolutions \cup {Blank}]
        /\ combo \in Resolutions \cup {Blank} /\ button \in BOOLEAN
    BY <2>4
  <2> QED
    BY <2>1, <2>2, <2>3, <2>5 DEF TreeTypeOK
<1>2. RequestsFollow
  BY RequestsDiffer, CartAssumption DEF RequestsFollow
<1>3. CounterCountsAnswers
  <2> DEFINE C == {Capabilities(i) : i \in Items}
             f == [i \in Items |-> Capabilities(i)]
  <2>1. f \in Surjection(Items, C)
    BY DEF Surjection
  <2>2. f \in Injection(Items, C)
    BY RequestsDiffer DEF Injection, IsInjective
  <2>3. Cardinality(C) = Cardinality(Items)
    BY <2>1, <2>2, FS_Surjection, CartAssumption
  <2>4. Cardinality(raised) = 0 /\ Cardinality(Items) \in Nat
    BY FS_EmptySet, FS_CardinalityType, CartAssumption
  <2> QED
    BY <2>3, <2>4 DEF CounterCountsAnswers
<1>4. ReadyWhenAnswered
  BY DEF ReadyWhenAnswered
<1>5. PageInv
  BY CartAssumption
  DEF PageInv, OptionsInv, GlobalIsShown, ButtonComesBack, Nodes, Resolutions, Blank, HasSource
<1> QED
  BY <1>1, <1>2, <1>3, <1>4, <1>5 DEF TreeInv

\* The tree does not change when a user only ticks, edits or selects.
LEMMA TreeKept ==
    ASSUME TreeInv, UNCHANGED <<loading, node>>, checked' \subseteq Records,
           resolution' \in [Nodes -> Resolutions \cup {Blank}],
           combo' \in Resolutions \cup {Blank}, button' \in BOOLEAN,
           wanted' \in [Nodes -> Resolutions \cup {Blank}]
    PROVE  TreeInv'
BY DEF TreeInv, TreeTypeOK, RequestsFollow, CounterCountsAnswers, ReadyWhenAnswered, loading

\* What the panel shows is a resolution, and goes to the selected node only.
LEMMA SavedNodes ==
    ASSUME TreeInv, PageInv
    PROVE  /\ Saved \in [Nodes -> Resolutions \cup {Blank}]
           /\ Saved[selected] = Shown(selected)
           /\ \A n \in Nodes \ {selected} : Saved[n] = resolution[n]
           /\ Global \in Nodes /\ Records = Nodes \ {Global}
BY CartAssumption DEF TreeInv, TreeTypeOK, PageInv, Saved, Shown, Nodes

\* A step that may save the options of the selected node, and changes no other.
LEMMA SavedInv ==
    ASSUME TreeInv, PageInv, checked' \subseteq Records, resolution' \in {resolution, Saved},
           UNCHANGED <<loading, node, combo, button, wanted, selected, custom, timers>>
    PROVE  TreeInv' /\ PageInv'
<1>1. /\ resolution' \in [Nodes -> Resolutions \cup {Blank}]
      /\ \A n \in Nodes \ {selected} : resolution'[n] = resolution[n]
      /\ Global \in Nodes /\ Records = Nodes \ {Global}
  BY SavedNodes DEF TreeInv, TreeTypeOK
<1>2. TreeInv'
  BY <1>1, TreeKept DEF TreeInv, TreeTypeOK
<1>3. GlobalIsShown'
  BY <1>1 DEF PageInv, GlobalIsShown
<1>4. OptionsInv'
  BY <1>1 DEF PageInv, OptionsInv, HasSource
<1> QED
  BY <1>2, <1>3, <1>4 DEF PageInv, ButtonComesBack

\* A dialog saves the options or does not, whichever way it goes.
LEMMA HandlerSaves ==
    ASSUME NEW ticked, OversizedCoveragesHandler(ticked) \/ ExtractHandler(ticked)
                         \/ \E e \in Emails : HandleDlForm(e, ticked)
    PROVE  resolution' \in {resolution, Saved} /\ timers' = timers
BY DEF OversizedCoveragesHandler, ExtractHandler, HandleDlForm, Extract, jobs

LEMMA TicksInv ==
    ASSUME TreeInv, PageInv,
           (\E r \in Records : Tick(r)) \/ (\E S \in Groups, on \in BOOLEAN : TickGroup(S, on))
    PROVE  TreeInv' /\ PageInv'
<1>1. UNCHANGED <<loading, node, combo, button, wanted, selected, custom, timers, resolution>>
  BY DEF Tick, TickGroup, jobs
<1>2. checked \subseteq Records
  BY DEF TreeInv, TreeTypeOK
<1>3. ASSUME NEW r \in Records, Tick(r) PROVE checked' \subseteq Records
  BY <1>2, <1>3 DEF Tick
<1>4. ASSUME NEW S \in Groups, NEW on \in BOOLEAN, TickGroup(S, on)
      PROVE  checked' \subseteq Records
  <2>1. S \subseteq Records
    BY CartAssumption DEF Groups
  <2> QED
    BY <1>2, <1>4, <2>1 DEF TickGroup
<1> QED
  BY <1>1, <1>3, <1>4, SavedInv

LEMMA DialogsInv ==
    ASSUME TreeInv, PageInv,
           ExtractBtnHandler \/ SelectAllLayers \/ OversizedAccepted \/ Dismiss
             \/ \E e \in Emails : EmailGiven(e) \/ SubmitForm(e)
    PROVE  TreeInv' /\ PageInv'
<1>1. UNCHANGED <<loading, node, combo, button, wanted, selected, custom>>
  BY DEF ExtractBtnHandler, SelectAllLayers, OversizedAccepted, Dismiss, EmailGiven, SubmitForm,
         tree, options
<1>2. resolution' \in {resolution, Saved} /\ timers' = timers
  BY HandlerSaves DEF ExtractBtnHandler, SelectAllLayers, OversizedAccepted, Dismiss,
         EmailGiven, SubmitForm, tree, jobs
<1>3. checked' \subseteq Records
  BY DEF ExtractBtnHandler, SelectAllLayers, OversizedAccepted, Dismiss, EmailGiven, SubmitForm,
         tree, TreeInv, TreeTypeOK
<1> QED
  BY <1>1, <1>2, <1>3, SavedInv

LEMMA FormsInv ==
    ASSUME TreeInv, PageInv, NEW f, FormAccepted(f) \/ FormRefused(f)
    PROVE  TreeInv' /\ PageInv'
<1>1. /\ UNCHANGED <<loading, node, checked, combo, button, wanted, selected, custom, timers>>
      /\ resolution' \in {resolution, Saved}
  BY DEF FormAccepted, FormRefused, tree, options
<1> QED
  BY <1>1, SavedInv DEF TreeInv, TreeTypeOK

\* Typing goes to the node that the panel shows.
LEMMA EditsInv ==
    ASSUME TreeInv, PageInv, NEW v \in Typed, EditGlobal(v) \/ EditCustom(v)
    PROVE  TreeInv' /\ PageInv'
<1>1. /\ v \in Resolutions \cup {Blank}
      /\ Global \in Nodes /\ Records = Nodes \ {Global} /\ selected \in Nodes
  BY PageAssumption, SavedNodes DEF PageInv
<1>2. UNCHANGED <<loading, node, checked, resolution, selected, timers>>
  BY DEF EditGlobal, EditCustom, jobs
<1>3. CASE EditGlobal(v)
  <2>1. /\ selected = Global /\ combo' = v /\ button' = (v # Blank) /\ custom' = custom
        /\ wanted' = [wanted EXCEPT ![Global] = v]
    BY <1>3 DEF EditGlobal
  <2>2. TreeInv'
    BY <1>1, <1>2, <2>1, TreeKept DEF TreeInv, TreeTypeOK
  <2>3. OptionsInv'
    BY <1>1, <1>2, <2>1 DEF PageInv, OptionsInv, TreeInv, TreeTypeOK
  <2> QED
    BY <1>2, <2>1, <2>2, <2>3 DEF PageInv, GlobalIsShown, ButtonComesBack
<1>4. CASE EditCustom(v)
  <2>1. /\ selected # Global /\ custom' = v /\ UNCHANGED <<combo, button>>
        /\ wanted' = [wanted EXCEPT ![selected] = v]
    BY <1>4 DEF EditCustom
  <2>2. TreeInv'
    BY <1>1, <1>2, <2>1, TreeKept DEF TreeInv, TreeTypeOK
  <2>3. OptionsInv'
    BY <1>1, <1>2, <2>1 DEF PageInv, OptionsInv, HasSource, TreeInv, TreeTypeOK
  <2> QED
    BY <1>1, <1>2, <2>1, <2>2, <2>3 DEF PageInv, GlobalIsShown, ButtonComesBack
<1> QED
  BY <1>3, <1>4

\* The node that is left gets what the panel shows, then the panel changes.
LEMMA SelectionsInv ==
    ASSUME TreeInv, PageInv,
           (\E n \in Nodes : SelectSource(n)) \/ (\E r \in Records : SelectError(r))
    PROVE  TreeInv' /\ PageInv'
<1>1. /\ HasSource(selected) /\ resolution' = Saved
      /\ UNCHANGED <<loading, node, checked, wanted, timers>>
  BY DEF SelectSource, SelectError, jobs
<1>2. /\ Saved \in [Nodes -> Resolutions \cup {Blank}]
      /\ Saved[selected] = Shown(selected)
      /\ \A n \in Nodes \ {selected} : Saved[n] = resolution[n]
      /\ Global \in Nodes /\ Records = Nodes \ {Global} /\ selected \in Nodes
      /\ resolution \in [Nodes -> Resolutions \cup {Blank}]
  BY SavedNodes DEF PageInv, TreeInv, TreeTypeOK
<1>3. \A n \in Records : wanted[n] = Saved[n]
  BY <1>1, <1>2 DEF PageInv, OptionsInv, Shown
<1>4. Saved[Global] = combo
  BY <1>2 DEF PageInv, GlobalIsShown, Shown
<1>5. ASSUME NEW r \in Records, SelectError(r) PROVE TreeInv' /\ PageInv'
  <2>1. selected' = r /\ node[r] = "error" /\ UNCHANGED <<combo, button, custom>>
    BY <1>5 DEF SelectError
  <2>2. TreeInv'
    BY <1>1, <1>2, <2>1, TreeKept DEF TreeInv, TreeTypeOK
  <2>3. OptionsInv'
    BY <1>1, <1>2, <1>3, <2>1 DEF PageInv, OptionsInv, HasSource
  <2> QED
    BY <1>1, <1>2, <1>4, <2>1, <2>2, <2>3 DEF PageInv, GlobalIsShown, ButtonComesBack
<1>6. ASSUME NEW n \in Nodes, SelectSource(n), n = Global PROVE TreeInv' /\ PageInv'
  <2>1. /\ selected' = Global /\ selected # Global
        /\ combo' = (IF resolution[Global] = Blank THEN combo ELSE resolution[Global])
        /\ button' = (resolution[Global] # Blank \/ button) /\ custom' = custom
    BY <1>6 DEF SelectSource
  <2>2. combo' = combo /\ button' \in BOOLEAN /\ (button => button')
    BY <2>1 DEF PageInv, GlobalIsShown, TreeInv, TreeTypeOK
  <2>3. TreeInv'
    BY <1>1, <1>2, <2>2, TreeKept DEF TreeInv, TreeTypeOK
  <2>4. OptionsInv'
    BY <1>1, <1>2, <1>3, <2>1, <2>2 DEF PageInv, OptionsInv
  <2> QED
    BY <1>1, <1>2, <2>1, <2>2, <2>3, <2>4 DEF PageInv, GlobalIsShown, ButtonComesBack
<1>7. ASSUME NEW n \in Nodes, SelectSource(n), n # Global PROVE TreeInv' /\ PageInv'
  <2>1. /\ selected' = n /\ n # selected /\ n \in Records
        /\ node[n] \in {"raster", "vector"}
        /\ custom' = resolution[n] /\ UNCHANGED <<combo, button>>
    BY <1>2, <1>7 DEF SelectSource, HasSource
  <2>2. TreeInv'
    BY <1>1, <1>2, <2>1, TreeKept DEF TreeInv, TreeTypeOK
  <2>3. OptionsInv'
    BY <1>1, <1>2, <1>3, <2>1 DEF PageInv, OptionsInv
  <2> QED
    BY <1>1, <1>2, <1>4, <2>1, <2>2, <2>3 DEF PageInv, GlobalIsShown, ButtonComesBack
<1> QED
  BY <1>5, <1>6, <1>7

\* An extraction disables the button only with a timer that enables it again.
LEMMA ButtonInv ==
    ASSUME TreeInv, PageInv, (\E success \in BOOLEAN : JobAnswered(success)) \/ TimerFires
    PROVE  TreeInv' /\ PageInv'
<1>1. UNCHANGED <<loading, node, checked, resolution, combo, wanted, selected, custom>>
  BY DEF JobAnswered, TimerFires, options
<1>2. /\ button' \in BOOLEAN /\ timers' \in Nat
      /\ UNCHANGED <<button, timers>> \/ timers' > 0 \/ button'
  <2>1. timers \in Nat /\ button \in BOOLEAN
    BY DEF PageInv, TreeInv, TreeTypeOK
  <2>2. ASSUME TimerFires PROVE button' = TRUE /\ timers > 0 /\ timers' = timers - 1
    BY <2>2 DEF TimerFires
  <2>3. ASSUME NEW success \in BOOLEAN, JobAnswered(success)
        PROVE  (button' = FALSE /\ timers' = timers + 1) \/ UNCHANGED <<button, timers>>
    BY <2>3 DEF JobAnswered
  <2>4. \/ button' = TRUE /\ timers > 0 /\ timers' = timers - 1
        \/ button' = FALSE /\ timers' = timers + 1
        \/ button' = button /\ timers' = timers
    BY <2>2, <2>3
  <2>5. timers' \in Nat
    BY <2>1, <2>4
  <2>6. button' \in BOOLEAN
    BY <2>1, <2>4
  <2>7. (button' = button /\ timers' = timers) \/ timers' > 0 \/ button'
    BY <2>1, <2>4
  <2> QED
    BY <2>5, <2>6, <2>7
<1>3. TreeInv'
  BY <1>1, <1>2, TreeKept DEF TreeInv, TreeTypeOK
<1>4. OptionsInv' /\ GlobalIsShown'
  BY <1>1 DEF PageInv, OptionsInv, GlobalIsShown, HasSource
<1> QED
  BY <1>1, <1>2, <1>3, <1>4 DEF PageInv, ButtonComesBack

-----------------------------------------------------------------------------
(* The dialogs.                                                            *)

\* The oversized rasters of an extraction, whoever asks for it.
Big(ticked, saved) ==
    {r \in ticked : node[r] = "raster"
                    /\ (IF saved[r] # Blank THEN saved[r] ELSE saved[Global]) < Coarse}

\* What the dialogs have asked about is what would be sent now.
AskInv ==
    /\ inFlight \in Nat
    /\ settled => ready
    /\ (dialog \in {"oversized", "prompt"} /\ settled) => Big(checked, Saved) \subseteq asked
    /\ (dialog = "form" \/ forms # {}) => withForm

LEMMA OversizedSpec ==
    ASSUME NEW ticked \in SUBSET Records, NEW saved, NEW address
    PROVE  Oversized(SpecOf(ticked, saved, address)) = Big(ticked, saved)
<1> DEFINE f == [r \in {t \in ticked : HasSource(t)} |-> saved[r]]
<1>1. \A r \in Records : r # Global
  BY CartAssumption
<1>2. /\ SpecOf(ticked, saved, address).layers = f
      /\ SpecOf(ticked, saved, address).global = saved[Global]
  BY DEF SpecOf
<1>3. DOMAIN f = {t \in ticked : node[t] \in {"raster", "vector"}}
  BY <1>1 DEF HasSource
<1>4. \A r \in DOMAIN f : f[r] = saved[r]
  OBVIOUS
<1> HIDE DEF f
<1>5. Oversized(SpecOf(ticked, saved, address)) =
         {r \in DOMAIN f : /\ node[r] = "raster"
                           /\ (IF f[r] # Blank THEN f[r] ELSE saved[Global]) < Coarse}
  BY <1>2 DEF Oversized
<1> QED
  BY <1>3, <1>4, <1>5 DEF Big

\* Saving twice changes nothing.
LEMMA SavedAgain ==
    ASSUME TreeInv, PageInv, resolution' \in {resolution, Saved},
           UNCHANGED <<node, selected, combo, custom>>
    PROVE  /\ Saved' = Saved
           /\ \A T : Big(T, Saved)' = Big(T, Saved)
<1>1. Shown(selected)' = Shown(selected)
  BY DEF Shown
<1>2. Saved' = Saved
  BY <1>1 DEF Saved, TreeInv, TreeTypeOK, PageInv
<1> QED
  BY <1>2 DEF Big

\* Once the tree is loaded it does not change any more.
LEMMA ReadyTree ==
    ASSUME TreeInv, ready, TreeStep
    PROVE  UNCHANGED <<ready, node, checked, resolution, combo, page>>
<1>1. pending = {}
  BY DEF TreeInv, ReadyWhenAnswered
<1>2. ShowMask
  BY <1>1 DEF TreeStep, TreeNext, CapabilitiesAnswered, CapabilitiesRead, CapabilitiesFailed,
     DescribeAnswered, DescribedUseless, DescribeFailed, DescribedSource, DescribedWithMetadata,
     MetadataAnswered, MetadataRead, MetadataUseless, MetadataNotXml
<1> QED
  BY <1>2 DEF ShowMask, TreeStep

(* A handler that goes on to extract, once the user has agreed to send     *)
(* what is ticked: it opens a dialog, or sends just that.                  *)
LEMMA Proceeds ==
    ASSUME TreeInv, PageInv, NEW ticked \in SUBSET Records, inFlight \in Nat,
           ExtractHandler(ticked) \/ \E e \in Emails : HandleDlForm(e, ticked)
    PROVE  /\ resolution' \in {resolution, Saved} /\ inFlight' \in Nat
           /\ dialog' = "form" => withForm
           /\ inFlight' > inFlight => /\ Oversized(job') = Big(ticked, Saved)
                                      /\ ~withForm
<1>1. /\ resolution' \in {resolution, Saved}
      /\ dialog' = "form" => withForm
      /\ \/ inFlight' = inFlight
         \/ /\ inFlight' = inFlight + 1 /\ ~withForm
            /\ \E a : job' = SpecOf(ticked, Saved, a)
  BY DEF ExtractHandler, HandleDlForm, Extract, jobs
<1>2. \A a : Oversized(SpecOf(ticked, Saved, a)) = Big(ticked, Saved)
  BY OversizedSpec
<1> QED
  BY <1>1, <1>2

(* What a step must keep, and what it must show when it sends.             *)
Asked == (inFlight' > inFlight /\ settled' /\ ~withForm) => Oversized(job') \subseteq asked'

\* The dialog of oversized rasters: all that would be sent is asked about.
LEMMA HandlerAsks ==
    ASSUME TreeInv, PageInv, AskInv, NEW ticked \in SUBSET Records, checked' = ticked,
           OversizedCoveragesHandler(ticked), settled' => ready',
           UNCHANGED <<node, selected, combo, custom, forms, withForm>>
    PROVE  AskInv' /\ Asked
<1>1. CASE ~HasSource(selected)
  <2>1. dialog' = "none" /\ UNCHANGED inFlight
    BY <1>1 DEF OversizedCoveragesHandler, jobs
  <2> QED
    BY <2>1 DEF AskInv, Asked
<1>2. CASE HasSource(selected)
  <2>1. asked' = Big(ticked, Saved)
    BY <1>2, OversizedSpec DEF OversizedCoveragesHandler
  <2>2. /\ resolution' \in {resolution, Saved} /\ inFlight' \in Nat
        /\ dialog' = "form" => withForm
        /\ inFlight' > inFlight => Oversized(job') = Big(ticked, Saved)
    <3>1. CASE ExtractHandler(ticked)
      BY <3>1, Proceeds DEF AskInv
    <3>2. CASE dialog' = "oversized" /\ resolution' = Saved /\ UNCHANGED jobs
      BY <3>2 DEF AskInv, jobs
    <3> QED
      BY <1>2, <3>1, <3>2 DEF OversizedCoveragesHandler
  <2>3. Big(checked, Saved)' = Big(ticked, Saved)
    BY <2>2, SavedAgain DEF Big
  <2> QED
    BY <2>1, <2>2, <2>3 DEF AskInv, Asked
<1> QED
  BY <1>1, <1>2

\* A step that sends nothing, opens no dialog that asks, and keeps what is ticked.
LEMMA QuietAsks ==
    ASSUME TreeInv, PageInv, AskInv, inFlight' \in Nat, ~(inFlight' > inFlight) \/ withForm,
           resolution' \in {resolution, Saved}, settled' => settled, ready => ready',
           dialog' \in {"oversized", "prompt"} =>
               dialog' = dialog /\ UNCHANGED <<node, selected, combo, custom, checked, asked>>,
           dialog' = "form" \/ forms' # {} => withForm, UNCHANGED withForm
    PROVE  AskInv' /\ Asked
<1>1. ASSUME dialog' \in {"oversized", "prompt"}, settled'
      PROVE  Big(checked, Saved)' \subseteq asked'
  BY <1>1, SavedAgain DEF AskInv, Big
<1> QED
  BY <1>1 DEF AskInv, Asked

LEMMA AskStep == ASSUME TreeInv, PageInv, AskInv, Next PROVE AskInv' /\ Asked
<1>1. checked \in SUBSET Records /\ inFlight \in Nat
  BY DEF TreeInv, TreeTypeOK, AskInv
<1>2. CASE TreeStep
  <2>1. UNCHANGED <<inFlight, settled, dialog, asked, selected, custom, forms, withForm>>
    BY <1>2 DEF TreeStep, page, flow, jobs, options, addresses
  <2>2. CASE ready
    <3>1. UNCHANGED <<ready, node, checked, resolution, combo>>
      BY <1>2, <2>2, ReadyTree
    <3> QED
      BY <1>1, <2>1, <3>1, QuietAsks DEF AskInv
  <2>3. CASE ~ready
    BY <1>1, <2>1, <2>3 DEF AskInv, Asked
  <2> QED
    BY <2>2, <2>3
<1>3. CASE \/ \E n \in Nodes : SelectSource(n)
           \/ \E r \in Records : SelectError(r) \/ Tick(r)
           \/ \E v \in Typed : EditGlobal(v) \/ EditCustom(v)
           \/ \E S \in Groups, on \in BOOLEAN : TickGroup(S, on)
  <2>1. /\ dialog = "none"
        /\ UNCHANGED <<loading, dialog, inFlight, settled, asked, forms, withForm>>
    BY <1>3 DEF SelectSource, SelectError, Tick, EditGlobal, EditCustom, TickGroup, Edit,
                flow, jobs, addresses
  <2> QED
    BY <1>1, <2>1 DEF AskInv, Asked, loading
<1>4. CASE ExtractBtnHandler
  <2>1. /\ settled' = ready
        /\ UNCHANGED <<loading, node, checked, combo, selected, custom, forms, withForm>>
    BY <1>4 DEF ExtractBtnHandler, options, addresses
  <2>2. CASE OversizedCoveragesHandler(checked)
    BY <1>1, <2>1, <2>2, HandlerAsks DEF loading
  <2>3. CASE dialog' = "all" /\ UNCHANGED jobs
    BY <1>1, <2>1, <2>3 DEF AskInv, Asked, loading, jobs
  <2> QED
    BY <1>4, <2>2, <2>3 DEF ExtractBtnHandler
<1>5. CASE SelectAllLayers
  <2> DEFINE all == checked \cup {r \in Records : Selectable(r) /\ r # selected}
  <2>1. /\ all \in SUBSET Records /\ checked' = all /\ OversizedCoveragesHandler(all)
        /\ UNCHANGED <<loading, node, combo, selected, custom, settled, forms, withForm>>
    BY <1>1, <1>5 DEF SelectAllLayers, options, addresses
  <2> HIDE DEF all
  <2> QED
    BY <2>1, HandlerAsks DEF AskInv, loading
<1>6. CASE OversizedAccepted \/ \E e \in Emails : EmailGiven(e)
  <2>1. /\ dialog \in {"oversized", "prompt"}
        /\ ExtractHandler(checked) \/ \E e \in Emails : HandleDlForm(e, checked)
        /\ UNCHANGED <<loading, node, checked, combo, selected, custom, settled, asked, forms,
                       withForm>>
    BY <1>6 DEF OversizedAccepted, EmailGiven, options, addresses
  <2>2. /\ resolution' \in {resolution, Saved} /\ inFlight' \in Nat
        /\ dialog' = "form" => withForm
        /\ inFlight' > inFlight => Oversized(job') = Big(checked, Saved)
    BY <1>1, <2>1, Proceeds
  <2>3. settled => Big(checked, Saved) \subseteq asked
    BY <2>1 DEF AskInv
  <2>4. Big(checked, Saved)' = Big(checked, Saved)
    BY <2>1, <2>2, SavedAgain DEF Big
  <2> QED
    BY <2>1, <2>2, <2>3, <2>4 DEF AskInv, Asked, loading
<1>7. CASE Dismiss \/ \E e \in Emails : SubmitForm(e)
  <2>1. /\ UNCHANGED <<inFlight, settled, ready, withForm>>
        /\ (dialog' = "none" /\ forms' = forms) \/ (dialog' = "form" /\ dialog = "form")
    BY <1>7 DEF Dismiss, SubmitForm, tree, loading, jobs, addresses
  <2> QED
    BY <1>1, <2>1 DEF AskInv, Asked
<1>8. CASE \E f \in forms : FormAccepted(f) \/ FormRefused(f)
  <2>1. /\ forms # {} /\ forms' \subseteq forms /\ inFlight' \in {inFlight, inFlight + 1}
        /\ resolution' \in {resolution, Saved}
        /\ dialog' \in {dialog, "none"}
        /\ UNCHANGED <<settled, loading, withForm, node, selected, combo, custom, checked, asked>>
    BY <1>8 DEF FormAccepted, FormRefused, tree, options, addresses
  <2>2. withForm /\ inFlight' \in Nat
    BY <1>1, <2>1 DEF AskInv
  <2> QED
    BY <2>1, <2>2, QuietAsks DEF loading
<1>9. CASE \E success \in BOOLEAN : JobAnswered(success)
  <2>1. /\ inFlight > 0 /\ inFlight' = inFlight - 1 /\ dialog' \in {"none", "form"}
        /\ dialog' = "form" => dialog = "form"
        /\ UNCHANGED <<settled, loading, withForm, forms>>
    BY <1>9 DEF JobAnswered, addresses
  <2> QED
    BY <1>1, <2>1 DEF AskInv, Asked, loading
<1>10. CASE TimerFires
  <2>1. UNCHANGED <<loading, resolution, node, selected, combo, custom, checked, asked, settled,
                    dialog, forms, withForm, inFlight>>
    BY <1>10 DEF TimerFires, options, flow, addresses
  <2> QED
    BY <1>1, <2>1, QuietAsks DEF AskInv, loading
<1> QED
  BY <1>2, <1>3, <1>4, <1>5, <1>6, <1>7, <1>8, <1>9, <1>10 DEF Next, UserNext, NetworkNext

-----------------------------------------------------------------------------
(* The forms.                                                              *)

(* A form that was submitted in the flow going on, and whose window is     *)
(* still open, declares what would be extracted now.                       *)
FormInv ==
    /\ clicks \in Nat
    /\ \A f \in forms : f.flow \in Nat /\ f.flow <= clicks
    /\ dialog \in {"all", "oversized", "prompt"} => \A f \in forms : f.flow # clicks
    /\ (dialog = "form" /\ settled) =>
          \A f \in forms : f.flow = clicks => f.spec = SpecOf(checked, Saved, f.spec.email)

Declared ==
    \A f \in forms \ forms' :
        (inFlight' > inFlight /\ dialog = "form" /\ f.flow = clicks /\ settled)
           => [job' EXCEPT !.email = f.spec.email] = f.spec

LEMMA SpecAgain ==
    ASSUME TreeInv, PageInv, resolution' \in {resolution, Saved},
           UNCHANGED <<node, selected, combo, custom, checked>>
    PROVE  \A a : SpecOf(checked, Saved, a)' = SpecOf(checked, Saved, a)
<1>1. Saved' = Saved
  BY SavedAgain
<1>2. \A n : HasSource(n)' = HasSource(n)
  BY DEF HasSource
<1> QED
  BY <1>1, <1>2 DEF SpecOf

\* A flow of dialogs in which no form has been submitted yet.
LEMMA FreshForms ==
    ASSUME FormInv, UNCHANGED forms, clicks' \in Nat, clicks' >= clicks,
           \A f \in forms : f.flow # clicks'
    PROVE  FormInv'
BY DEF FormInv

\* No dialog is open.
LEMMA NoForms ==
    ASSUME FormInv, forms' \subseteq forms, UNCHANGED clicks, dialog' = "none" PROVE FormInv'
BY DEF FormInv

\* What is declared would still be extracted.
LEMMA SameForms ==
    ASSUME TreeInv, PageInv, FormInv, forms' \subseteq forms, UNCHANGED <<clicks, settled>>,
           dialog' \in {dialog, "none"}, resolution' \in {resolution, Saved},
           UNCHANGED <<node, selected, combo, custom, checked>>
    PROVE  FormInv'
BY SpecAgain DEF FormInv

LEMMA SubmitFormInv ==
    ASSUME TreeInv, PageInv, FormInv, NEW e \in Emails, SubmitForm(e) PROVE FormInv'
<1> DEFINE g == [flow |-> clicks, again |-> \E f \in forms : f.flow = clicks,
                 target |-> target, spec |-> SpecOf(checked, Saved, e)]
<1>1. /\ forms' = forms \cup {g} /\ dialog = "form" /\ resolution' = Saved
      /\ UNCHANGED <<node, selected, combo, custom, checked, clicks, settled, dialog>>
  BY DEF SubmitForm, options
<1>2. g.flow = clicks /\ g.spec = SpecOf(checked, Saved, e) /\ g.spec.email = e
  BY DEF SpecOf
<1> HIDE DEF g
<1>3. \A a : SpecOf(checked, Saved, a)' = SpecOf(checked, Saved, a)
  BY <1>1, SpecAgain
<1> QED
  BY <1>1, <1>2, <1>3 DEF FormInv

LEMMA FormStep == ASSUME TreeInv, PageInv, AskInv, FormInv, Next PROVE FormInv'
<1>1. CASE TreeStep
  <2>1. UNCHANGED <<clicks, settled, dialog, forms, selected, custom>>
    BY <1>1 DEF TreeStep, page, flow, options
  <2>2. CASE ready
    BY <1>1, <2>1, <2>2, ReadyTree, SameForms
  <2>3. CASE ~ready
    BY <2>1, <2>3 DEF AskInv, FormInv
  <2> QED
    BY <2>2, <2>3
<1>2. CASE \/ \E n \in Nodes : SelectSource(n)
           \/ \E r \in Records : SelectError(r) \/ Tick(r)
           \/ \E v \in Typed : EditGlobal(v) \/ EditCustom(v)
           \/ \E S \in Groups, on \in BOOLEAN : TickGroup(S, on)
           \/ Dismiss
  <2>1. dialog' = "none" /\ UNCHANGED <<forms, clicks>>
    BY <1>2 DEF SelectSource, SelectError, Tick, EditGlobal, EditCustom, TickGroup, Edit,
                Dismiss, flow
  <2> QED
    BY <2>1, NoForms
<1>3. CASE ExtractBtnHandler
  <2>1. clicks' = clicks + 1 /\ UNCHANGED forms
    BY <1>3 DEF ExtractBtnHandler
  <2> QED
    BY <2>1, FreshForms DEF FormInv
<1>4. CASE SelectAllLayers \/ OversizedAccepted \/ \E e \in Emails : EmailGiven(e)
  <2>1. dialog \in {"all", "oversized", "prompt"} /\ UNCHANGED <<forms, clicks>>
    BY <1>4 DEF SelectAllLayers, OversizedAccepted, EmailGiven
  <2> QED
    BY <2>1, FreshForms DEF FormInv
<1>5. CASE \E e \in Emails : SubmitForm(e)
  BY <1>5, SubmitFormInv
<1>6. CASE \E f \in forms : FormAccepted(f) \/ FormRefused(f)
  <2>1. /\ forms' \subseteq forms /\ dialog' \in {dialog, "none"}
        /\ resolution' \in {resolution, Saved}
        /\ UNCHANGED <<clicks, settled, node, selected, combo, custom, checked>>
    BY <1>6 DEF FormAccepted, FormRefused, tree, options
  <2> QED
    BY <2>1, SameForms
<1>7. CASE TimerFires \/ \E success \in BOOLEAN : JobAnswered(success)
  <2>1. /\ dialog' \in {dialog, "none"}
        /\ UNCHANGED <<forms, clicks, settled, node, selected, combo, custom, checked, resolution>>
    BY <1>7 DEF TimerFires, JobAnswered, options, flow
  <2> QED
    BY <2>1, SameForms
<1> QED
  BY <1>1, <1>2, <1>3, <1>4, <1>5, <1>6, <1>7 DEF Next, UserNext, NetworkNext

LEMMA DeclareStep == ASSUME AskInv, FormInv, Next PROVE Declared
<1>1. inFlight \in Nat
  BY DEF AskInv
<1>2. ASSUME NEW g \in forms, FormAccepted(g) PROVE Declared
  <2> SUFFICES ASSUME NEW f \in forms, f \notin forms', inFlight' > inFlight, dialog = "form",
                      f.flow = clicks, settled
               PROVE  [job' EXCEPT !.email = f.spec.email] = f.spec
    BY DEF Declared
  <2>1. f = g /\ job' = SpecOf(checked, Saved, g.target)
    BY <1>1, <1>2 DEF FormAccepted
  <2>2. f.spec = SpecOf(checked, Saved, f.spec.email)
    BY DEF FormInv
  <2>3. ASSUME NEW a, NEW b
        PROVE  [SpecOf(checked, Saved, a) EXCEPT !.email = b] = SpecOf(checked, Saved, b)
    <3> DEFINE opts == [r \in {t \in checked : HasSource(t)} |-> Saved[r]]
               glob == Saved[Global]
    <3> HIDE DEF opts, glob
    <3>1. \A e : SpecOf(checked, Saved, e) = [layers |-> opts, global |-> glob, email |-> e]
      BY DEF SpecOf, opts, glob
    <3> QED
      BY <3>1
  <2> QED
    BY <2>1, <2>2, <2>3
<1>3. CASE forms \subseteq forms' \/ UNCHANGED inFlight
  BY <1>1, <1>3 DEF Declared
<1>4. ASSUME Next, ~\E g \in forms : FormAccepted(g)
      PROVE  forms \subseteq forms' \/ UNCHANGED inFlight
  <2>1. CASE TreeStep
    BY <2>1 DEF TreeStep, page, flow
  <2>2. CASE UserNext
    BY <2>2 DEF UserNext, SelectSource, SelectError, Tick, EditGlobal, EditCustom, TickGroup,
                ExtractBtnHandler, SelectAllLayers, OversizedAccepted, Dismiss, EmailGiven,
                SubmitForm, flow
  <2>3. CASE NetworkNext
    BY <1>4, <2>3 DEF NetworkNext, FormRefused, JobAnswered
  <2>4. CASE TimerFires
    BY <2>4 DEF TimerFires, flow
  <2> QED
    BY <1>4, <2>1, <2>2, <2>3, <2>4 DEF Next
<1> QED
  BY <1>2, <1>3, <1>4

-----------------------------------------------------------------------------
(* The theorems.                                                           *)

LEMMA NextInv == ASSUME TreeInv, PageInv, [Next]_vars PROVE TreeInv' /\ PageInv'
<1>1. CASE TreeStep
  BY <1>1, TreeStepInv
<1>2. CASE UserNext
  BY <1>2, SelectionsInv, TicksInv, EditsInv, DialogsInv DEF UserNext
<1>3. CASE NetworkNext \/ TimerFires
  BY <1>3, FormsInv, ButtonInv DEF NetworkNext
<1>4. CASE UNCHANGED vars
  BY <1>4, SavedInv DEF vars, tree, page, options, jobs, TreeInv, TreeTypeOK
<1> QED
  BY <1>1, <1>2, <1>3, <1>4 DEF Next

\* The first part of the invariant: how requests follow one another, the counter,
\* and where the last resolution given to each node is kept.
LEMMA PageAlways == Spec => [](TreeInv /\ PageInv)
<1> QED
  BY InitInv, NextInv, PTL DEF Spec

(* For any cart, the counter of GEOR_layerstree.js is the number of the    *)
(* answers still to come, and of the handlers that raised before they      *)
(* counted theirs.                                                         *)
THEOREM CounterIsExact == Spec => []CounterCountsAnswers
<1>1. TreeInv => CounterCountsAnswers
  BY DEF TreeInv
<1> QED
  BY <1>1, PageAlways, PTL

(* For any cart, and any order of the answers, the mask goes and the       *)
(* monitoring starts only when the last request of the tree is answered.   *)
THEOREM TreeIsReady == Spec => []ReadyWhenAnswered
<1>1. TreeInv => ReadyWhenAnswered
  BY DEF TreeInv
<1> QED
  BY <1>1, PageAlways, PTL

(* Every node keeps the resolution last given to it by a user or by its    *)
(* metadata, although all share the widgets of the panel                   *)
(* (saveExportOptions, setOptions).                                        *)
THEOREM OptionsAreKept == Spec => []OptionsFollowNodes
<1>1. TreeInv /\ PageInv => OptionsFollowNodes
  BY DEF PageInv, OptionsInv, OptionsFollowNodes, Shown, Nodes
<1> QED
  BY <1>1, PageAlways, PTL

(* What is saved for the whole cart is what its combo shows, unless it is  *)
(* being edited, also when metadata lowers it (appendLayerChild).          *)
THEOREM GlobalIsSaved == Spec => []GlobalIsShown
<1>1. PageInv => GlobalIsShown
  BY DEF PageInv
<1> QED
  BY <1>1, PageAlways, PTL

(* The extract button is enabled, or a timer will enable it, or the        *)
(* resolution of the cart is blank (extract, globalResolution).            *)
THEOREM ButtonReturns == Spec => []ButtonComesBack
<1>1. PageInv => ButtonComesBack
  BY DEF PageInv
<1> QED
  BY <1>1, PageAlways, PTL

LEMMA AskAlways == Spec => []AskInv
<1>1. Init => AskInv
  BY DEF Init, TreeInit, AskInv
<1>2. ASSUME TreeInv, PageInv, AskInv, [Next]_vars PROVE AskInv'
  <2>1. CASE Next
    BY <1>2, <2>1, AskStep
  <2>2. CASE UNCHANGED vars
    BY <1>2, <2>2, SavedAgain
    DEF AskInv, Big, vars, tree, loading, page, options, flow, jobs, addresses
  <2> QED
    BY <1>2, <2>1, <2>2
<1> QED
  BY <1>1, <1>2, PageAlways, PTL DEF Spec

(* Once the tree is loaded, no oversized raster is sent that the user did  *)
(* not agree to in the dialogs of that click, whatever is answered while   *)
(* they are open (oversizedCoveragesHandler).                              *)
THEOREM OversizedAreAgreed == Spec => OversizedIsAsked
<1>1. ASSUME TreeInv, PageInv, AskInv, [Next]_vars PROVE [Asked]_vars
  BY <1>1, AskStep
<1>2. Spec => [][Asked]_vars
  BY <1>1, AskAlways, PageAlways, PTL DEF Spec
<1> QED
  BY <1>2 DEF OversizedIsAsked, Asked

(* Once the tree is loaded, the extraction that starts when a form is      *)
(* accepted, with its window still open, is the one that the form has      *)
(* declared, whatever is answered in between (dlform.submit, extract).     *)
THEOREM FormsDeclareJobs == Spec => FormDeclaresJob
<1>1. Init => FormInv
  BY DEF Init, FormInv
<1>2. ASSUME TreeInv, PageInv, AskInv, FormInv, [Next]_vars PROVE FormInv'
  <2>1. CASE Next
    BY <1>2, <2>1, FormStep
  <2>2. CASE UNCHANGED vars
    BY <1>2, <2>2, SameForms DEF vars, tree, page, options, flow
  <2> QED
    BY <1>2, <2>1, <2>2
<1>3. Spec => []FormInv
  BY <1>1, <1>2, AskAlways, PageAlways, PTL DEF Spec
<1>4. ASSUME AskInv, FormInv, [Next]_vars PROVE [Declared]_vars
  BY <1>4, DeclareStep
<1>5. Spec => [][Declared]_vars
  BY <1>3, <1>4, AskAlways, PTL DEF Spec
<1> QED
  BY <1>5 DEF FormDeclaresJob, Declared

-----------------------------------------------------------------------------
(* The rest of the invariant that the runs check.                          *)

\* What the dialogs, the forms and the addresses can be.
FlowTypes ==
    /\ edits \in 0 .. MaxEdits /\ clicks \in 0 .. MaxClicks
    /\ dialog \in {"none", "all", "oversized", "prompt", "form"}
    /\ dialog # "none" => clicks > 0
    /\ dialog = "form" => target \in Emails
    /\ settled \in BOOLEAN /\ waiter \in BOOLEAN
    /\ withForm \in BOOLEAN /\ anonymous \in BOOLEAN
    /\ asked \subseteq Records
    /\ target \in Emails \cup {NoEmail}
    /\ \A f \in forms : f.flow \in 1 .. MaxClicks /\ f.target \in Emails
    /\ {email, stored} \subseteq Emails \cup {NoEmail}

\* Where a handler leads that goes on to extract: the address of a form is valid.
LEMMA HandlerLeads ==
    ASSUME FlowTypes, NEW ticked,
           ExtractHandler(ticked) \/ \E e \in Emails : HandleDlForm(e, ticked)
    PROVE  /\ dialog' \in {"none", "prompt", "form"} /\ waiter' \in BOOLEAN
           /\ target' \in Emails \cup {NoEmail}
           /\ dialog' = "form" => target' \in Emails
<1>1. ASSUME NEW e \in Emails \cup {NoEmail}, HandleDlForm(e, ticked)
      PROVE  /\ dialog' \in {"none", "form"} /\ waiter' \in BOOLEAN
             /\ \/ dialog' = "form" /\ target' = e
                \/ dialog' = "none" /\ target' = target
  BY <1>1 DEF HandleDlForm, Extract, jobs, FlowTypes
<1>2. CASE \E e \in Emails : HandleDlForm(e, ticked)
  BY <1>1, <1>2 DEF FlowTypes
<1>3. CASE ExtractHandler(ticked)
  <2>1. CASE <<email, stored>> = <<NoEmail, NoEmail>>
    BY <1>3, <2>1 DEF ExtractHandler, jobs, FlowTypes
  <2>2. CASE <<email, stored>> # <<NoEmail, NoEmail>>
    <3>1. PICK e \in Emails : HandleDlForm(e, ticked)
      BY <1>3, <2>2 DEF ExtractHandler, FlowTypes
    <3> QED
      BY <1>1, <3>1 DEF FlowTypes
  <2> QED
    BY <2>1, <2>2
<1> QED
  BY <1>2, <1>3

\* The dialog of oversized rasters asks about layers of the cart.
LEMMA OversizedLeads ==
    ASSUME FlowTypes, NEW ticked \in SUBSET Records, OversizedCoveragesHandler(ticked)
    PROVE  /\ dialog' \in {"none", "oversized", "prompt", "form"} /\ waiter' \in BOOLEAN
           /\ target' \in Emails \cup {NoEmail}
           /\ dialog' = "form" => target' \in Emails
           /\ asked' \subseteq Records
<1>1. CASE ~HasSource(selected)
  BY <1>1 DEF OversizedCoveragesHandler, jobs, FlowTypes
<1>2. CASE HasSource(selected)
  <2>1. asked' = Big(ticked, Saved)
    BY <1>2, OversizedSpec DEF OversizedCoveragesHandler
  <2>2. asked' \subseteq Records
    BY <2>1 DEF Big
  <2>3. CASE ExtractHandler(ticked)
    BY <2>2, <2>3, HandlerLeads
  <2>4. CASE dialog' = "oversized" /\ UNCHANGED <<jobs, target>>
    BY <2>2, <2>4 DEF jobs, FlowTypes
  <2> QED
    BY <1>2, <2>3, <2>4 DEF OversizedCoveragesHandler
<1> QED
  BY <1>1, <1>2

LEMMA FlowStep == ASSUME TreeInv, FlowTypes, [Next]_vars PROVE FlowTypes'
<1>1. checked \in SUBSET Records
  BY DEF TreeInv, TreeTypeOK
<1>2. CASE TreeStep \/ TimerFires \/ UNCHANGED vars
  BY <1>2 DEF TreeStep, TimerFires, vars, page, options, flow, jobs, addresses, FlowTypes
<1>3. CASE (\E n \in Nodes : SelectSource(n)) \/ (\E r \in Records : SelectError(r))
  BY <1>3 DEF SelectSource, SelectError, flow, jobs, addresses, FlowTypes
<1>4. CASE \/ \E r \in Records : Tick(r)
           \/ \E v \in Typed : EditGlobal(v) \/ EditCustom(v)
           \/ \E S \in Groups, on \in BOOLEAN : TickGroup(S, on)
  <2>1. edits' \in 0 .. MaxEdits /\ UNCHANGED <<flow, jobs, addresses>>
    BY <1>4, PageAssumption DEF Tick, EditGlobal, EditCustom, TickGroup, Edit, FlowTypes
  <2> QED
    BY <2>1 DEF flow, jobs, addresses, FlowTypes
<1>5. CASE ExtractBtnHandler
  <2>1. /\ clicks' = clicks + 1 /\ clicks < MaxClicks /\ settled' = ready
        /\ UNCHANGED <<edits, forms, addresses>>
    BY <1>5 DEF ExtractBtnHandler, options, addresses
  <2>2. /\ dialog' \in {"none", "all", "oversized", "prompt", "form"} /\ waiter' \in BOOLEAN
        /\ target' \in Emails \cup {NoEmail}
        /\ dialog' = "form" => target' \in Emails
        /\ asked' \subseteq Records
    BY <1>1, <1>5, OversizedLeads DEF ExtractBtnHandler, jobs, FlowTypes
  <2> QED
    BY <2>1, <2>2, PageAssumption DEF addresses, FlowTypes, TreeInv, TreeTypeOK
<1>6. CASE SelectAllLayers
  <2>1. PICK all \in SUBSET Records : OversizedCoveragesHandler(all)
    BY <1>1, <1>6 DEF SelectAllLayers
  <2>2. UNCHANGED <<edits, clicks, settled, forms, addresses>> /\ clicks > 0
    BY <1>6 DEF SelectAllLayers, options, addresses, FlowTypes
  <2> QED
    BY <2>1, <2>2, OversizedLeads DEF addresses, FlowTypes
<1>7. CASE OversizedAccepted \/ \E e \in Emails : EmailGiven(e)
  <2>1. /\ ExtractHandler(checked) \/ \E e \in Emails : HandleDlForm(e, checked)
        /\ {email', stored'} \subseteq Emails \cup {NoEmail}
        /\ UNCHANGED <<edits, clicks, settled, asked, forms, withForm, anonymous>> /\ clicks > 0
    BY <1>7 DEF OversizedAccepted, EmailGiven, options, addresses, FlowTypes
  <2> QED
    BY <2>1, HandlerLeads DEF FlowTypes
<1>8. CASE Dismiss
  BY <1>8 DEF Dismiss, options, jobs, addresses, FlowTypes
<1>9. ASSUME NEW e \in Emails, SubmitForm(e) PROVE FlowTypes'
  <2>1. /\ UNCHANGED <<edits, dialog, clicks, settled, asked, target, waiter, withForm, anonymous>>
        /\ email' \in {email, e} /\ stored' \in {NoEmail, e} /\ dialog = "form"
        /\ \A f \in forms' : f \in forms \/ (f.flow = clicks /\ f.target = target)
    BY <1>9 DEF SubmitForm, options, jobs
  <2>2. clicks \in 1 .. MaxClicks /\ target \in Emails
    BY <2>1, PageAssumption DEF FlowTypes
  <2> QED
    BY <2>1, <2>2 DEF FlowTypes
<1>10. CASE \E f \in forms : FormAccepted(f) \/ FormRefused(f)
  <2>1. /\ UNCHANGED <<edits, clicks, settled, asked, addresses>> /\ forms' \subseteq forms
        /\ waiter' \in BOOLEAN
        /\ \/ dialog' \in {dialog, "none"} /\ dialog' # "form" /\ target' = NoEmail
           \/ UNCHANGED <<dialog, target>>
    BY <1>10 DEF FormAccepted, FormRefused, options, FlowTypes
  <2> QED
    BY <2>1 DEF addresses, FlowTypes
<1>11. CASE \E success \in BOOLEAN : JobAnswered(success)
  BY <1>11 DEF JobAnswered, options, addresses, FlowTypes
<1> QED
  BY <1>2, <1>3, <1>4, <1>5, <1>6, <1>7, <1>8, <1>9, <1>10, <1>11 DEF Next, UserNext, NetworkNext

(* All that the handlers of the page rely on, for any cart and any number  *)
(* of clicks: the types, the tree and its counter, the options of the      *)
(* nodes, and what the dialogs have asked about (GEOR.js and the modules   *)
(* it calls).                                                              *)
THEOREM Invariant == Spec => []IInv
<1>1. Init => FlowTypes
  <2> SUFFICES ASSUME Init PROVE FlowTypes
    OBVIOUS
  <2>1. edits \in 0 .. MaxEdits /\ clicks \in 0 .. MaxClicks
    BY PageAssumption DEF Init
  <2>2. {email, stored} \subseteq Emails \cup {NoEmail}
    BY PageAssumption DEF Init
  <2> QED
    BY <2>1, <2>2 DEF Init, FlowTypes
<1>2. TreeInv /\ FlowTypes /\ [Next]_vars => FlowTypes'
  BY FlowStep
<1>3. Spec => []FlowTypes
  BY <1>1, <1>2, PageAlways, PTL DEF Spec
<1>4. TreeInv /\ PageInv /\ AskInv /\ FlowTypes => IInv
  <2> SUFFICES ASSUME TreeInv, PageInv, AskInv, FlowTypes PROVE IInv
    OBVIOUS
  <2>1. TypeOK
    BY DEF TypeOK, TreeInv, PageInv, AskInv, FlowTypes
  <2>2. FlowInv
    <3>1. Oversized(SpecOf(checked, Saved, NoEmail)) = Big(checked, Saved)
      BY OversizedSpec DEF TreeInv, TreeTypeOK
    <3> QED
      BY <3>1 DEF FlowInv, AskInv, FlowTypes
  <2> QED
    BY <2>1, <2>2 DEF IInv, TreeInv, PageInv
<1> QED
  BY <1>3, <1>4, PageAlways, AskAlways, PTL
=============================================================================
