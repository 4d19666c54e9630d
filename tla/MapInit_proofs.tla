--------------------------- MODULE MapInit_proofs ---------------------------
(***************************************************************************)
(* Proofs about MapInit, for any contexts, layers, kinds and servers: the  *)
(* waiting icon never outlives the requests, the page's callback runs at   *)
(* most once, errors come back, and what is posted is kept on top.         *)
(***************************************************************************)
EXTENDS MapInit, FiniteSetTheorems, TLAPS

-----------------------------------------------------------------------------
(* Finite sets of the model.                                               *)

LEMMA CapsFinite ==
    /\ IsFiniteSet(Kinds \X Servers)
    /\ \A S \in SUBSET (Kinds \X Servers) : IsFiniteSet(S) /\ Cardinality(S) \in Nat
<1>1. IsFiniteSet(Kinds \X Servers)
  BY FS_Product, MapAssumption
<1> QED
  BY <1>1, FS_Subset, FS_CardinalityType

LEMMA BrowsedFinite ==
    \A S \in SUBSET (Contexts \X BOOLEAN) : IsFiniteSet(S) /\ Cardinality(S) \in Nat
<1>1. IsFiniteSet({TRUE}) /\ IsFiniteSet({TRUE} \cup {FALSE})
  BY FS_Singleton, FS_AddElement
<1>2. BOOLEAN = {TRUE} \cup {FALSE}
  OBVIOUS
<1>3. IsFiniteSet(BOOLEAN)
  BY <1>1, <1>2
<1>4. IsFiniteSet(Contexts \X BOOLEAN)
  BY <1>3, FS_Product, MapAssumption
<1> QED
  BY <1>4, FS_Subset, FS_CardinalityType

\* The layers of a context are those that are kept and those that have no address.
LEMMA LayersFinite ==
    \A c \in Contexts :
        /\ Cardinality(Kept(c)) \in Nat
        /\ Cardinality(LayersOf[c]) \in Nat
        /\ Cardinality(LayersOf[c] \cap NoAddress) \in Nat
        /\ Cardinality(LayersOf[c]) =
              Cardinality(Kept(c)) + Cardinality(LayersOf[c] \cap NoAddress)
        /\ LayersOf[c] # {} => Cardinality(LayersOf[c]) > 0
        /\ LayersOf[c] \cap NoAddress = {} => Cardinality(LayersOf[c] \cap NoAddress) = 0
        /\ Kept(c) \subseteq Layers
        /\ Kept(c) \cap Requested = {}
<1> SUFFICES ASSUME NEW c \in Contexts
             PROVE  /\ Cardinality(Kept(c)) \in Nat
                    /\ Cardinality(LayersOf[c]) \in Nat
                    /\ Cardinality(LayersOf[c] \cap NoAddress) \in Nat
                    /\ Cardinality(LayersOf[c]) =
                          Cardinality(Kept(c)) + Cardinality(LayersOf[c] \cap NoAddress)
                    /\ LayersOf[c] # {} => Cardinality(LayersOf[c]) > 0
                    /\ LayersOf[c] \cap NoAddress = {} =>
                          Cardinality(LayersOf[c] \cap NoAddress) = 0
                    /\ Kept(c) \subseteq Layers
                    /\ Kept(c) \cap Requested = {}
  OBVIOUS
<1>1. LayersOf[c] \in SUBSET Layers /\ IsFiniteSet(Layers)
  BY MapAssumption
<1>2. IsFiniteSet(LayersOf[c])
  BY <1>1, FS_Subset
<1>3. IsFiniteSet(LayersOf[c] \cap NoAddress)
  BY <1>2, FS_Intersection
<1>4. /\ IsFiniteSet(Kept(c))
      /\ Cardinality(Kept(c)) = Cardinality(LayersOf[c]) - Cardinality(LayersOf[c] \cap NoAddress)
  BY <1>2, FS_Difference DEF Kept
<1>5. /\ Cardinality(Kept(c)) \in Nat
      /\ Cardinality(LayersOf[c]) \in Nat
      /\ Cardinality(LayersOf[c] \cap NoAddress) \in Nat
  BY <1>2, <1>3, <1>4, FS_CardinalityType
<1>6. LayersOf[c] # {} => Cardinality(LayersOf[c]) > 0
  BY <1>2, <1>5, FS_EmptySet
<1>7. LayersOf[c] \cap NoAddress = {} => Cardinality(LayersOf[c] \cap NoAddress) = 0
  BY FS_EmptySet
<1>8. Kept(c) \subseteq Layers /\ Kept(c) \cap Requested = {}
  <2>1. FileLayer \notin LayersOf[c] /\ \A k \in Kinds : OfferOf[k] \cap LayersOf[c] = {}
    BY MapAssumption
  <2>2. Kept(c) \subseteq LayersOf[c]
    BY DEF Kept
  <2>3. \A l \in Requested : l = FileLayer \/ \E k \in Kinds : l \in OfferOf[k]
    <3> SUFFICES ASSUME NEW l \in Requested, l # FileLayer
                 PROVE  \E k \in Kinds : l \in OfferOf[k]
      OBVIOUS
    <3> DEFINE U == UNION {OfferOf[k] : k \in Kinds}
    <3>3. Requested = U \cup {FileLayer}
      BY DEF Requested
    <3> HIDE DEF U
    <3>4. l \in U
      BY <3>3
    <3>1. l \in UNION {OfferOf[k] : k \in Kinds}
      BY <3>4 DEF U
    <3>2. PICK T \in {OfferOf[k] : k \in Kinds} : l \in T
      BY <3>1
    <3> QED
      BY <3>2
  <2> QED
    BY <1>1, <2>1, <2>2, <2>3
<1> QED
  BY <1>4, <1>5, <1>6, <1>7, <1>8

LEMMA LoadFinite ==
    /\ LoadLayers \subseteq Kinds \X Servers
    /\ Cardinality(LoadLayers) \in Nat
    /\ Cardinality({}) = 0
<1>1. LoadLayers \subseteq Kinds \X Servers
  BY MapAssumption DEF LoadLayers, CapsOf
<1> QED
  BY <1>1, CapsFinite, FS_EmptySet

\* Layers that are offered can be counted, and belong to the map.
LEMMA OfferFinite ==
    \A k \in Kinds : \A S \in SUBSET OfferOf[k] :
        Described(k, S) \in Nat /\ S \subseteq Layers
<1> SUFFICES ASSUME NEW k \in Kinds, NEW S \in SUBSET OfferOf[k]
             PROVE  Described(k, S) \in Nat /\ S \subseteq Layers
  OBVIOUS
<1>1. S \in SUBSET Layers /\ IsFiniteSet(Layers)
  BY MapAssumption
<1>2. Cardinality(S) \in Nat
  BY <1>1, FS_Subset, FS_CardinalityType
<1> QED
  BY <1>1, <1>2 DEF Described

\* One element less.
LEMMA OneLess ==
    ASSUME NEW S, IsFiniteSet(S), NEW x \in S
    PROVE  Cardinality(S \ {x}) = Cardinality(S) - 1
BY FS_RemoveElement

LEMMA OneMore ==
    ASSUME NEW S, IsFiniteSet(S), NEW x, x \notin S
    PROVE  Cardinality(S \cup {x}) = Cardinality(S) + 1
BY FS_AddElement

-----------------------------------------------------------------------------
(* The icon.                                                               *)

\* An answer takes one from the icon, or counts as one that hid nothing.
LEMMA AnsweredIcon ==
    ASSUME waiter \in Nat, unhidden \in Nat, NEW n \in Nat, NEW more \in Nat, NEW rest \in Nat,
           waiter <= rest + 1 + unhidden, Answered(n, more)
    PROVE  /\ waiter' \in Nat /\ unhidden' \in Nat
           /\ waiter' <= rest + more + unhidden'
<1>1. CASE ready
  BY <1>1 DEF Answered, Hidden
<1>2. CASE ~ready
  BY <1>2 DEF Answered, Hidden
<1> QED
  BY <1>1, <1>2

\* The parts of Out are numbers.
LEMMA OutType ==
    ASSUME TypeOK
    PROVE  /\ Cardinality(caps) \in Nat /\ Cardinality(browsed) \in Nat
           /\ IsFiniteSet(caps) /\ IsFiniteSet(browsed)
           /\ Out \in Nat
<1>1. /\ Cardinality(caps) \in Nat /\ Cardinality(browsed) \in Nat
      /\ IsFiniteSet(caps) /\ IsFiniteSet(browsed)
  BY CapsFinite, BrowsedFinite DEF TypeOK
<1> QED
  BY <1>1 DEF TypeOK, Out

-----------------------------------------------------------------------------
(* Steps.                                                                  *)

\* A page that has not been opened satisfies the invariant.
LEMMA InitInv == Init => IInv
<1> SUFFICES ASSUME Init PROVE IInv
  OBVIOUS
<1>1. TypeOK
  <2>1. /\ opening \in Openings \cup {None} /\ wmc \in Loads /\ file \in BOOLEAN
        /\ disabled \in BOOLEAN /\ last \in Contexts \cup {None}
    BY DEF Init, Loads
  <2>2. /\ caps \subseteq Kinds \X Servers /\ browsed \subseteq Contexts \X BOOLEAN
        /\ store \subseteq Layers /\ windows \subseteq Kinds
    BY DEF Init
  <2>3. /\ describing \in Nat /\ asks \in Nat /\ inits \in Nat /\ waiter \in Nat
        /\ unhidden \in Nat /\ expected \in Int
    BY DEF Init
  <2> QED
    BY <2>1, <2>2, <2>3 DEF TypeOK
<1>2. IconBounded
  BY LoadFinite DEF Init, IconBounded, Out
<1> QED
  BY <1>1, <1>2 DEF Init, IInv, InitOnce, ready, SilenceInv, ContextInv, ContextFirst

\* A context that is read keeps the count of its layers.
LEMMA ReadInv ==
    ASSUME TypeOK, NEW c \in Contexts, NEW reset, Read(c, reset)
    PROVE  /\ store' \subseteq Layers /\ describing' \in Nat /\ expected' \in Int
           /\ disabled' \in BOOLEAN /\ last' \in Contexts
           /\ describing' = describing + Cardinality(Kept(c))
           /\ SilenceInv'
           /\ last' # None
           /\ store \cap Requested = {} => store' \cap Requested = {}
<1>1. None \notin Contexts
  BY MapAssumption
<1>2. describing' = describing + Cardinality(Kept(c))
  BY DEF Read
<1>3. SilenceInv'
  BY LayersFinite DEF Read, SilenceInv, TypeOK
<1>4. store' = (IF reset THEN {} ELSE store) \cup Kept(c)
  BY DEF Read
<1>5. /\ store' \subseteq store \cup Kept(c)
      /\ Kept(c) \subseteq Layers /\ Kept(c) \cap Requested = {}
  BY <1>4, LayersFinite
<1>6. store' \subseteq Layers /\ (store \cap Requested = {} => store' \cap Requested = {})
  BY <1>5 DEF TypeOK
<1>7. /\ describing' \in Nat /\ expected' \in Int
      /\ disabled' \in BOOLEAN /\ last' \in Contexts
  <2>4. Cardinality(Kept(c)) \in Nat /\ Cardinality(LayersOf[c]) \in Nat
    BY LayersFinite
  <2>1. describing' \in Nat
    BY <1>2, <2>4 DEF TypeOK
  <2>2. expected' = Cardinality(LayersOf[c]) /\ disabled' = TRUE /\ last' = c
    BY DEF Read
  <2>3. expected' \in Int
    BY <2>2, <2>4
  <2> QED
    BY <2>1, <2>2, <2>3
<1> QED
  BY <1>1, <1>2, <1>3, <1>6, <1>7

\* When nothing of the map changes, nor the context that was read last.
LEMMA MapSame == ASSUME SilenceInv, UNCHANGED map PROVE SilenceInv'
  BY DEF SilenceInv, map

LEMMA InitPostInv == ASSUME IInv, NEW o \in Posts, InitPost(o) PROVE IInv'
<1> USE NoneAssumption DEF IInv
<1>1. /\ opening = None /\ opening' = o /\ o \in Openings
      /\ wmc' \in {"posted", "thenLayers"} /\ waiter' = waiter + 1
      /\ UNCHANGED <<caps, file, browsed, asks, windows, map, inits, unhidden>>
  BY DEF InitPost, Openings, requests
<1>2. TypeOK'
  BY <1>1 DEF TypeOK, Loads, map
<1>3. IconBounded'
  BY <1>1, OutType DEF IconBounded, Out, TypeOK, map, ContextInv
<1>4. InitOnce'
  BY <1>1 DEF InitOnce, ready, ContextInv
<1>5. SilenceInv'
  BY <1>1, MapSame
<1>6. ContextInv'
  BY <1>1 DEF ContextInv, ContextFirst, Posts, map
<1> QED
  BY <1>2, <1>3, <1>4, <1>5, <1>6

\* What a GET asks for is what the icon is shown for.
LEMMA GetOut ==
    ASSUME TypeOK, ContextInv, opening = None, NEW o \in Gets, GetRequests(o), describing' \in Nat
    PROVE  /\ Asked(o) \in Nat /\ caps' \subseteq Kinds \X Servers /\ file' \in BOOLEAN
           /\ UNCHANGED <<browsed, asks, windows>>
           /\ \A w \in Loads : wmc' = w =>
                 Out' = Cardinality(browsed) + describing' + (IF w = "none" THEN 0 ELSE 1) + Asked(o)
           /\ Out = Cardinality(browsed) + describing
           /\ Cardinality(browsed) \in Nat /\ describing \in Nat
<1>1. o.file \in BOOLEAN /\ o.layers \in {"none", "known"}
  BY DEF Gets
<1>2. /\ Asked(o) \in Nat /\ caps' \subseteq Kinds \X Servers /\ file' \in BOOLEAN
      /\ UNCHANGED <<browsed, asks, windows>>
      /\ Cardinality(caps') + (IF file' THEN 1 ELSE 0) = Asked(o)
      /\ Cardinality(caps') \in Nat
  BY <1>1, LoadFinite DEF GetRequests, Asked
<1>3. caps = {} /\ ~file /\ wmc = "none"
  BY DEF ContextInv
<1>4. Cardinality(browsed) \in Nat /\ describing \in Nat
  BY OutType DEF TypeOK
<1>5. Out = Cardinality(browsed) + describing
  BY <1>3, <1>4, LoadFinite DEF Out
<1>6. ASSUME describing' \in Int, NEW w \in Loads, wmc' = w
      PROVE  Out' = Cardinality(browsed) + describing' + (IF w = "none" THEN 0 ELSE 1) + Asked(o)
  BY <1>2, <1>4, <1>6 DEF Out
<1> QED
  BY <1>2, <1>4, <1>5, <1>6

LEMMA InitGetInv == ASSUME IInv, NEW o \in Gets, InitGet(o) PROVE IInv'
<1> USE NoneAssumption DEF IInv
<1>1. /\ opening = None /\ opening' = o /\ o \in Openings /\ o.mode = "get"
      /\ wmc' \in {"custom", "default"} /\ waiter' = waiter + 1 + Asked(o)
      /\ UNCHANGED <<map, inits, unhidden>>
  BY DEF InitGet, Openings, Gets
<1>2. GetRequests(o)
  BY DEF InitGet
<1>3. TypeOK'
  <2>1. describing' \in Nat
    BY <1>1 DEF map, TypeOK
  <2> QED
    BY <1>1, <1>2, <2>1, GetOut DEF TypeOK, Loads, map
<1>4. IconBounded'
  <2>1. describing' = describing /\ describing' \in Nat
    BY <1>1 DEF map, TypeOK
  <2>2. /\ Out' = Cardinality(browsed) + describing + 1 + Asked(o)
        /\ Out = Cardinality(browsed) + describing
        /\ Cardinality(browsed) \in Nat /\ Asked(o) \in Nat
    BY <1>1, <1>2, <2>1, GetOut DEF Loads
  <2> QED
    BY <1>1, <2>1, <2>2 DEF IconBounded, TypeOK
<1>5. InitOnce'
  BY <1>1 DEF InitOnce, ready, ContextInv
<1>6. SilenceInv'
  BY <1>1, MapSame
<1>7. ContextInv'
  BY <1>1 DEF ContextInv, ContextFirst, map
<1> QED
  BY <1>3, <1>4, <1>5, <1>6, <1>7

LEMMA InitLatestInv == ASSUME IInv, NEW o \in Gets, InitLatest(o) PROVE IInv'
<1> USE NoneAssumption DEF IInv
<1>1. /\ opening = None /\ opening' = o /\ o \in Openings /\ o.mode = "get"
      /\ inits' = inits + 1
      /\ UNCHANGED <<wmc, unhidden>>
      /\ GetRequests(o)
  BY DEF InitLatest, Openings, Gets
<1>2. ASSUME NEW c \in Contexts, Read(c, TRUE),
             waiter' = waiter + Cardinality(Kept(c)) + Asked(o)
      PROVE  IInv'
  <2> DEFINE n == Cardinality(Kept(c))
  <2>5. n \in Nat
    BY LayersFinite
  <2> HIDE DEF n
  <2>6. /\ store' \subseteq Layers /\ describing' \in Nat /\ expected' \in Int
        /\ disabled' \in BOOLEAN /\ last' \in Contexts
        /\ describing' = describing + n
    BY <1>2, ReadInv DEF n
  <2>7. /\ Out' = Cardinality(browsed) + describing' + Asked(o)
        /\ Out = Cardinality(browsed) + describing
        /\ Cardinality(browsed) \in Nat /\ Asked(o) \in Nat
        /\ caps' \subseteq Kinds \X Servers /\ file' \in BOOLEAN
        /\ UNCHANGED <<browsed, asks, windows>>
    BY <1>1, <2>6, GetOut DEF Loads, ContextInv
  <2>8. waiter' = waiter + n + Asked(o)
    BY <1>2 DEF n
  <2>1. TypeOK'
    BY <1>1, <2>5, <2>6, <2>7, <2>8 DEF TypeOK
  <2>2. IconBounded'
    BY <1>1, <2>5, <2>6, <2>7, <2>8 DEF IconBounded, TypeOK
  <2>3. InitOnce'
    BY <1>1 DEF InitOnce, ready, ContextInv
  <2>4. ContextInv'
    BY <1>1, <1>2, ReadInv DEF ContextInv, ContextFirst
  <2> QED
    BY <2>1, <2>2, <2>3, <2>4, <1>2, ReadInv
<1>3. ASSUME UNCHANGED map, waiter' = waiter + Asked(o) PROVE IInv'
  <2>1. TypeOK'
    <3>1. describing' \in Nat
      BY <1>3 DEF map, TypeOK
    <3> QED
      BY <1>1, <1>3, <3>1, GetOut DEF TypeOK, map
  <2>5. /\ Out' = Cardinality(browsed) + describing' + Asked(o)
        /\ Out = Cardinality(browsed) + describing
        /\ Cardinality(browsed) \in Nat /\ Asked(o) \in Nat
        /\ describing' = describing
    BY <1>1, <1>3, GetOut DEF Loads, ContextInv, map, TypeOK
  <2>2. IconBounded'
    BY <1>1, <1>3, <2>5 DEF IconBounded, TypeOK
  <2>3. InitOnce'
    BY <1>1 DEF InitOnce, ready, ContextInv
  <2>4. ContextInv'
    BY <1>1, <1>3 DEF ContextInv, ContextFirst, map
  <2> QED
    BY <2>1, <2>2, <2>3, <2>4, <1>3, MapSame
<1> QED
  BY <1>2, <1>3 DEF InitLatest

LEMMA InitLatestRaisesInv == ASSUME IInv, NEW o \in Gets, InitLatestRaises(o) PROVE IInv'
<1>1. /\ opening = None /\ opening' = o /\ o \in Openings /\ o.mode = "get"
      /\ UNCHANGED <<wmc, caps, file, browsed, asks, windows, map, inits, waiter, unhidden>>
  BY DEF InitLatestRaises, Openings, Gets, requests, icon
<1> QED
  BY <1>1, NoneAssumption, MapSame
  DEF IInv, TypeOK, IconBounded, Out, InitOnce, ready, ContextInv, ContextFirst, map

(* A step of a page that has been opened, and that answers no context of   *)
(* mapinit and runs no callback: what is left to show.                     *)
LEMMA StayInv ==
    ASSUME IInv, opening # None, UNCHANGED <<opening, wmc, inits>>,
           TypeOK', IconBounded', SilenceInv', disabled' => last' # None,
           (ContextFirst /\ wmc # "none") =>
              caps' = {} /\ ~file' /\ windows' = {} /\ store' \cap Requested = {}
    PROVE  IInv'
BY DEF IInv, InitOnce, ready, ContextInv, ContextFirst

\* Layers that are added keep the count.
LEMMA AddInv ==
    ASSUME IInv, NEW k \in Kinds, NEW S \in SUBSET OfferOf[k], Add(k, S)
    PROVE  /\ store' \subseteq Layers /\ describing' \in Nat
           /\ describing' = describing + Described(k, S)
           /\ Described(k, S) \in Nat
           /\ UNCHANGED <<expected, disabled, last>>
           /\ SilenceInv'
           /\ disabled' => last' # None
<1>1. Described(k, S) \in Nat /\ S \subseteq Layers
  BY OfferFinite
<1>2. describing' = describing + Described(k, S) /\ UNCHANGED <<expected, disabled, last>>
  BY DEF Add
<1>3. store' \subseteq Layers /\ describing' \in Nat
  BY <1>1, <1>2 DEF Add, IInv, TypeOK
<1>4. SilenceInv'
  <2> SUFFICES ASSUME disabled, last # None
               PROVE  /\ expected <= describing' + Cardinality(LayersOf[last] \cap NoAddress)
                      /\ LayersOf[last] # {} => expected > 0
    BY <1>2 DEF SilenceInv
  <2>1. last \in Contexts /\ describing \in Nat /\ expected \in Int
    BY DEF IInv, TypeOK
  <2>2. Cardinality(LayersOf[last] \cap NoAddress) \in Nat
    BY <2>1, LayersFinite
  <2> QED
    BY <1>1, <1>2, <2>1, <2>2 DEF IInv, SilenceInv
<1> QED
  BY <1>1, <1>2, <1>3, <1>4 DEF IInv, ContextInv

\* One request of a kind less.
LEMMA CapsOut ==
    ASSUME TypeOK, NEW r \in caps, caps' = caps \ {r}, UNCHANGED <<file, browsed, wmc>>,
           describing' \in Nat
    PROVE  /\ Out' = Out - 1 + (describing' - describing)
           /\ Out - 1 \in Nat
           /\ caps' \subseteq Kinds \X Servers
<1>1. /\ Cardinality(caps) \in Nat /\ Cardinality(browsed) \in Nat /\ IsFiniteSet(caps)
      /\ describing \in Nat
  BY OutType DEF TypeOK
<1>2. caps' \subseteq Kinds \X Servers
  BY DEF TypeOK
<1>3. Cardinality(caps') = Cardinality(caps) - 1 /\ Cardinality(caps') \in Nat
  BY <1>1, <1>2, OneLess, CapsFinite
<1> QED
  BY <1>1, <1>2, <1>3 DEF Out

LEMMA BrowsedOut ==
    ASSUME TypeOK, NEW r \in browsed, browsed' = browsed \ {r}, UNCHANGED <<file, caps, wmc>>,
           describing' \in Nat
    PROVE  /\ Out' = Out - 1 + (describing' - describing)
           /\ Out - 1 \in Nat
           /\ browsed' \subseteq Contexts \X BOOLEAN
<1>1. /\ Cardinality(caps) \in Nat /\ Cardinality(browsed) \in Nat /\ IsFiniteSet(browsed)
      /\ describing \in Nat
  BY OutType DEF TypeOK
<1>2. browsed' \subseteq Contexts \X BOOLEAN
  BY DEF TypeOK
<1>3. Cardinality(browsed') = Cardinality(browsed) - 1 /\ Cardinality(browsed') \in Nat
  BY <1>1, <1>2, OneLess, BrowsedFinite
<1> QED
  BY <1>1, <1>2, <1>3 DEF Out

\* The icon after an answer, when the requests are counted.
LEMMA IconStep ==
    ASSUME IInv, NEW n \in Nat, NEW more \in Nat, Answered(n, more),
           Out \in Nat, Out - 1 \in Nat, Out' = Out - 1 + more
    PROVE  waiter' \in Nat /\ unhidden' \in Nat /\ IconBounded'
<1> DEFINE rest == Out - 1
<1>1. rest \in Nat /\ waiter \in Nat /\ unhidden \in Nat /\ waiter <= rest + 1 + unhidden
  BY DEF IInv, TypeOK, IconBounded
<1>2. Out' = rest + more
  OBVIOUS
<1> HIDE DEF rest
<1>3. waiter' \in Nat /\ unhidden' \in Nat /\ waiter' <= rest + more + unhidden'
  BY <1>1, AnsweredIcon
<1> QED
  BY <1>2, <1>3 DEF IconBounded

-----------------------------------------------------------------------------
(* Answers that are no context of mapinit.                                 *)

LEMMA FileInv ==
    ASSUME IInv, FileAdded \/ \E hides \in BOOLEAN : FileRefused(hides) PROVE IInv'
<1>1. PICK n \in {0, 1} :
        /\ file /\ file' = FALSE /\ Answered(n, 0)
        /\ store' \in {store, store \cup {FileLayer}}
        /\ UNCHANGED <<opening, wmc, caps, browsed, asks, windows, describing, expected,
                       disabled, last, inits>>
  BY DEF FileAdded, FileRefused, map
<1>2. opening # None /\ ~(ContextFirst /\ wmc # "none")
  BY <1>1 DEF IInv, ContextInv
<1>3. Out \in Nat /\ Out - 1 \in Nat /\ Out' = Out - 1 + 0
  BY <1>1, OutType DEF IInv, Out, TypeOK
<1>4. waiter' \in Nat /\ unhidden' \in Nat /\ IconBounded'
  BY <1>1, <1>3, IconStep
<1>5. store' \subseteq Layers
  BY <1>1, MapAssumption DEF IInv, TypeOK
<1>6. TypeOK'
  BY <1>1, <1>4, <1>5 DEF IInv, TypeOK
<1>7. SilenceInv' /\ (disabled' => last' # None)
  BY <1>1 DEF IInv, SilenceInv, ContextInv
<1> QED
  BY <1>1, <1>2, <1>4, <1>6, <1>7, StayInv

LEMMA CapabilitiesInv ==
    ASSUME IInv, NEW k \in Kinds, NEW s \in Servers,
           CapabilitiesAnswered(k, s) \/ ServicesFound(k, s)
    PROVE  IInv'
<1>1. PICK n \in {0, 1} :
        /\ <<k, s>> \in caps /\ caps' = caps \ {<<k, s>>}
        /\ Answered(n, 0)
        /\ windows' \in {windows, windows \cup {k}}
        /\ UNCHANGED <<opening, wmc, file, browsed, asks, map, inits>>
  BY DEF CapabilitiesAnswered, ServicesFound
<1>2. opening # None /\ ~(ContextFirst /\ wmc # "none")
  BY <1>1 DEF IInv, ContextInv
<1>3. describing' \in Nat /\ describing' = describing
  BY <1>1 DEF map, IInv, TypeOK
<1>4. Out \in Nat /\ Out - 1 \in Nat /\ Out' = Out - 1 + 0 /\ caps' \subseteq Kinds \X Servers
  BY <1>1, <1>3, OutType, CapsOut DEF IInv
<1>5. waiter' \in Nat /\ unhidden' \in Nat /\ IconBounded'
  BY <1>1, <1>4, IconStep
<1>6. TypeOK'
  BY <1>1, <1>4, <1>5 DEF IInv, TypeOK, map
<1>7. SilenceInv' /\ (disabled' => last' # None)
  BY <1>1 DEF IInv, SilenceInv, ContextInv, map
<1> QED
  BY <1>1, <1>2, <1>5, <1>6, <1>7, StayInv

LEMMA LayersFoundInv ==
    ASSUME IInv, NEW k \in Kinds, NEW s \in Servers, NEW S \in SUBSET OfferOf[k],
           LayersFound(k, s, S)
    PROVE  IInv'
<1> DEFINE d == Described(k, S)
<1>1. /\ <<k, s>> \in caps /\ caps' = caps \ {<<k, s>>} /\ Add(k, S)
      /\ waiter' = Hidden(Hidden(waiter, IF ready THEN 1 ELSE 0) + d, 1)
      /\ UNCHANGED <<opening, wmc, file, browsed, asks, windows, inits, unhidden>>
  BY DEF LayersFound
<1>2. opening # None /\ ~(ContextFirst /\ wmc # "none")
  BY <1>1 DEF IInv, ContextInv
<1>3. /\ store' \subseteq Layers /\ describing' \in Nat /\ describing' = describing + d
      /\ d \in Nat /\ UNCHANGED <<expected, disabled, last>> /\ SilenceInv'
      /\ disabled' => last' # None
  BY <1>1, AddInv
<1> HIDE DEF d
<1>4. /\ Out \in Nat /\ Out - 1 \in Nat /\ Out' = Out - 1 + d
      /\ caps' \subseteq Kinds \X Servers
  BY <1>1, <1>3, OutType, CapsOut DEF IInv, TypeOK
<1>5. waiter' \in Nat /\ waiter' <= waiter + d /\ (waiter + d > 0 => waiter' <= waiter + d - 1)
  BY <1>1, <1>3 DEF Hidden, IInv, TypeOK
<1>6. IconBounded'
  BY <1>1, <1>3, <1>4, <1>5 DEF IInv, IconBounded, TypeOK
<1>7. TypeOK'
  BY <1>1, <1>3, <1>4, <1>5 DEF IInv, TypeOK
<1> QED
  BY <1>1, <1>2, <1>3, <1>6, <1>7, StayInv

\* Every layer is counted once, and the errors come back at 0, not before.
LEMMA LayerDescribedInv == ASSUME IInv, LayerDescribed PROVE IInv'
<1>1. /\ describing > 0 /\ describing' = describing - 1 /\ expected' = expected - 1
      /\ disabled' = (disabled /\ expected' # 0)
      /\ Answered(0, 0)
      /\ UNCHANGED <<opening, wmc, caps, file, browsed, asks, windows, store, last, inits>>
  BY DEF LayerDescribed, requests
<1>2. Out \in Nat /\ Out - 1 \in Nat /\ Out' = Out - 1 + 0
  BY <1>1, OutType DEF IInv, Out, TypeOK
<1>3. waiter' \in Nat /\ unhidden' \in Nat /\ IconBounded'
  BY <1>1, <1>2, IconStep
<1>4. TypeOK'
  <2>1. describing' \in Nat /\ expected' \in Int
    BY <1>1 DEF IInv, TypeOK
  <2>2. disabled' \in BOOLEAN
    BY <1>1
  <2> QED
    BY <1>1, <1>3, <2>1, <2>2 DEF IInv, TypeOK
<1>5. SilenceInv'
  <2> SUFFICES ASSUME disabled', last' # None
               PROVE  /\ expected' <= describing' + Cardinality(LayersOf[last] \cap NoAddress)
                      /\ LayersOf[last] # {} => expected' > 0
    BY <1>1 DEF SilenceInv
  <2>1. disabled /\ expected' # 0 /\ last # None
    BY <1>1
  <2>2. last \in Contexts /\ describing \in Nat /\ expected \in Int
    BY <2>1 DEF IInv, TypeOK
  <2>3. Cardinality(LayersOf[last] \cap NoAddress) \in Nat
    BY <2>2, LayersFinite
  <2> QED
    BY <1>1, <2>1, <2>2, <2>3 DEF IInv, SilenceInv
<1>6. InitOnce'
  BY <1>1 DEF IInv, InitOnce, ready
<1>7. ContextInv'
  BY <1>1 DEF IInv, ContextInv, ContextFirst
<1> QED
  BY <1>3, <1>4, <1>5, <1>6, <1>7 DEF IInv

LEMMA BrowsedInv ==
    ASSUME IInv, NEW c \in Contexts, NEW noReset \in BOOLEAN,
           BrowsedRead(c, noReset) \/ BrowsedFailed(c, noReset)
    PROVE  IInv'
<1> DEFINE r == <<c, noReset>>
<1>1. /\ r \in browsed /\ browsed' = browsed \ {r}
      /\ UNCHANGED <<opening, wmc, caps, file, asks, windows, inits>>
  BY DEF BrowsedRead, BrowsedFailed
<1> HIDE DEF r
<1>2. opening # None
  BY <1>1 DEF IInv, ContextInv
<1>3. ASSUME Read(c, ~noReset), Answered(0, Cardinality(Kept(c))) PROVE IInv'
  <2> DEFINE n == Cardinality(Kept(c))
  <2>1. n \in Nat
    BY LayersFinite
  <2>2. /\ store' \subseteq Layers /\ describing' \in Nat /\ expected' \in Int
        /\ disabled' \in BOOLEAN /\ last' \in Contexts
        /\ describing' = describing + n
        /\ SilenceInv' /\ last' # None
        /\ store \cap Requested = {} => store' \cap Requested = {}
    BY <1>3, ReadInv DEF IInv
  <2>3. Answered(0, n)
    BY <1>3
  <2> HIDE DEF n
  <2>4. /\ Out \in Nat /\ Out - 1 \in Nat /\ Out' = Out - 1 + n
        /\ browsed' \subseteq Contexts \X BOOLEAN
    BY <1>1, <2>1, <2>2, OutType, BrowsedOut DEF IInv, TypeOK
  <2>5. waiter' \in Nat /\ unhidden' \in Nat /\ IconBounded'
    BY <2>1, <2>3, <2>4, IconStep
  <2>6. TypeOK'
    BY <1>1, <2>2, <2>4, <2>5 DEF IInv, TypeOK
  <2>7. (ContextFirst /\ wmc # "none") =>
           caps' = {} /\ ~file' /\ windows' = {} /\ store' \cap Requested = {}
    BY <1>1, <2>2 DEF IInv, ContextInv
  <2> QED
    BY <1>1, <1>2, <2>2, <2>5, <2>6, <2>7, StayInv
<1>4. ASSUME UNCHANGED map, Answered(0, 0) PROVE IInv'
  <2>1. describing' \in Nat /\ describing' = describing
    BY <1>4 DEF map, IInv, TypeOK
  <2>2. /\ Out \in Nat /\ Out - 1 \in Nat /\ Out' = Out - 1 + 0
        /\ browsed' \subseteq Contexts \X BOOLEAN
    BY <1>1, <2>1, OutType, BrowsedOut DEF IInv
  <2>3. waiter' \in Nat /\ unhidden' \in Nat /\ IconBounded'
    BY <1>4, <2>2, IconStep
  <2>4. TypeOK'
    BY <1>1, <1>4, <2>2, <2>3 DEF IInv, TypeOK, map
  <2>5. SilenceInv' /\ (disabled' => last' # None)
    BY <1>4 DEF IInv, SilenceInv, ContextInv, map
  <2>6. (ContextFirst /\ wmc # "none") =>
           caps' = {} /\ ~file' /\ windows' = {} /\ store' \cap Requested = {}
    BY <1>1, <1>4 DEF IInv, ContextInv, map
  <2> QED
    BY <1>1, <1>2, <2>3, <2>4, <2>5, <2>6, StayInv
<1> QED
  BY <1>3, <1>4 DEF BrowsedRead, BrowsedFailed

-----------------------------------------------------------------------------
(* The user.                                                               *)

LEMMA BrowseInv ==
    ASSUME IInv, NEW c \in Contexts, NEW noReset \in BOOLEAN, Browse(c, noReset) PROVE IInv'
<1> DEFINE r == <<c, noReset>>
<1>1. /\ opening # None /\ r \notin browsed
      /\ asks' = asks + 1 /\ browsed' = browsed \cup {r} /\ waiter' = waiter + 1
      /\ UNCHANGED <<opening, wmc, caps, file, windows, map, inits, unhidden>>
  BY DEF Browse
<1>2. r \in Contexts \X BOOLEAN
  OBVIOUS
<1> HIDE DEF r
<1>3. browsed' \subseteq Contexts \X BOOLEAN
  BY <1>1, <1>2 DEF IInv, TypeOK
<1>4. Cardinality(browsed') = Cardinality(browsed) + 1
  BY <1>1, OutType, OneMore DEF IInv
<1>5. Out' = Out + 1 /\ Out \in Nat
  BY <1>1, <1>4, OutType DEF IInv, Out, map, TypeOK
<1>6. IconBounded'
  BY <1>1, <1>5 DEF IInv, IconBounded, TypeOK
<1>7. TypeOK'
  BY <1>1, <1>3 DEF IInv, TypeOK, map
<1>8. SilenceInv' /\ (disabled' => last' # None)
  BY <1>1 DEF IInv, SilenceInv, ContextInv, map
<1>9. (ContextFirst /\ wmc # "none") =>
         caps' = {} /\ ~file' /\ windows' = {} /\ store' \cap Requested = {}
  BY <1>1 DEF IInv, ContextInv, map
<1> QED
  BY <1>1, <1>6, <1>7, <1>8, <1>9, StayInv

LEMMA WindowInv ==
    ASSUME IInv, NEW k \in Kinds, NEW S \in SUBSET OfferOf[k], WindowClosed(k, S) PROVE IInv'
<1> DEFINE d == Described(k, S)
<1>1. /\ k \in windows /\ windows' = windows \ {k} /\ Add(k, S) /\ waiter' = waiter + d
      /\ UNCHANGED <<opening, wmc, caps, file, browsed, asks, inits, unhidden>>
  BY DEF WindowClosed
<1>2. opening # None /\ ~(ContextFirst /\ wmc # "none")
  BY <1>1 DEF IInv, ContextInv
<1>3. /\ store' \subseteq Layers /\ describing' \in Nat /\ describing' = describing + d
      /\ d \in Nat /\ UNCHANGED <<expected, disabled, last>> /\ SilenceInv'
      /\ disabled' => last' # None
  BY <1>1, AddInv
<1> HIDE DEF d
<1>4. Out \in Nat /\ Out' = Out + d
  BY <1>1, <1>3, OutType DEF IInv, Out, TypeOK
<1>5. IconBounded'
  BY <1>1, <1>3, <1>4 DEF IInv, IconBounded, TypeOK
<1>6. TypeOK'
  BY <1>1, <1>3 DEF IInv, TypeOK
<1> QED
  BY <1>1, <1>2, <1>3, <1>5, <1>6, StayInv

-----------------------------------------------------------------------------
(* Contexts of mapinit.                                                    *)

\* The callback is run at most once, when its context is answered.
LEMMA ContextInvStep ==
    ASSUME IInv, wmc # "none", UNCHANGED <<opening, file, windows>>,
           wmc' \in {"none", "default"}, inits' \in {inits, inits + 1},
           wmc' # "none" => inits' = inits /\ caps' = caps /\ UNCHANGED store,
           TypeOK', IconBounded', SilenceInv', disabled' => last' # None
    PROVE  IInv'
<1>1. opening # None /\ inits <= 1 /\ ~(inits > 0) /\ inits \in Nat
  BY DEF IInv, ContextInv, InitOnce, ready, TypeOK
<1>2. InitOnce'
  BY <1>1 DEF InitOnce, ready
<1>3. ContextInv'
  BY <1>1 DEF IInv, ContextInv, ContextFirst
<1> QED
  BY <1>2, <1>3 DEF IInv

\* The requests out after a context that is answered.
LEMMA WmcOut ==
    ASSUME TypeOK, wmc # "none", wmc' \in {"none", "default"}, UNCHANGED <<file, browsed>>,
           describing' \in Nat, NEW asked \in Nat, Cardinality(caps') = Cardinality(caps) + asked
    PROVE  /\ Out' = Out - 1 + (IF wmc' = "none" THEN 0 ELSE 1) + (describing' - describing) + asked
           /\ Out \in Nat /\ Out - 1 \in Nat
BY OutType DEF Out, TypeOK

LEMMA ContextReadInv == ASSUME IInv, ContextRead PROVE IInv'
<1> DEFINE asked == IF wmc = "thenLayers" THEN LoadLayers ELSE {}
           m == Cardinality(asked)
<1>1. /\ wmc # "none" /\ wmc' = "none" /\ caps' = caps \cup asked /\ inits' = inits + 1
      /\ UNCHANGED <<opening, file, browsed, asks, windows>>
  BY DEF ContextRead
<1>2. \/ \E c \in Contexts : Read(c, TRUE) /\ Answered(1, Cardinality(Kept(c)) + m)
      \/ UNCHANGED map /\ Answered(1, m)
  BY DEF ContextRead
<1>3. m \in Nat /\ asked \subseteq Kinds \X Servers
  BY LoadFinite
<1>4. caps' \subseteq Kinds \X Servers
  BY <1>1, <1>3 DEF IInv, TypeOK
<1>5. Cardinality(caps') = Cardinality(caps) + m
  <2>1. CASE wmc = "thenLayers"
    <3>1. caps = {}
      BY <2>1, <1>1 DEF IInv, ContextInv
    <3> QED
      BY <1>1, <1>3, <3>1, LoadFinite
  <2>2. CASE wmc # "thenLayers"
    BY <1>1, <2>2, LoadFinite, OutType DEF IInv
  <2> QED
    BY <2>1, <2>2
<1> HIDE DEF asked, m
<1>6. ASSUME NEW c \in Contexts, Read(c, TRUE), Answered(1, Cardinality(Kept(c)) + m)
      PROVE  IInv'
  <2> DEFINE n == Cardinality(Kept(c))
  <2>1. n \in Nat
    BY LayersFinite
  <2>2. /\ store' \subseteq Layers /\ describing' \in Nat /\ expected' \in Int
        /\ disabled' \in BOOLEAN /\ last' \in Contexts
        /\ describing' = describing + n
        /\ SilenceInv' /\ last' # None
    BY <1>6, ReadInv DEF IInv
  <2>3. Answered(1, n + m)
    BY <1>6
  <2> HIDE DEF n
  <2>8. /\ Out' = Out - 1 + (IF wmc' = "none" THEN 0 ELSE 1) + (describing' - describing) + m
        /\ Out \in Nat /\ Out - 1 \in Nat
    BY <1>1, <1>3, <1>5, <2>2, WmcOut DEF IInv
  <2>4. Out \in Nat /\ Out - 1 \in Nat /\ Out' = Out - 1 + (n + m)
    BY <1>1, <1>3, <2>1, <2>2, <2>8 DEF IInv, TypeOK
  <2>5. n + m \in Nat
    BY <1>3, <2>1
  <2>6. waiter' \in Nat /\ unhidden' \in Nat /\ IconBounded'
    BY <2>3, <2>4, <2>5, IconStep
  <2>7. TypeOK'
    BY <1>1, <1>4, <2>2, <2>6 DEF IInv, TypeOK, Loads
  <2> QED
    BY <1>1, <2>2, <2>6, <2>7, ContextInvStep
<1>7. ASSUME UNCHANGED map, Answered(1, m) PROVE IInv'
  <2>1. describing' \in Nat /\ describing' = describing
    BY <1>7 DEF map, IInv, TypeOK
  <2>6. /\ Out' = Out - 1 + (IF wmc' = "none" THEN 0 ELSE 1) + (describing' - describing) + m
        /\ Out \in Nat /\ Out - 1 \in Nat
    BY <1>1, <1>3, <1>5, <2>1, WmcOut DEF IInv
  <2>2. Out \in Nat /\ Out - 1 \in Nat /\ Out' = Out - 1 + m
    BY <1>1, <1>3, <2>1, <2>6
  <2>3. waiter' \in Nat /\ unhidden' \in Nat /\ IconBounded'
    BY <1>3, <1>7, <2>2, IconStep
  <2>4. TypeOK'
    BY <1>1, <1>4, <1>7, <2>3 DEF IInv, TypeOK, Loads, map
  <2>5. SilenceInv' /\ (disabled' => last' # None)
    BY <1>7 DEF IInv, SilenceInv, ContextInv, map
  <2> QED
    BY <1>1, <2>3, <2>4, <2>5, ContextInvStep
<1> QED
  BY <1>2, <1>6, <1>7

LEMMA OddLayersInv == ASSUME IInv, ContextReadOddLayers PROVE IInv'
<1>1. /\ wmc # "none" /\ wmc' = "none"
      /\ UNCHANGED <<opening, caps, file, browsed, asks, windows, inits, unhidden>>
  BY DEF ContextReadOddLayers, requests
<1>2. \/ \E c \in Contexts :
            /\ Read(c, TRUE)
            /\ waiter' = Hidden(Hidden(waiter, IF ready THEN 2 ELSE 1) + Cardinality(Kept(c)), 1)
      \/ UNCHANGED map /\ waiter' = Hidden(waiter, IF ready THEN 3 ELSE 2)
  BY DEF ContextReadOddLayers
<1>3. waiter \in Nat /\ unhidden \in Nat /\ waiter <= Out + unhidden
  BY DEF IInv, TypeOK, IconBounded
<1>4. ASSUME NEW c \in Contexts, Read(c, TRUE),
             waiter' = Hidden(Hidden(waiter, IF ready THEN 2 ELSE 1) + Cardinality(Kept(c)), 1)
      PROVE  IInv'
  <2> DEFINE n == Cardinality(Kept(c))
  <2>1. n \in Nat
    BY LayersFinite
  <2>2. /\ store' \subseteq Layers /\ describing' \in Nat /\ expected' \in Int
        /\ disabled' \in BOOLEAN /\ last' \in Contexts
        /\ describing' = describing + n
        /\ SilenceInv' /\ last' # None
    BY <1>4, ReadInv DEF IInv
  <2>3. waiter' = Hidden(Hidden(waiter, IF ready THEN 2 ELSE 1) + n, 1)
    BY <1>4
  <2> HIDE DEF n
  <2>4. Cardinality(caps') = Cardinality(caps) + 0
    BY <1>1, OutType DEF IInv
  <2>5. /\ Out' = Out - 1 + (IF wmc' = "none" THEN 0 ELSE 1) + (describing' - describing) + 0
        /\ Out \in Nat /\ Out - 1 \in Nat
    BY <1>1, <2>2, <2>4, WmcOut DEF IInv
  <2>6. Out' = Out - 1 + n
    BY <1>1, <2>1, <2>2, <2>5 DEF IInv, TypeOK
  <2>7. waiter' \in Nat /\ (waiter' = 0 \/ waiter' <= waiter + n - 1)
    BY <1>3, <2>1, <2>3 DEF Hidden
  <2>8. IconBounded'
    BY <1>1, <1>3, <2>1, <2>5, <2>6, <2>7 DEF IconBounded
  <2>9. TypeOK'
    BY <1>1, <2>2, <2>7 DEF IInv, TypeOK, Loads
  <2> QED
    BY <1>1, <2>2, <2>8, <2>9, ContextInvStep
<1>5. ASSUME UNCHANGED map, waiter' = Hidden(waiter, IF ready THEN 3 ELSE 2) PROVE IInv'
  <2>1. describing' \in Nat /\ describing' = describing /\ describing \in Nat
    BY <1>5 DEF map, IInv, TypeOK
  <2>2. Cardinality(caps') = Cardinality(caps) + 0
    BY <1>1, OutType DEF IInv
  <2>3. /\ Out' = Out - 1 + (IF wmc' = "none" THEN 0 ELSE 1) + (describing' - describing) + 0
        /\ Out \in Nat /\ Out - 1 \in Nat
    BY <1>1, <2>1, <2>2, WmcOut DEF IInv
  <2>4. waiter' \in Nat /\ (waiter' = 0 \/ waiter' <= waiter - 1)
    BY <1>3, <1>5 DEF Hidden
  <2>5. IconBounded'
    BY <1>1, <1>3, <2>1, <2>3, <2>4 DEF IconBounded
  <2>6. TypeOK'
    BY <1>1, <1>5, <2>4 DEF IInv, TypeOK, Loads, map
  <2>7. SilenceInv' /\ (disabled' => last' # None)
    BY <1>5 DEF IInv, SilenceInv, ContextInv, map
  <2> QED
    BY <1>1, <2>5, <2>6, <2>7, ContextInvStep
<1> QED
  BY <1>2, <1>4, <1>5

\* A context that cannot be read, with k requests more for the default one.
LEMMA FailedInv ==
    ASSUME IInv, NEW raised \in BOOLEAN, ContextFailed(raised) PROVE IInv'
<1> DEFINE a == IF raised THEN 2 ELSE 1
           k == IF wmc = "custom" THEN 1 ELSE 0
<1>1. /\ wmc # "none" /\ Answered(a, k)
      /\ wmc' \in {"none", "default"} /\ k = (IF wmc' = "none" THEN 0 ELSE 1)
      /\ UNCHANGED <<opening, caps, file, browsed, asks, windows, map, inits>>
  BY DEF ContextFailed, requests
<1>2. a \in Nat /\ k \in Nat
  OBVIOUS
<1> HIDE DEF a, k
<1>3. describing' \in Nat /\ describing' = describing /\ describing \in Nat
  BY <1>1 DEF map, IInv, TypeOK
<1>4. Cardinality(caps') = Cardinality(caps) + 0
  BY <1>1, OutType DEF IInv
<1>5. /\ Out' = Out - 1 + (IF wmc' = "none" THEN 0 ELSE 1) + (describing' - describing) + 0
      /\ Out \in Nat /\ Out - 1 \in Nat
  BY <1>1, <1>3, <1>4, WmcOut DEF IInv
<1>6. Out' = Out - 1 + k
  BY <1>1, <1>2, <1>3, <1>5
<1>7. waiter' \in Nat /\ unhidden' \in Nat /\ IconBounded'
  BY <1>1, <1>2, <1>5, <1>6, IconStep
<1>8. TypeOK'
  BY <1>1, <1>7 DEF IInv, TypeOK, Loads, map
<1>9. SilenceInv' /\ (disabled' => last' # None)
  BY <1>1 DEF IInv, SilenceInv, ContextInv, map
<1> QED
  BY <1>1, <1>7, <1>8, <1>9, ContextInvStep DEF map

LEMMA FailedLatestInv ==
    ASSUME IInv, NEW raised \in BOOLEAN, ContextFailedLatest(raised) PROVE IInv'
<1> DEFINE a == IF raised THEN 2 ELSE 1
<1>1. /\ wmc # "none" /\ wmc' = "none"
      /\ inits' \in {inits, inits + 1}
      /\ UNCHANGED <<opening, caps, file, browsed, asks, windows>>
  BY DEF ContextFailedLatest, requests
<1>2. \/ \E c \in Contexts : Read(c, TRUE) /\ Answered(a, Cardinality(Kept(c)))
      \/ UNCHANGED map /\ Answered(a, 0)
  BY DEF ContextFailedLatest
<1>3. a \in Nat
  OBVIOUS
<1> HIDE DEF a
<1>4. Cardinality(caps') = Cardinality(caps) + 0
  BY <1>1, OutType DEF IInv
<1>5. inits' \in Nat
  BY <1>1 DEF IInv, TypeOK
<1>6. ASSUME NEW c \in Contexts, Read(c, TRUE), Answered(a, Cardinality(Kept(c))) PROVE IInv'
  <2> DEFINE n == Cardinality(Kept(c))
  <2>1. n \in Nat
    BY LayersFinite
  <2>2. /\ store' \subseteq Layers /\ describing' \in Nat /\ expected' \in Int
        /\ disabled' \in BOOLEAN /\ last' \in Contexts
        /\ describing' = describing + n
        /\ SilenceInv' /\ last' # None
    BY <1>6, ReadInv DEF IInv
  <2>3. Answered(a, n)
    BY <1>6
  <2> HIDE DEF n
  <2>4. /\ Out' = Out - 1 + (IF wmc' = "none" THEN 0 ELSE 1) + (describing' - describing) + 0
        /\ Out \in Nat /\ Out - 1 \in Nat
    BY <1>1, <1>4, <2>2, WmcOut DEF IInv
  <2>5. Out' = Out - 1 + n
    BY <1>1, <2>1, <2>2, <2>4 DEF IInv, TypeOK
  <2>6. waiter' \in Nat /\ unhidden' \in Nat /\ IconBounded'
    BY <1>3, <2>1, <2>3, <2>4, <2>5, IconStep
  <2>7. TypeOK'
    BY <1>1, <1>5, <2>2, <2>6 DEF IInv, TypeOK, Loads
  <2> QED
    BY <1>1, <2>2, <2>6, <2>7, ContextInvStep
<1>7. ASSUME UNCHANGED map, Answered(a, 0) PROVE IInv'
  <2>1. describing' \in Nat /\ describing' = describing /\ describing \in Nat
    BY <1>7 DEF map, IInv, TypeOK
  <2>2. /\ Out' = Out - 1 + (IF wmc' = "none" THEN 0 ELSE 1) + (describing' - describing) + 0
        /\ Out \in Nat /\ Out - 1 \in Nat
    BY <1>1, <1>4, <2>1, WmcOut DEF IInv
  <2>3. Out' = Out - 1 + 0
    BY <1>1, <2>1, <2>2
  <2>4. waiter' \in Nat /\ unhidden' \in Nat /\ IconBounded'
    BY <1>3, <1>7, <2>2, <2>3, IconStep
  <2>5. TypeOK'
    BY <1>1, <1>5, <1>7, <2>4 DEF IInv, TypeOK, Loads, map
  <2>6. SilenceInv' /\ (disabled' => last' # None)
    BY <1>7 DEF IInv, SilenceInv, ContextInv, map
  <2> QED
    BY <1>1, <2>4, <2>5, <2>6, ContextInvStep
<1> QED
  BY <1>2, <1>6, <1>7

-----------------------------------------------------------------------------
(* The theorems.                                                           *)

LEMMA NextInv == ASSUME IInv, [Next]_vars PROVE IInv'
<1>1. CASE Start
  BY <1>1, InitPostInv, InitGetInv, InitLatestInv, InitLatestRaisesInv DEF Start
<1>2. CASE Answers
  BY <1>2, ContextReadInv, OddLayersInv, FailedInv, FailedLatestInv, FileInv, CapabilitiesInv,
     LayersFoundInv, LayerDescribedInv, BrowsedInv DEF Answers
<1>3. CASE Users
  BY <1>3, BrowseInv, WindowInv DEF Users
<1>4. CASE UNCHANGED vars
  BY <1>4 DEF vars, requests, map, icon, IInv, TypeOK, IconBounded, Out, InitOnce, ready,
              SilenceInv, ContextInv, ContextFirst
<1> QED
  BY <1>1, <1>2, <1>3, <1>4 DEF Next

(* The inductive invariant: types, the bound of the icon, the callback run *)
(* once, and what the counts and the order of the requests rest on.        *)
THEOREM Invariant == Spec => []IInv
<1> QED
  BY InitInv, NextInv, PTL DEF Spec

(* For any contexts, layers and servers, in any order of the answers: the  *)
(* waiting icon of GEOR.waiter is never on for more than the requests out, *)
(* but for the answers that hid nothing before GEOR.ajaxglobal.init.       *)
THEOREM IconGoesOff == Spec => []IconBounded
<1>1. IInv => IconBounded
  BY DEF IInv
<1> QED
  BY <1>1, Invariant, PTL

(* GEOR.ajaxglobal.init runs once at most, when no context of mapinit is   *)
(* waited for any more (updateStoreFromWMC, cb).                           *)
THEOREM MonitoringStartsOnce == Spec => []InitOnce
<1>1. IInv => InitOnce
  BY DEF IInv
<1> QED
  BY <1>1, Invariant, PTL

(* When no description of a layer is waited for, errors are silenced only  *)
(* if the context read last had no layer or a layer was discarded, however *)
(* many contexts were read on top of each other (describeLayerCount).      *)
THEOREM SilenceEnds == Spec => []ErrorsComeBack
<1>1. IInv => ErrorsComeBack
  <2> SUFFICES ASSUME IInv, describing = 0, last # None, disabled,
                      LayersOf[last] # {}, LayersOf[last] \cap NoAddress = {}
               PROVE  FALSE
    BY DEF ErrorsComeBack
  <2>1. last \in Contexts
    BY DEF IInv, TypeOK
  <2>2. Cardinality(LayersOf[last] \cap NoAddress) = 0
    BY <2>1, LayersFinite
  <2>3. expected <= 0 /\ expected > 0 /\ expected \in Int
    BY <2>2 DEF IInv, SilenceInv, TypeOK
  <2> QED
    BY <2>3
<1> QED
  BY <1>1, Invariant, PTL

(* A page to which a context or layers are posted does not remove what it  *)
(* was asked to show when the context of mapinit is answered               *)
(* (updateStoreFromWMC, success).                                          *)
THEOREM PostedStaysOnTop == Spec => KeptOnTop
<1>1. ASSUME IInv, [Next]_vars
      PROVE  [(ContextFirst /\ wmc' # wmc) => store \cap Requested \subseteq store']_vars
  <2> SUFFICES ASSUME ContextFirst, wmc' # wmc PROVE store \cap Requested \subseteq store'
    OBVIOUS
  <2>1. opening # None
    BY DEF ContextFirst
  <2>2. wmc # "none"
    <3>1. ASSUME wmc = "none" PROVE FALSE
      <4>1. ~Start
        BY <2>1 DEF Start, InitPost, InitGet, InitLatest, InitLatestRaises
      <4>2. ~Users
        BY DEF Users, Browse, WindowClosed
      <4>3. ~Answers
        BY <3>1 DEF Answers, ContextRead, ContextReadOddLayers, ContextFailed,
                    ContextFailedLatest, FileAdded, FileRefused, CapabilitiesAnswered,
                    LayersFound, ServicesFound, LayerDescribed, BrowsedRead, BrowsedFailed
      <4>4. ~UNCHANGED vars
        BY DEF vars
      <4> QED
        BY <1>1, <4>1, <4>2, <4>3, <4>4 DEF Next
    <3> QED
      BY <3>1
  <2> QED
    BY <1>1, <2>2 DEF IInv, ContextInv
<1> QED
  BY <1>1, Invariant, PTL DEF Spec, KeptOnTop
=============================================================================
