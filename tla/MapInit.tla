------------------------------ MODULE MapInit ------------------------------
(***************************************************************************)
(* How the viewer's page fills its map (GEOR_mapinit.js): a context        *)
(* document replaces the layers of the map, a file and layers named in the *)
(* query or posted with it are added, and users read more contexts, while  *)
(* every new WMS layer is described by a request of its own (GEOR_map.js). *)
(* Three things must agree with the requests out: the waiting icon, which  *)
(* is hidden by hand until GEOR.ajaxglobal.init and by every completed     *)
(* request after it; the errors that are silenced while a context is       *)
(* restored; and the order in which the map is reset and added to.         *)
(*                                                                         *)
(* An action is one handler of the browser.  Abstracted: projections,      *)
(* extents and texts; a layer is one name, whatever its copies.            *)
(***************************************************************************)
EXTENDS Integers, FiniteSets

CONSTANTS
    Contexts,       \* context documents
    Layers,         \* layers they hold, and layers that are asked for
    LayersOf,       \* LayersOf[c]: the layers of context c
    NoAddress,      \* layers saved without their address: never added
    Kinds,          \* WMSLayer, WFSLayer, WMS, WFS
    WmsKinds,       \* those whose layers are described
    LayerKinds,     \* those that name layers; the others name whole services
    Servers,
    ServersOf,      \* ServersOf[k]: the servers to be asked for kind k
    OfferOf,        \* OfferOf[k]: the layers asked for, or that a window offers
    FileLayer,      \* the layer made from CUSTOM_FILE
    None,
    MaxBrowsed      \* bound: contexts that users ask for

ASSUME MapAssumption ==
    /\ IsFiniteSet(Contexts) /\ IsFiniteSet(Layers) /\ IsFiniteSet(Kinds)
    /\ IsFiniteSet(Servers)
    /\ LayersOf \in [Contexts -> SUBSET Layers]
    /\ NoAddress \subseteq Layers
    /\ WmsKinds \subseteq Kinds /\ LayerKinds \subseteq Kinds
    /\ ServersOf \in [Kinds -> SUBSET Servers]
    /\ OfferOf \in [Kinds -> SUBSET (Layers \ NoAddress)]
    /\ FileLayer \in Layers \ NoAddress
    \* a layer is named apart from the others by where it comes from
    /\ \A c \in Contexts : /\ FileLayer \notin LayersOf[c]
                          /\ \A k \in Kinds : OfferOf[k] \cap LayersOf[c] = {}
    /\ None \notin Contexts
    /\ MaxBrowsed \in Nat

(* How the page is opened: GEOR.initstate posted as one context or as a    *)
(* list, or a GET, with or without CUSTOM_WMC, CUSTOM_FILE, and OWS        *)
(* parameters; latest: a context was kept in the local storage.  A list    *)
(* may hold an entry of a type that loadLayers does not know.              *)
Posts == [mode : {"postContext"}, layers : {"none"}, custom : {FALSE}, file : {FALSE},
          latest : {FALSE}]
         \cup [mode : {"postLayers"}, layers : {"known", "odd"}, custom : {FALSE},
               file : {FALSE}, latest : {FALSE}]
Gets == [mode : {"get"}, layers : {"none", "known"}, custom : BOOLEAN, file : BOOLEAN,
         latest : BOOLEAN]
Openings == Posts \cup Gets

ASSUME NoneAssumption == None \notin Openings

VARIABLES
    opening,     \* one of Openings, None before init has run
    wmc,         \* the request of updateStoreFromWMC that is out
    caps,        \* capabilities asked for and not answered
    file,        \* is the conversion of CUSTOM_FILE out?
    browsed,     \* contexts that users asked for and that are not answered
    describing,  \* DescribeLayer requests out
    asks,        \* contexts asked for by users so far
    store,       \* the layers of the map
    windows,     \* kinds whose selection window is open
    inits,       \* calls of the page's callback: GEOR.ajaxglobal.init and more
    waiter,      \* count of GEOR.waiter
    unhidden,    \* answers that came before the monitoring and hid nothing
    expected,    \* describeLayerCount
    disabled,    \* GEOR.ajaxglobal.disableAllErrors
    last         \* the context last read

requests == <<caps, file, browsed, asks, windows>>
map == <<describing, store, expected, disabled, last>>
icon == <<waiter, unhidden>>
vars == <<opening, wmc, requests, map, inits, icon>>

ready == inits > 0
Loads == {"none", "custom", "default", "posted", "thenLayers"}
Requested == (UNION {OfferOf[k] : k \in Kinds}) \cup {FileLayer}
CapsOf(k) == {k} \X ServersOf[k]

TypeOK ==
    /\ opening \in Openings \cup {None}
    /\ wmc \in Loads
    /\ caps \subseteq Kinds \X Servers
    /\ file \in BOOLEAN
    /\ browsed \subseteq Contexts \X BOOLEAN
    /\ describing \in Nat /\ asks \in Nat
    /\ store \subseteq Layers
    /\ windows \subseteq Kinds
    /\ inits \in Nat /\ waiter \in Nat /\ unhidden \in Nat
    /\ expected \in Int
    /\ disabled \in BOOLEAN
    /\ last \in Contexts \cup {None}

(* describeLayerCount starts undefined, and is not 0 after a decrement: as *)
(* if it started with 0.                                                   *)
Init ==
    /\ opening = None /\ wmc = "none" /\ caps = {} /\ file = FALSE
    /\ browsed = {} /\ describing = 0 /\ asks = 0 /\ store = {} /\ windows = {}
    /\ inits = 0 /\ waiter = 0 /\ unhidden = 0
    /\ expected = 0 /\ disabled = FALSE /\ last = None

-----------------------------------------------------------------------------
\* GEOR.waiter.hide, n times.
Hidden(count, n) == IF count > n THEN count - n ELSE 0

(* The icon after an answer whose handler hides it n times, then shows it  *)
(* for more requests; the monitoring hides it once before.                 *)
Answered(n, more) ==
    /\ waiter' = Hidden(waiter, n + (IF ready THEN 1 ELSE 0)) + more
    /\ unhidden' = IF n = 0 /\ ~ready THEN unhidden + 1 ELSE unhidden

\* Layers of context c that pass the filter of the store.
Kept(c) == LayersOf[c] \ NoAddress

(* GEOR.wmc.read of a valid context.  Its layers are all WMS layers, each  *)
(* is described as it enters the store.                                    *)
Read(c, reset) ==
    /\ store' = (IF reset THEN {} ELSE store) \cup Kept(c)
    /\ describing' = describing + Cardinality(Kept(c))
    /\ expected' = Cardinality(LayersOf[c])
    /\ disabled' = TRUE
    /\ last' = c

\* Layers of kind k are added, and described if they are WMS layers.
Described(k, S) == IF k \in WmsKinds THEN Cardinality(S) ELSE 0

Add(k, S) ==
    /\ store' = store \cup S
    /\ describing' = describing + Described(k, S)
    /\ UNCHANGED <<expected, disabled, last>>

LoadLayers == UNION {CapsOf(k) : k \in Kinds}

-----------------------------------------------------------------------------
(* GEOR.mapinit.init.                                                      *)

\* Mutant: the posted layers are loaded along with the default context.
InitPostAtOnce(o) ==
    /\ opening = None
    /\ opening' = o
    /\ wmc' = "posted"
    /\ caps' = IF o.mode = "postLayers" THEN LoadLayers ELSE {}
    /\ waiter' = waiter + 1 + Cardinality(caps')
    /\ UNCHANGED <<file, browsed, asks, windows, map, inits, unhidden>>

InitPost(o) ==
    /\ opening = None
    /\ opening' = o
    /\ wmc' = IF o.mode = "postContext" THEN "posted" ELSE "thenLayers"
    /\ waiter' = waiter + 1
    /\ UNCHANGED <<requests, map, inits, unhidden>>

(* A GET starts everything at once.  In loadLayers an entry of an unknown  *)
(* type raises before any server is asked.                                 *)
GetRequests(o) ==
    /\ file' = o.file
    /\ caps' = IF o.layers = "known" THEN LoadLayers ELSE {}
    /\ UNCHANGED <<browsed, asks, windows>>

Asked(o) ==
    (IF o.file THEN 1 ELSE 0) + (IF o.layers = "known" THEN Cardinality(LoadLayers) ELSE 0)

InitGet(o) ==
    /\ opening = None /\ (o.custom \/ ~o.latest)
    /\ opening' = o
    /\ GetRequests(o)
    /\ wmc' = IF o.custom THEN "custom" ELSE "default"
    /\ waiter' = waiter + 1 + Asked(o)
    /\ UNCHANGED <<map, inits, unhidden>>

\* The latest context is read at once, or is none and is only said to be so.
InitLatest(o) ==
    /\ opening = None /\ ~o.custom /\ o.latest
    /\ opening' = o
    /\ GetRequests(o)
    /\ \/ \E c \in Contexts :
            /\ Read(c, TRUE)
            /\ waiter' = waiter + Cardinality(Kept(c)) + Asked(o)
       \/ UNCHANGED map /\ waiter' = waiter + Asked(o)
    /\ inits' = inits + 1
    /\ UNCHANGED <<wmc, unhidden>>

\* The reading of the latest context raises: init goes no further.
InitLatestRaises(o) ==
    /\ opening = None /\ ~o.custom /\ o.latest
    /\ opening' = o
    /\ UNCHANGED <<wmc, requests, map, inits, icon>>

-----------------------------------------------------------------------------
(* The answers.                                                            *)

(* The success handler of updateStoreFromWMC: the context is read, or is   *)
(* not a context, which is only said; the map is always reset.  Then the   *)
(* posted layers are asked for, and the callback is run.  That the zoom to *)
(* the custom extent or the callback raises, inside the same try, is left  *)
(* out: no input is known that makes them.                                 *)
ContextRead ==
    /\ wmc # "none" /\ ~(wmc = "thenLayers" /\ opening.layers = "odd")
    /\ wmc' = "none"
    /\ LET asked == IF wmc = "thenLayers" THEN LoadLayers ELSE {}
       IN /\ caps' = caps \cup asked
          /\ \/ \E c \in Contexts :
                  /\ Read(c, TRUE)
                  /\ Answered(1, Cardinality(Kept(c)) + Cardinality(asked))
             \/ UNCHANGED map /\ Answered(1, Cardinality(asked))
    /\ inits' = inits + 1
    /\ UNCHANGED <<opening, file, browsed, asks, windows>>

(* A type that loadLayers does not know raises in the success handler,     *)
(* after the context has been read: the callback is not run.               *)
ContextReadOddLayers ==
    /\ wmc = "thenLayers" /\ opening.layers = "odd"
    /\ wmc' = "none"
    /\ \/ \E c \in Contexts :
            /\ Read(c, TRUE)
            \* hidden by the success handler, shown for the layers, and
            \* hidden by the failure handler
            /\ waiter' = Hidden(Hidden(waiter, IF ready THEN 2 ELSE 1)
                                  + Cardinality(Kept(c)), 1)
       \/ UNCHANGED map /\ waiter' = Hidden(waiter, IF ready THEN 3 ELSE 2)
    /\ UNCHANGED <<opening, requests, inits, unhidden>>

\* Mutant: the failure handler runs the callback too.
ContextFailedInits(raised) ==
    /\ wmc # "none"
    /\ Answered(IF raised THEN 2 ELSE 1, IF wmc = "custom" THEN 1 ELSE 0)
    /\ wmc' = IF wmc = "custom" THEN "default" ELSE "none"
    /\ inits' = inits + 1
    /\ UNCHANGED <<opening, requests, map>>

(* The request fails, or its document cannot be parsed and the success     *)
(* handler, which has hidden the icon, calls the failure handler.  After a *)
(* custom context, loadDefaultWMC; else nothing more happens.  The map is  *)
(* as it was: a reading that raises half way (GEOR_wmc.js), with some      *)
(* layers removed or added, is left out.                                   *)
ContextFailed(raised) ==
    /\ wmc # "none"
    /\ ~(wmc = "custom" /\ opening.latest)
    /\ Answered(IF raised THEN 2 ELSE 1, IF wmc = "custom" THEN 1 ELSE 0)
    /\ wmc' = IF wmc = "custom" THEN "default" ELSE "none"
    /\ UNCHANGED <<opening, requests, map, inits>>

\* As above, and loadDefaultWMC reads the latest context at once.
ContextFailedLatest(raised) ==
    /\ wmc = "custom" /\ opening.latest
    /\ wmc' = "none"
    /\ \/ \E c \in Contexts :
            /\ Read(c, TRUE)
            /\ Answered(IF raised THEN 2 ELSE 1, Cardinality(Kept(c)))
            /\ inits' = inits + 1
       \/ \E n \in {inits, inits + 1} :      \* it raises, or is no context
            /\ UNCHANGED map
            /\ Answered(IF raised THEN 2 ELSE 1, 0)
            /\ inits' = n
    /\ UNCHANGED <<opening, requests>>

\* Mutant: the icon is not hidden by hand.
FileAddedUnhidden ==
    /\ file /\ file' = FALSE
    /\ store' = store \cup {FileLayer}
    /\ waiter' = Hidden(waiter, IF ready THEN 1 ELSE 0)
    /\ UNCHANGED <<opening, wmc, caps, browsed, asks, windows, describing, expected,
                   disabled, last, inits, unhidden>>

\* toGeoJSONSuccess: a layer is made of the file.
FileAdded ==
    /\ file /\ file' = FALSE
    /\ store' = store \cup {FileLayer}
    /\ Answered(1, 0)
    /\ UNCHANGED <<opening, wmc, caps, browsed, asks, windows, describing, expected,
                   disabled, last, inits>>

(* The failure handler hides the icon; a success that says it is an error, *)
(* or holds no features, does not.                                         *)
FileRefused(hides) ==
    /\ file /\ file' = FALSE
    /\ Answered(IF hides THEN 1 ELSE 0, 0)
    /\ UNCHANGED <<opening, wmc, caps, browsed, asks, windows, map, inits>>

\* capabilitiesCallback, for a success as for a failure, but not the last.
CapabilitiesAnswered(k, s) ==
    /\ <<k, s>> \in caps
    /\ caps' = caps \ {<<k, s>>}
    /\ caps' \cap CapsOf(k) # {}
    /\ Answered(0, 0)
    /\ UNCHANGED <<opening, wmc, file, browsed, asks, windows, map, inits>>

(* The last answer of a kind of layers: those found and of the right       *)
(* projection are added (updateStoreFromWxSLayer).  The icon is hidden by  *)
(* the monitoring, shown for the new layers, and hidden once.              *)
LayersFound(k, s, S) ==
    /\ <<k, s>> \in caps /\ k \in LayerKinds
    /\ caps' = caps \ {<<k, s>>}
    /\ caps' \cap CapsOf(k) = {}
    /\ Add(k, S)
    /\ waiter' = Hidden(Hidden(waiter, IF ready THEN 1 ELSE 0) + Described(k, S), 1)
    /\ UNCHANGED <<opening, wmc, file, browsed, asks, windows, inits, unhidden>>

\* The last answer of a kind of services: a window opens (updateStoreFromWxS).
ServicesFound(k, s) ==
    /\ <<k, s>> \in caps /\ k \notin LayerKinds
    /\ caps' = caps \ {<<k, s>>}
    /\ caps' \cap CapsOf(k) = {}
    /\ windows' = windows \cup {k}
    /\ Answered(1, 0)
    /\ UNCHANGED <<opening, wmc, file, browsed, asks, map, inits>>

\* Mutant: an answer of DescribeLayer is not counted.
LayerDescribedUncounted ==
    /\ describing > 0
    /\ describing' = describing - 1
    /\ Answered(0, 0)
    /\ UNCHANGED <<opening, wmc, requests, store, last, expected, disabled, inits>>

\* Mutant: the count is tested before it is decremented.
LayerDescribedLate ==
    /\ describing > 0
    /\ describing' = describing - 1
    /\ expected' = expected - 1
    /\ disabled' = (disabled /\ expected # 0)
    /\ Answered(0, 0)
    /\ UNCHANGED <<opening, wmc, requests, store, last, inits>>

\* WMSDescribeLayer is answered, well or not, whatever context it comes from.
LayerDescribed ==
    /\ describing > 0
    /\ describing' = describing - 1
    /\ expected' = expected - 1
    /\ disabled' = (disabled /\ expected' # 0)
    /\ Answered(0, 0)
    /\ UNCHANGED <<opening, wmc, requests, store, last, inits>>

\* contextselected: a context that a user has asked for is read.
BrowsedRead(c, noReset) ==
    /\ <<c, noReset>> \in browsed
    /\ browsed' = browsed \ {<<c, noReset>>}
    /\ Read(c, ~noReset)
    /\ Answered(0, Cardinality(Kept(c)))
    /\ UNCHANGED <<opening, wmc, caps, file, asks, windows, inits>>

BrowsedFailed(c, noReset) ==
    /\ <<c, noReset>> \in browsed
    /\ browsed' = browsed \ {<<c, noReset>>}
    /\ Answered(0, 0)
    /\ UNCHANGED <<opening, wmc, caps, file, asks, windows, map, inits>>

-----------------------------------------------------------------------------
(* The user.                                                               *)

\* fetchAndRestoreWMC
Browse(c, noReset) ==
    /\ opening # None /\ asks < MaxBrowsed /\ <<c, noReset>> \notin browsed
    /\ asks' = asks + 1
    /\ browsed' = browsed \cup {<<c, noReset>>}
    /\ waiter' = waiter + 1
    /\ UNCHANGED <<opening, wmc, caps, file, windows, map, inits, unhidden>>

\* OK in the window of a kind of services, with the layers S; or Close.
WindowClosed(k, S) ==
    /\ k \in windows
    /\ windows' = windows \ {k}
    /\ Add(k, S)
    /\ waiter' = waiter + Described(k, S)
    /\ UNCHANGED <<opening, wmc, caps, file, browsed, asks, inits, unhidden>>

Start ==
    \/ \E o \in Posts : InitPost(o)
    \/ \E o \in Gets : InitGet(o) \/ InitLatest(o) \/ InitLatestRaises(o)

Answers ==
    \/ ContextRead \/ ContextReadOddLayers
    \/ \E raised \in BOOLEAN : ContextFailed(raised) \/ ContextFailedLatest(raised)
    \/ FileAdded \/ (\E hides \in BOOLEAN : FileRefused(hides))
    \/ \E k \in Kinds, s \in Servers :
          \/ CapabilitiesAnswered(k, s) \/ ServicesFound(k, s)
          \/ \E S \in SUBSET OfferOf[k] : LayersFound(k, s, S)
    \/ LayerDescribed
    \/ \E c \in Contexts, noReset \in BOOLEAN :
          BrowsedRead(c, noReset) \/ BrowsedFailed(c, noReset)

Users ==
    \/ \E c \in Contexts, noReset \in BOOLEAN : Browse(c, noReset)
    \/ \E k \in Kinds : \E S \in SUBSET OfferOf[k] : WindowClosed(k, S)

Next == Start \/ Answers \/ Users

Spec == Init /\ [][Next]_vars

\* Every request is answered, if only by a failure.
FairSpec == Spec /\ WF_vars(Answers)

-----------------------------------------------------------------------------
(* Properties.                                                             *)

(* The requests that the waiting icon is shown for. *)
Out ==
    Cardinality(caps) + Cardinality(browsed) + describing
      + (IF wmc = "none" THEN 0 ELSE 1) + (IF file THEN 1 ELSE 0)

(* The icon does not outlive the requests: what may leave it on is only an *)
(* answer that came before the monitoring and whose handler hides nothing. *)
(* So it goes when all is answered after GEOR.ajaxglobal.init.             *)
IconBounded == waiter <= Out + unhidden

(* Monitoring starts once: handleComplete is not registered twice, and no  *)
(* context of mapinit is waited for when it is (updateStoreFromWMC, cb).   *)
InitOnce == inits <= 1 /\ (ready => wmc = "none")

(* Errors are heard again once all layers are described, if the context    *)
(* that was read last has layers and none was discarded: layers of earlier *)
(* contexts and layers added meanwhile may only count too early            *)
(* (describeLayerCount, GEOR.js).                                          *)
ErrorsComeBack ==
    (describing = 0 /\ last # None /\ disabled) =>
        LayersOf[last] = {} \/ LayersOf[last] \cap NoAddress # {}

(* A page to which a context or layers are posted never removes what it    *)
(* was asked to show when it reads its first context (updateStoreFromWMC,  *)
(* success).                                                               *)
ContextFirst == opening # None /\ opening.mode # "get"

KeptOnTop == [][(ContextFirst /\ wmc' # wmc) => store \cap Requested \subseteq store']_vars

(* Errors are not silenced for ever: the layers of the context do get      *)
(* described, or it had none, or some were discarded (disableAllErrors).   *)
ErrorsReturn ==
    disabled ~> (~disabled \/ LayersOf[last] = {} \/ LayersOf[last] \cap NoAddress # {})

(* The inductive invariant of the proofs.                                  *)
SilenceInv ==
    (disabled /\ last # None) =>
        /\ expected <= describing + Cardinality(LayersOf[last] \cap NoAddress)
        /\ LayersOf[last] # {} => expected > 0

ContextInv ==
    /\ disabled => last # None
    /\ opening = None => /\ wmc = "none" /\ caps = {} /\ ~file /\ windows = {}
                         /\ browsed = {} /\ store = {} /\ inits = 0
    /\ wmc = "thenLayers" => ContextFirst
    /\ (ContextFirst /\ wmc # "none") =>
          caps = {} /\ ~file /\ windows = {} /\ store \cap Requested = {}

IInv == TypeOK /\ IconBounded /\ InitOnce /\ SilenceInv /\ ContextInv

-----------------------------------------------------------------------------
(* "load the given layer on top of the WMC" (GEOR_mapinit.js), of the      *)
(* layers of a GET.                                                        *)
OnTopOfTheWMC == [][wmc' # wmc => store \cap Requested \subseteq store']_vars
=============================================================================
