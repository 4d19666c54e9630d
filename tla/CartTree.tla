------------------------------ MODULE CartTree ------------------------------
(***************************************************************************)
(* The tree of the extractor's page (GEOR_layerstree.js): what the cart    *)
(* offers is discovered by requests that answer in any order.  A counter   *)
(* of the requests still out decides when the mask over the tree is hidden *)
(* and when the monitoring of the page's requests starts (the callback of  *)
(* init).  Every answer is one atomic handler of the browser; a handler    *)
(* that raises a TypeError keeps what it did before and drops the rest.    *)
(*                                                                         *)
(* Abstracted: texts and icons, extents and projections; of the export     *)
(* options of a node only the resolution is kept.                          *)
(***************************************************************************)
EXTENDS Integers, FiniteSets

CONSTANTS
    Items,          \* entries of the cart: single layers and whole services
    Services,       \* those that are services
    WfsItems,       \* those whose owstype is WFS; the others are WMS
    Records,        \* layers that the capabilities of the items may list
    RecordsOf,      \* RecordsOf[i]: the layers of item i
    Global,         \* the "Default parameters" node
    MaxResolution,  \* resolutions are 1..MaxResolution, in meters per pixel
    LayersChecked   \* GEOR.config.LAYERS_CHECKED

Resolutions == 1 .. MaxResolution
Blank == 0                       \* no resolution: undefined, null or ''
Nodes == Records \cup {Global}

ASSUME CartAssumption ==
    /\ IsFiniteSet(Items) /\ IsFiniteSet(Records)
    /\ Services \subseteq Items /\ WfsItems \subseteq Items
    /\ RecordsOf \in [Items -> SUBSET Records]
    /\ \A i, j \in Items : i # j => RecordsOf[i] \cap RecordsOf[j] = {}
    /\ Global \notin Records
    /\ MaxResolution \in Nat \ {0}
    /\ LayersChecked \in BOOLEAN

VARIABLES
    mask,        \* the mask over the tree: not yet made, shown or hidden
    counter,     \* requests not yet answered, as the page counts them
    pending,     \* requests not yet answered
    raised,      \* requests whose handler raised before it counted them
    ready,       \* the callback ran: requests are monitored (GEOR.ajaxglobal.init)
    node,        \* node[r]: the tree node of layer r, if there is one
    checked,     \* the layers whose check box is ticked
    resolution,  \* exportinfo.resolution of each node
    combo,       \* value of the global resolution combo
    button,      \* is the extract button enabled?
    wanted       \* the resolution last given to a node, by a user or by metadata

loading == <<mask, counter, pending, raised, ready>>
tree == <<loading, node, checked, resolution, combo, button, wanted>>

Capabilities(i) == [kind |-> "capabilities", of |-> i]
DescribeLayer(r) == [kind |-> "describe", of |-> r]
Metadata(r) == [kind |-> "metadata", of |-> r]

TreeRequests ==
    {Capabilities(i) : i \in Items} \cup {DescribeLayer(r) : r \in Records}
        \cup {Metadata(r) : r \in Records}

\* "disabled" cannot be used; "error" looks like an error but can be selected.
NodeKinds == {"absent", "raster", "vector", "disabled", "error"}

TreeTypeOK ==
    /\ mask \in {"none", "shown", "hidden"}
    /\ counter \in Int
    /\ pending \subseteq TreeRequests /\ raised \subseteq TreeRequests
    /\ ready \in BOOLEAN
    /\ node \in [Records -> NodeKinds]
    /\ checked \subseteq Records
    /\ resolution \in [Nodes -> Resolutions \cup {Blank}]
    /\ combo \in Resolutions \cup {Blank}
    /\ button \in BOOLEAN
    /\ wanted \in [Nodes -> Resolutions \cup {Blank}]

(* The combo starts with DEFAULT_RESOLUTION, the largest here; nothing has *)
(* been saved in the global node yet.                                      *)
TreeInit ==
    /\ mask = "none"
    /\ counter = Cardinality(Items)
    /\ pending = {Capabilities(i) : i \in Items}
    /\ raised = {}
    /\ ready = FALSE
    /\ node = [r \in Records |-> "absent"]
    /\ checked = {}
    /\ resolution = [n \in Nodes |-> Blank]
    /\ combo = MaxResolution
    /\ button = TRUE
    /\ wanted = [n \in Nodes |-> IF n = Global THEN MaxResolution ELSE Blank]

-----------------------------------------------------------------------------
(* The handlers of the answers.                                            *)

\* The mask is made 20 ms after the panel has been rendered.
ShowMask ==
    /\ mask = "none"
    /\ mask' = "shown"
    /\ UNCHANGED <<counter, pending, raised, ready, node, checked, resolution,
                   combo, button, wanted>>

(* One request, of the c counted, is over.  mask.hide() raises when the    *)
(* last answer comes before the mask: the callback is then never called.   *)
Stuck(c) == c = 1 /\ mask = "none"

CheckNullCounter(c) ==
    /\ counter' = c - 1
    /\ IF c = 1 /\ ~Stuck(c)
       THEN mask' = "hidden" /\ ready' = TRUE
       ELSE UNCHANGED <<mask, ready>>
    /\ UNCHANGED raised

AppendNodes(S, kind) ==
    /\ node' = [r \in Records |-> IF r \in S THEN kind ELSE node[r]]
    /\ checked' = IF kind \in {"raster", "vector"} /\ LayersChecked
                  THEN checked \cup S ELSE checked

(* The capabilities of i list the layers of S.  A WFS layer gets its node  *)
(* at once, a WMS layer waits for DescribeLayer; a single layer that the   *)
(* capabilities do not list gets a disabled node.                          *)
CapabilitiesRead(i, S) ==
    /\ Capabilities(i) \in pending
    /\ IF i \in WfsItems
       THEN /\ pending' = pending \ {Capabilities(i)}
            /\ CheckNullCounter(counter)
            /\ IF S = {} /\ i \notin Services
               THEN AppendNodes(RecordsOf[i], "disabled")
               ELSE AppendNodes(S, "vector")
       ELSE /\ LET asks == {DescribeLayer(r) : r \in S}
               IN /\ pending' = (pending \ {Capabilities(i)}) \cup asks
                  /\ CheckNullCounter(counter + Cardinality(asks))
            /\ IF S = {} /\ i \notin Services
               THEN AppendNodes(RecordsOf[i], "disabled")
               ELSE UNCHANGED <<node, checked>>
    /\ UNCHANGED <<resolution, combo, button, wanted>>

\* Mutant: a failure is not counted.
CapabilitiesFailedUncounted(i) ==
    /\ Capabilities(i) \in pending
    /\ pending' = pending \ {Capabilities(i)}
    /\ UNCHANGED <<mask, counter, ready, raised, node, checked, resolution, combo,
                   button, wanted>>

(* The failure handler appends to servicesNode whatever the item is: with  *)
(* no service in the cart that variable is undefined, and the handler      *)
(* raises before it has counted its answer.                                *)
CapabilitiesFailed(i) ==
    /\ Capabilities(i) \in pending
    /\ pending' = pending \ {Capabilities(i)}
    /\ IF Services = {}
       THEN /\ raised' = raised \cup {Capabilities(i)}
            /\ UNCHANGED <<mask, counter, ready>>
       ELSE CheckNullCounter(counter)
    /\ UNCHANGED <<node, checked, resolution, combo, button, wanted>>

\* DescribeLayer gives no record, or gives a type that is no source.
DescribedUseless(r) ==
    /\ DescribeLayer(r) \in pending
    /\ pending' = pending \ {DescribeLayer(r)}
    /\ CheckNullCounter(counter)
    /\ \E kind \in {"disabled", "error"} : AppendNodes({r}, kind)
    /\ UNCHANGED <<resolution, combo, button, wanted>>

\* The failure handler counts its answer before it appends the node.
DescribeFailed(r) ==
    /\ DescribeLayer(r) \in pending
    /\ pending' = pending \ {DescribeLayer(r)}
    /\ CheckNullCounter(counter)
    /\ IF Stuck(counter)
       THEN UNCHANGED <<node, checked>>
       ELSE AppendNodes({r}, "disabled")
    /\ UNCHANGED <<resolution, combo, button, wanted>>

\* A vector source, or a raster source without the address of its metadata.
DescribedSource(r) ==
    /\ DescribeLayer(r) \in pending
    /\ pending' = pending \ {DescribeLayer(r)}
    /\ CheckNullCounter(counter)
    /\ \E kind \in {"raster", "vector"} : AppendNodes({r}, kind)
    /\ UNCHANGED <<resolution, combo, button, wanted>>

\* A raster source whose metadata may give its resolution.
DescribedWithMetadata(r) ==
    /\ DescribeLayer(r) \in pending
    /\ pending' = (pending \ {DescribeLayer(r)}) \cup {Metadata(r)}
    /\ CheckNullCounter(counter + 1)
    /\ UNCHANGED <<node, checked, resolution, combo, button, wanted>>

\* Mutant: the lower resolution is shown for the cart and not saved for it.
MetadataReadShown(r, v) ==
    /\ Metadata(r) \in pending
    /\ pending' = pending \ {Metadata(r)}
    /\ CheckNullCounter(counter)
    /\ AppendNodes({r}, "raster")
    /\ LET lower == v < combo
       IN /\ resolution' = [resolution EXCEPT ![r] = v]
          /\ wanted' = [wanted EXCEPT ![r] = v, ![Global] = IF lower THEN v ELSE @]
          /\ combo' = IF lower THEN v ELSE combo
          /\ button' = (lower \/ button)

(* The metadata gives resolution v, which becomes the layer's, and that of *)
(* the whole cart if it is lower.  A comparison with a blank combo is      *)
(* false.  Setting the combo validates it, which enables the button.       *)
MetadataRead(r, v) ==
    /\ Metadata(r) \in pending
    /\ pending' = pending \ {Metadata(r)}
    /\ CheckNullCounter(counter)
    /\ AppendNodes({r}, "raster")
    /\ LET lower == v < combo
           given == IF lower THEN {r, Global} ELSE {r}
       IN /\ resolution' = [n \in Nodes |-> IF n \in given THEN v ELSE resolution[n]]
          /\ wanted' = [n \in Nodes |-> IF n \in given THEN v ELSE wanted[n]]
          /\ combo' = IF lower THEN v ELSE combo
          /\ button' = (lower \/ button)

\* The metadata cannot be had, or says nothing of the resolution.
MetadataUseless(r) ==
    /\ Metadata(r) \in pending
    /\ pending' = pending \ {Metadata(r)}
    /\ CheckNullCounter(counter)
    /\ AppendNodes({r}, "raster")
    /\ UNCHANGED <<resolution, combo, button, wanted>>

\* The answer is no XML document: it is counted, and the layer gets no node.
MetadataNotXml(r) ==
    /\ Metadata(r) \in pending
    /\ pending' = pending \ {Metadata(r)}
    /\ CheckNullCounter(counter)
    /\ UNCHANGED <<node, checked, resolution, combo, button, wanted>>

CapabilitiesAnswered(i) ==
    (\E S \in SUBSET RecordsOf[i] : CapabilitiesRead(i, S)) \/ CapabilitiesFailed(i)

DescribeAnswered(r) ==
    \/ DescribedUseless(r) \/ DescribeFailed(r)
    \/ DescribedSource(r) \/ DescribedWithMetadata(r)

MetadataAnswered(r) ==
    (\E v \in Resolutions : MetadataRead(r, v)) \/ MetadataUseless(r) \/ MetadataNotXml(r)

TreeNext ==
    \/ ShowMask
    \/ \E i \in Items : CapabilitiesAnswered(i)
    \/ \E r \in Records : DescribeAnswered(r) \/ MetadataAnswered(r)

-----------------------------------------------------------------------------
\* Nodes that can be selected have been appended and are not disabled.
Selectable(n) == IF n = Global THEN TRUE ELSE node[n] \in {"raster", "vector", "error"}

\* Nodes that carry the description of a source (attributes.owsinfo).
HasSource(n) == IF n = Global THEN TRUE ELSE node[n] \in {"raster", "vector"}

(* The monitoring of the requests starts, and the mask goes, only when the *)
(* last request of the tree has been answered, in whatever order the three *)
(* kinds of answers come (counter, GEOR_layerstree.js).                    *)
ReadyWhenAnswered == (ready \/ mask = "hidden") => pending = {}

(* What the counter is: the answers still to come, and one for every       *)
(* handler that raised before counting.                                    *)
CounterCountsAnswers == counter = Cardinality(pending) + Cardinality(raised)

(* The requests of an item follow one another, and the node of a layer is  *)
(* appended by the last one about it.                                      *)
RequestsFollow ==
    /\ \A i \in Items : Capabilities(i) \in pending =>
          \A r \in RecordsOf[i] :
              /\ node[r] = "absent"
              /\ DescribeLayer(r) \notin pending /\ Metadata(r) \notin pending
    /\ \A r \in Records :
          /\ DescribeLayer(r) \in pending => node[r] = "absent" /\ Metadata(r) \notin pending
          /\ Metadata(r) \in pending => node[r] = "absent"
    /\ raised \subseteq {Capabilities(i) : i \in Items} \ pending
=============================================================================
