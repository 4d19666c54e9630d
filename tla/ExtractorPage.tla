--------------------------- MODULE ExtractorPage ---------------------------
(***************************************************************************)
(* The extractor's page: a user selects nodes of the cart, edits their     *)
(* options, and goes through the dialogs that lead to an extraction        *)
(* (GEOR.js, GEOR_layeroptions.js, GEOR_dlform.js, GEOR_waiter.js), while  *)
(* the tree of CartTree is still being filled and while earlier requests   *)
(* are out.  An action is one handler of the browser, with everything it   *)
(* calls.                                                                  *)
(***************************************************************************)
EXTENDS CartTree

CONSTANTS
    Emails,        \* valid addresses
    KnownEmail,    \* GEOR.data.email when the page is served
    NoEmail,       \* no address, or one that is not valid
    Typed,         \* what users type as a resolution
    Coarse,        \* rasters are oversized below this resolution
    MaxClicks,     \* bound: clicks on the extract button
    MaxEdits,      \* bound: options typed and boxes ticked
    MaxForms       \* bound: download forms in flight

ASSUME PageAssumption ==
    /\ NoEmail \notin Emails /\ KnownEmail \in Emails \cup {NoEmail}
    /\ Typed \subseteq Resolutions \cup {Blank}
    /\ Coarse \in Nat /\ MaxClicks \in Nat /\ MaxEdits \in Nat /\ MaxForms \in Nat

VARIABLES
    selected,  \* the selected node
    custom,    \* value of the resolution combo shared by all the layers
    edits,     \* options typed and boxes ticked so far
    dialog,    \* the modal dialog that is open
    clicks,    \* clicks so far; the number of the flow of dialogs going on
    settled,   \* was the tree loaded when the button was clicked?
    asked,     \* oversized layers the user has agreed to in this flow
    target,    \* address that the callback of the open form was made with
    forms,     \* download forms submitted and not answered
    job,       \* the last extraction sent, while it is not answered
    inFlight,  \* extractions sent and not answered
    timers,    \* timeouts that will enable the button again
    waiter,    \* is the waiting icon visible?
    email,     \* GEOR.data.email
    stored,    \* localStorage.email
    withForm,  \* GEOR.config.DOWNLOAD_FORM
    anonymous  \* GEOR.data.anonymous

options == <<selected, custom, edits>>
flow == <<dialog, clicks, settled, asked, target, forms>>
jobs == <<job, inFlight, timers, waiter>>
addresses == <<email, stored, withForm, anonymous>>
page == <<options, flow, jobs, addresses>>
vars == <<tree, page>>

NoJob == [layers |-> <<>>, global |-> Blank, email |-> NoEmail]

TypeOK ==
    /\ TreeTypeOK
    /\ selected \in Nodes
    /\ custom \in Resolutions \cup {Blank}
    /\ edits \in 0 .. MaxEdits
    /\ dialog \in {"none", "all", "oversized", "prompt", "form"}
    /\ clicks \in 0 .. MaxClicks
    /\ settled \in BOOLEAN
    /\ asked \subseteq Records
    /\ target \in Emails \cup {NoEmail}
    /\ \A f \in forms : f.flow \in 1 .. MaxClicks /\ f.target \in Emails
    /\ inFlight \in Nat /\ timers \in Nat
    /\ waiter \in BOOLEAN
    /\ {email, stored} \subseteq Emails \cup {NoEmail}
    /\ withForm \in BOOLEAN /\ anonymous \in BOOLEAN

Init ==
    /\ TreeInit
    /\ selected = Global /\ custom = Blank /\ edits = 0
    /\ dialog = "none" /\ clicks = 0 /\ settled = FALSE /\ asked = {}
    /\ target = NoEmail /\ forms = {}
    /\ job = NoJob /\ inFlight = 0 /\ timers = 0 /\ waiter = FALSE
    /\ email = KnownEmail
    /\ stored = NoEmail
    /\ withForm \in BOOLEAN /\ anonymous \in BOOLEAN

-----------------------------------------------------------------------------
(* Options: two panels of widgets for all the nodes.                       *)

Shown(n) == IF n = Global THEN combo ELSE custom

\* saveExportOptions(getOptions()): what the panel shows goes to the node.
Saved == [resolution EXCEPT ![selected] = Shown(selected)]

\* Mutant: the options of the node that is left are not saved.
SelectSourceUnsaved(n) ==
    /\ dialog = "none"
    /\ n # selected /\ HasSource(n) /\ HasSource(selected)
    /\ selected' = n
    /\ IF n = Global THEN UNCHANGED custom ELSE custom' = resolution[n]
    /\ UNCHANGED <<tree, edits, flow, jobs, addresses>>

(* Selecting a node saves the options of the node that is left and shows   *)
(* those of the new one.  setOptions skips a blank global resolution;      *)
(* setting the combo validates it, which enables the button.               *)
SelectSource(n) ==
    /\ dialog = "none"
    /\ n # selected /\ HasSource(n) /\ HasSource(selected)
    /\ resolution' = Saved
    /\ selected' = n
    /\ IF n = Global
       THEN /\ combo' = IF resolution[n] = Blank THEN combo ELSE resolution[n]
            /\ button' = (resolution[n] # Blank \/ button)
            /\ UNCHANGED custom
       ELSE /\ custom' = resolution[n]
            /\ UNCHANGED <<combo, button>>
    /\ UNCHANGED <<loading, node, checked, wanted, edits, flow, jobs, addresses>>

\* Mutant: the page can be used while a dialog is open.
EditAnytime == edits < MaxEdits /\ edits' = edits + 1

(* An error node has no owsinfo: its selection raises once it is made, and *)
(* every later selection raises before it is made.                         *)
SelectError(r) ==
    /\ dialog = "none"
    /\ HasSource(selected) /\ node[r] = "error"
    /\ resolution' = Saved
    /\ selected' = r
    /\ UNCHANGED <<loading, node, checked, combo, button, wanted, custom, edits,
                   flow, jobs, addresses>>

Edit == dialog = "none" /\ edits < MaxEdits /\ edits' = edits + 1

\* The combo's listeners enable the button, or disable it when it is blank.
EditGlobal(v) ==
    /\ Edit /\ selected = Global
    /\ combo' = v
    /\ button' = (v # Blank)
    /\ wanted' = [wanted EXCEPT ![Global] = v]
    /\ UNCHANGED <<loading, node, checked, resolution, selected, custom, flow, jobs,
                   addresses>>

EditCustom(v) ==
    /\ Edit /\ selected # Global /\ HasSource(selected)
    /\ custom' = v
    /\ wanted' = [wanted EXCEPT ![selected] = v]
    /\ UNCHANGED <<loading, node, checked, resolution, combo, button, selected,
                   flow, jobs, addresses>>

\* A click on the check box of a layer.
Tick(r) ==
    /\ Edit /\ Selectable(r)
    /\ checked' = IF r \in checked THEN checked \ {r} ELSE checked \cup {r}
    /\ UNCHANGED <<loading, node, resolution, combo, button, wanted, selected, custom,
                   flow, jobs, addresses>>

\* The group nodes: all single layers, or one service (checker).
Groups == {RecordsOf[i] : i \in Services}
              \cup {UNION {RecordsOf[i] : i \in Items \ Services}}

TickGroup(S, on) ==
    /\ Edit
    /\ LET present == {r \in S : Selectable(r)}
       IN checked' = IF on THEN checked \cup present ELSE checked \ present
    /\ UNCHANGED <<loading, node, resolution, combo, button, wanted, selected, custom,
                   flow, jobs, addresses>>

-----------------------------------------------------------------------------
(* The flow of dialogs.                                                    *)

\* getSpec, of the ticked layers and the options saved in the nodes.
SpecOf(ticked, saved, address) ==
    [layers |-> [r \in {t \in ticked : HasSource(t)} |-> saved[r]],
     global |-> saved[Global],
     email |-> address]

\* res = l.resolution || globalProperties.resolution: blank counts as 0.
Oversized(spec) ==
    {r \in DOMAIN spec.layers :
        /\ node[r] = "raster"
        /\ (IF spec.layers[r] # Blank THEN spec.layers[r] ELSE spec.global) < Coarse}

\* layerstree.extract: the request goes out with the spec of that moment.
Extract(address, ticked) ==
    /\ dialog' = "none"
    /\ resolution' = Saved
    /\ job' = SpecOf(ticked, Saved, address)
    /\ waiter' = TRUE
    /\ inFlight' = inFlight + 1
    /\ UNCHANGED <<timers, target>>

HandleDlForm(address, ticked) ==
    IF withForm
    THEN /\ dialog' = "form"
         /\ target' = address
         /\ resolution' = Saved
         /\ UNCHANGED jobs
    ELSE Extract(address, ticked)

ExtractHandler(ticked) ==
    IF <<email, stored>> = <<NoEmail, NoEmail>>
    THEN /\ dialog' = "prompt"
         /\ resolution' = Saved
         /\ UNCHANGED <<jobs, target>>
    ELSE HandleDlForm(IF email # NoEmail THEN email ELSE stored, ticked)

(* The spec is built a first time to ask about oversized layers.  getSpec  *)
(* raises while an error node is selected.                                 *)
OversizedCoveragesHandler(ticked) ==
    IF ~HasSource(selected)
    THEN /\ dialog' = "none" /\ asked' = {}
         /\ UNCHANGED <<resolution, jobs, target>>
    ELSE LET over == Oversized(SpecOf(ticked, Saved, NoEmail))
         IN /\ asked' = over
            /\ IF over # {}
               THEN /\ dialog' = "oversized"
                    /\ resolution' = Saved
                    /\ UNCHANGED <<jobs, target>>
               ELSE ExtractHandler(ticked)

\* Ticked nodes that are not disabled.
SelectedLayers == {r \in checked : Selectable(r)}

ExtractBtnHandler ==
    /\ dialog = "none" /\ button
    /\ clicks < MaxClicks
    /\ clicks' = clicks + 1
    /\ settled' = ready
    /\ IF SelectedLayers # {}
       THEN OversizedCoveragesHandler(checked)
       ELSE /\ dialog' = "all" /\ asked' = {}
            /\ UNCHANGED <<resolution, jobs, target>>
    /\ UNCHANGED <<loading, node, checked, combo, button, wanted, options,
                   forms, addresses>>

\* Mutant: nothing is asked of what "Extract all?" adds.
SelectAllUnasked ==
    /\ dialog = "all"
    /\ LET all == checked \cup {r \in Records : Selectable(r) /\ r # selected}
       IN /\ checked' = all
          /\ ExtractHandler(all)
    /\ UNCHANGED <<loading, node, combo, button, wanted, options, clicks,
                   settled, asked, forms, addresses>>

\* "Extract all?", yes: all the nodes that can be but the selected one.
SelectAllLayers ==
    /\ dialog = "all"
    /\ LET all == checked \cup {r \in Records : Selectable(r) /\ r # selected}
       IN /\ checked' = all
          /\ OversizedCoveragesHandler(all)
    /\ UNCHANGED <<loading, node, combo, button, wanted, options, clicks,
                   settled, forms, addresses>>

OversizedAccepted ==
    /\ dialog = "oversized"
    /\ ExtractHandler(checked)
    /\ UNCHANGED <<loading, node, checked, combo, button, wanted, options,
                   clicks, settled, asked, forms, addresses>>

EmailGiven(address) ==
    /\ dialog = "prompt"
    /\ email' = address /\ stored' = address
    /\ HandleDlForm(address, checked)
    /\ UNCHANGED <<loading, node, checked, combo, button, wanted, options,
                   clicks, settled, asked, forms, withForm, anonymous>>

\* A dialog is refused or closed, or the address given is not valid.
Dismiss ==
    /\ dialog # "none"
    /\ dialog' = "none" /\ asked' = {} /\ target' = NoEmail
    /\ UNCHANGED <<tree, options, clicks, settled, forms, jobs, addresses>>

(* OK in the download form: the spec goes with it, under the form's own    *)
(* address, which is kept for an anonymous user; what is stored of another *)
(* is cleared.  The window stays open until the answer, its buttons work.  *)
SubmitForm(address) ==
    /\ dialog = "form"
    /\ Cardinality(forms) < MaxForms
    /\ resolution' = Saved
    /\ IF anonymous THEN email' = address /\ stored' = address
       ELSE stored' = NoEmail /\ UNCHANGED email
    /\ forms' = forms \cup
                    {[flow |-> clicks, again |-> \E f \in forms : f.flow = clicks,
                      target |-> target, spec |-> SpecOf(checked, Saved, address)]}
    /\ UNCHANGED <<loading, node, checked, combo, button, wanted, options, dialog,
                   clicks, settled, asked, target, jobs, withForm, anonymous>>

(* The form is accepted: whatever form window is open is closed, and the   *)
(* callback extracts, for the address known before the form.  With an      *)
(* error node selected since, extract raises after it shows the waiter.    *)
FormAccepted(form) ==
    /\ form \in forms
    /\ forms' = forms \ {form}
    /\ IF HasSource(selected)
       THEN /\ job' = SpecOf(checked, Saved, form.target)
            /\ resolution' = Saved
            /\ inFlight' = inFlight + 1
       ELSE UNCHANGED <<job, resolution, inFlight>>
    /\ dialog' = IF dialog = "form" THEN "none" ELSE dialog
    /\ target' = NoEmail
    /\ waiter' = TRUE
    /\ UNCHANGED <<loading, node, checked, combo, button, wanted, options, clicks,
                   settled, asked, timers, addresses>>

\* The form is refused: an error dialog; the window stays.
FormRefused(form) ==
    /\ form \in forms
    /\ forms' = forms \ {form}
    /\ waiter' = (waiter /\ ~ready)
    /\ UNCHANGED <<tree, options, dialog, clicks, settled, asked, target, job,
                   inFlight, timers, addresses>>

-----------------------------------------------------------------------------
(* Answers and timers.                                                     *)

\* Mutant: the button is disabled for good.
JobAnsweredForGood(success) ==
    /\ inFlight > 0
    /\ inFlight' = inFlight - 1
    /\ job' = IF inFlight = 1 THEN NoJob ELSE job
    /\ waiter' = (waiter /\ ~ready)
    /\ dialog' = IF dialog = "form" THEN dialog ELSE "none"
    /\ button' = (button /\ ~success)
    /\ UNCHANGED <<loading, node, checked, resolution, combo, wanted, options, timers,
                   clicks, settled, asked, target, forms, addresses>>

(* Completed requests hide the waiter once they are monitored.  The        *)
(* message of the answer replaces a message box that is open, whose        *)
(* question is then never answered; the form is a window of its own.       *)
JobAnswered(success) ==
    /\ inFlight > 0
    /\ inFlight' = inFlight - 1
    /\ job' = IF inFlight = 1 THEN NoJob ELSE job
    /\ waiter' = (waiter /\ ~ready)
    /\ dialog' = IF dialog = "form" THEN dialog ELSE "none"
    /\ IF success
       THEN button' = FALSE /\ timers' = timers + 1
       ELSE UNCHANGED <<button, timers>>
    /\ UNCHANGED <<loading, node, checked, resolution, combo, wanted, options,
                   clicks, settled, asked, target, forms, addresses>>

TimerFires ==
    /\ timers > 0
    /\ timers' = timers - 1
    /\ button' = TRUE
    /\ UNCHANGED <<loading, node, checked, resolution, combo, wanted, options,
                   flow, job, inFlight, waiter, addresses>>

UserNext ==
    \/ \E n \in Nodes : SelectSource(n)
    \/ \E r \in Records : SelectError(r) \/ Tick(r)
    \/ \E v \in Typed : EditGlobal(v) \/ EditCustom(v)
    \/ \E S \in Groups, on \in BOOLEAN : TickGroup(S, on)
    \/ ExtractBtnHandler \/ SelectAllLayers \/ OversizedAccepted \/ Dismiss
    \/ \E e \in Emails : EmailGiven(e) \/ SubmitForm(e)

NetworkNext ==
    \/ \E f \in forms : FormAccepted(f) \/ FormRefused(f)
    \/ \E success \in BOOLEAN : JobAnswered(success)

TreeStep == TreeNext /\ UNCHANGED page

Next == TreeStep \/ UserNext \/ NetworkNext \/ TimerFires

Spec == Init /\ [][Next]_vars

-----------------------------------------------------------------------------
(* Properties.                                                             *)

(* The widgets are shared by all the nodes, and metadata changes the       *)
(* options of nodes behind them: each node still has the resolution that   *)
(* was last given to it, and the panel shows that of the selected node     *)
(* (getOptions, setOptions, saveExportOptions).                            *)
OptionsFollowNodes ==
    \A n \in Nodes :
        HasSource(n) =>
            wanted[n] = IF n \in {selected, Global} THEN Shown(n) ELSE resolution[n]

(* What is saved for the whole cart is what its combo shows, unless it is  *)
(* being edited.                                                           *)
GlobalIsShown == selected # Global => resolution[Global] = combo

(* A disabled button comes back: a timer is running, or the resolution is  *)
(* not valid yet (extract, the listeners of the combo).                    *)
ButtonComesBack == button \/ timers > 0 \/ combo = Blank

(* Once the tree is loaded, no oversized raster is sent that the user did  *)
(* not agree to in the dialogs of that click (oversizedCoveragesHandler):  *)
(* nothing the answer depends on changes while they are open.              *)
OversizedIsAsked ==
    [][(inFlight' > inFlight /\ settled' /\ ~withForm)
          => Oversized(job') \subseteq asked']_vars

(* Once the tree is loaded, an extraction that starts under its own form   *)
(* extracts what the form declared (dlform, getSpec called twice).         *)
FormDeclaresJob ==
    [][\A f \in forms \ forms' :
          (inFlight' > inFlight /\ dialog = "form" /\ f.flow = clicks /\ settled)
             => [job' EXCEPT !.email = f.spec.email] = f.spec]_vars

(* What the handlers rely on: where the last resolution of each node is,   *)
(* and what a dialog that is open may take from the click it belongs to.   *)
OptionsInv ==
    /\ selected # Global => node[selected] \in {"raster", "vector", "error"}
    /\ wanted[Global] = combo
    /\ selected # Global /\ HasSource(selected) => wanted[selected] = custom
    /\ \A r \in Records \ {selected} : wanted[r] = resolution[r]

FlowInv ==
    /\ settled => ready
    /\ (dialog \in {"oversized", "prompt"} /\ settled) =>
          Oversized(SpecOf(checked, Saved, NoEmail)) \subseteq asked
    /\ (dialog = "form" \/ forms # {}) => withForm
    /\ dialog = "form" => target \in Emails

IInv ==
    /\ TypeOK /\ RequestsFollow /\ CounterCountsAnswers /\ ReadyWhenAnswered
    /\ OptionsInv /\ GlobalIsShown /\ ButtonComesBack /\ FlowInv
=============================================================================
