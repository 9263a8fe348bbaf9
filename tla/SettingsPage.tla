----------------------------- MODULE SettingsPage ---------------------------
(***************************************************************************)
(* The settings page of assistant-worker in an operator's browser: GET /   *)
(* renders the form and the status card, the script of the page offers the *)
(* models of the chosen provider, saves the form with PUT /config, shows   *)
(* the answer and then refreshes the card with GET /provider-status, while *)
(* other operators (and other loads of the page) save settings of theirs.  *)
(*                                                                         *)
(* Of a configuration the provider and the model are kept: the two numbers *)
(* are saved and shown by the same statements.  A save is one step here,   *)
(* which may fail behind the truncation; WorkerSettings has what is read   *)
(* of a file while it is written.                                          *)
(***************************************************************************)
EXTENDS WorkerConfig

CONSTANTS Saves,      \* bound: PUT /config the page may have under way
          Refreshes,  \* bound: GET /provider-status it may have under way
          Root,       \* the status check of GET / itself
          Pulled,     \* the models Ollama lists
          Keys,       \* providers that need no API key, or have one
          MaxSubmits, \* bound: clicks on "Save settings"
          Picks,      \* bound: the models the operator may pick
          Started,    \* what worker.json may hold when the page is loaded
          Others      \* what other operators save

Handlers == Refreshes \cup {Root}

Models ==
    (UNION {StaticModels[p] : p \in Providers}) \cup Pulled
        \cup {c.model : c \in Started \cup Others} \cup {EnvModel[p] : p \in Providers}
Choice == [provider : Providers, model : Models]

(* A choice that the normalisation of a save leaves as it is.              *)
IsOwnModel(c) == FitsProvider(c.provider, c.model) /\ c.model # NotGiven

(* read() has normalised what worker.json holds.                           *)
ASSUME PageAssumption ==
    /\ Root \notin Refreshes /\ MaxSubmits \in Nat
    /\ NotGiven \notin Pulled
    /\ Started \subseteq Choice /\ \A c \in Started : IsOwnModel(c)

VARIABLES config,   \* what worker.json holds, or held before a write failed
          torn,     \* a write failed behind the truncation: it does not parse
          page,     \* "closed", "loading" or "open"
          offered,  \* providerModels: the models the page offers by provider
          form,     \* what the form has selected
          shown,    \* the selected provider and model above the card
          card,     \* the status card
          line,     \* the line under the form
          save,     \* save[s]: a PUT of the page
          refresh,  \* refresh[h]: a status request of the page, or Root
          submits,  \* clicks so far
          disturbed \* history: what the page shows may be overtaken

screenVars == <<offered, form, shown, card, line>>
vars == <<config, torn, page, screenVars, save, refresh, submits, disturbed>>

NoChoice == [provider |-> "xai", model |-> "grok-4"]
NoSave == [stage |-> "idle", body |-> NoChoice, before |-> FALSE]
NoRefresh == [stage |-> "idle", service |-> "xai", model |-> "grok-4"]

Init ==
    /\ config \in Started
    /\ torn = FALSE
    /\ page = "closed"
    /\ offered = [p \in Providers |-> [models |-> StaticModels[p],
                                       first |-> DefaultModelForProvider[p]]]
    /\ form = NoChoice
    /\ shown = NoChoice
    /\ card = [provider |-> "xai", model |-> "grok-4", status |-> "error"]
    /\ line = ""
    /\ save = [s \in Saves |-> NoSave]
    /\ refresh = [h \in Handlers |-> NoRefresh]
    /\ submits = 0
    /\ disturbed = FALSE

Busy ==
    \/ \E s \in Saves : save[s].stage # "idle"
    \/ \E r \in Refreshes : refresh[r].stage # "idle"

-----------------------------------------------------------------------------
(* AssistantLlmProviderStatusService and the three services behind it      *)

(* getStatus reads worker.json to pick the service of a provider, ...      *)
SelectProvider(h) ==
    /\ refresh[h].stage = "sent" /\ ~torn
    /\ refresh' = [refresh EXCEPT ![h].stage = "picked", ![h].service = config.provider]
    /\ UNCHANGED <<config, torn, page, screenVars, save, submits, disturbed>>

(* ... which reads it again for the model, and then asks the provider.     *)
GetStatus(h) ==
    /\ refresh[h].stage = "picked" /\ ~torn
    /\ LET p == refresh[h].service IN
       refresh' = [refresh EXCEPT ![h].stage = "asking",
                       ![h].model = IF config.provider = p THEN config.model ELSE EnvModel[p]]
    /\ UNCHANGED <<config, torn, page, screenVars, save, submits, disturbed>>

(* What the service of p may answer about model m.                         *)
Statuses(p, m) ==
    IF p \notin Keys THEN {"missing_key"}
    ELSE IF p = "ollama" /\ m \notin Pulled THEN {"error"}
    ELSE {"ready", "error"}

Cards(h) ==
    [provider : {refresh[h].service}, model : {refresh[h].model},
     status : Statuses(refresh[h].service, refresh[h].model)]

-----------------------------------------------------------------------------
(* GET /                                                                   *)

(* getRoot reads worker.json for the form and what is shown above the card *)
(* and asks for the status.  With a file that does not parse there is no   *)
(* page.                                                                   *)
GetRoot ==
    /\ page = "closed" /\ ~torn
    /\ page' = "loading"
    /\ form' = config
    /\ shown' = config
    /\ refresh' = [refresh EXCEPT ![Root].stage = "sent"]
    /\ UNCHANGED <<config, torn, offered, card, line, save, submits, disturbed>>

(* providerModels: the static lists, and for Ollama what it lists, if it   *)
(* answers; the model in use comes first if it is in neither.              *)
ProviderModels(current, listed) ==
    LET ollama == StaticModels["ollama"] \cup listed
        known == current.provider # "ollama" \/ current.model \in ollama
    IN [p \in Providers |->
          IF p # "ollama"
          THEN [models |-> StaticModels[p], first |-> DefaultModelForProvider[p]]
          ELSE [models |-> IF known THEN ollama ELSE ollama \cup {current.model},
                first |-> IF known THEN DefaultModelForProvider[p] ELSE current.model]]

(* The page arrives, and its script refreshes the card at once.            *)
OpenPage ==
    /\ page = "loading" /\ refresh[Root].stage = "asking"
    /\ page' = "open"
    /\ \E listed \in {{}, Pulled} : offered' = ProviderModels(shown, listed)
    /\ card' \in Cards(Root)
    /\ \E r \in Refreshes :
          refresh' = [refresh EXCEPT ![Root] = NoRefresh, ![r].stage = "sent"]
    /\ UNCHANGED <<config, torn, form, shown, line, save, submits, disturbed>>

-----------------------------------------------------------------------------
(* The script                                                              *)

(* The options of provider p are rendered with model m selected, if it is  *)
(* among them; else the browser selects the first.                         *)
RenderModelOptions(p, m) ==
    [provider |-> p,
     model |-> IF m \in offered[p].models THEN m ELSE offered[p].first]

(* Mutant of ChooseProvider: the options of the old provider stay.         *)
ChooseProviderOnly(p) ==
    /\ page = "open"
    /\ form' = [form EXCEPT !.provider = p]
    /\ UNCHANGED <<config, torn, page, offered, shown, card, line, save, refresh, submits,
                   disturbed>>

(* The change handler of the provider field.                               *)
ChooseProvider(p) ==
    /\ page = "open"
    /\ form' = RenderModelOptions(p, offered[p].first)
    /\ UNCHANGED <<config, torn, page, offered, shown, card, line, save, refresh, submits,
                   disturbed>>

ChooseModel(m) ==
    /\ page = "open"
    /\ m \in Picks \cap offered[form.provider].models
    /\ form' = [form EXCEPT !.model = m]
    /\ UNCHANGED <<config, torn, page, offered, shown, card, line, save, refresh, submits,
                   disturbed>>

(* A save with nothing else under way makes the page right again.          *)
Submit(s) ==
    /\ page = "open" /\ submits < MaxSubmits
    /\ save[s].stage = "idle"
    /\ save' = [save EXCEPT ![s] = [stage |-> "sent", body |-> form, before |-> disturbed]]
    /\ disturbed' = Busy
    /\ line' = "saving"
    /\ submits' = submits + 1
    /\ UNCHANGED <<config, torn, page, offered, form, shown, card, refresh>>

(* Mutant of ReceiveSaved: what the form selects by now is shown as saved. *)
ReceiveSavedForm(s) ==
    /\ save[s].stage = "written"
    /\ shown' = form
    /\ line' = "saved"
    /\ save' = [save EXCEPT ![s] = NoSave]
    /\ \E r \in Refreshes :
          refresh[r].stage = "idle" /\ refresh' = [refresh EXCEPT ![r].stage = "sent"]
    /\ disturbed' = (disturbed \/ \E r \in Refreshes : refresh[r].stage # "idle")
    /\ UNCHANGED <<config, torn, page, offered, form, card, submits>>

(* The answer to a PUT: the page shows what was saved, resets the form to  *)
(* it and refreshes the card.  Refreshes that overlap may answer in either *)
(* order.                                                                  *)
ReceiveSaved(s) ==
    /\ save[s].stage = "written"
    /\ LET payload == save[s].body IN
       /\ shown' = payload
       /\ form' = RenderModelOptions(payload.provider, payload.model)
    /\ line' = "saved"
    /\ save' = [save EXCEPT ![s] = NoSave]
    /\ \E r \in Refreshes :
          refresh[r].stage = "idle" /\ refresh' = [refresh EXCEPT ![r].stage = "sent"]
    /\ disturbed' = (disturbed \/ \E r \in Refreshes : refresh[r].stage # "idle")
    /\ UNCHANGED <<config, torn, page, offered, card, submits>>

(* An error answer: the page stays as it is, nothing is refreshed.         *)
ReceiveSaveFailed(s) ==
    /\ save[s].stage = "refused"
    /\ line' = "failed"
    /\ save' = [save EXCEPT ![s] = NoSave]
    /\ disturbed' = (disturbed \/ save[s].before)
    /\ UNCHANGED <<config, torn, page, offered, form, shown, card, refresh, submits>>

(* fetch rejects: nobody catches it, and the line stays.                   *)
LoseSave(s) ==
    /\ save[s].stage # "idle"
    /\ save' = [save EXCEPT ![s] = NoSave]
    /\ disturbed' = TRUE
    /\ UNCHANGED <<config, torn, page, screenVars, refresh, submits>>

ReceiveStatus(r) ==
    /\ refresh[r].stage = "asking"
    /\ card' \in Cards(r)
    /\ refresh' = [refresh EXCEPT ![r] = NoRefresh]
    /\ UNCHANGED <<config, torn, page, offered, form, shown, line, save, submits, disturbed>>

(* An error answer of GET /provider-status: a read did not parse.  The     *)
(* provider and the model on the card stay.                                *)
ReceiveStatusFailed(r) ==
    /\ refresh[r].stage \in {"sent", "picked"}
    /\ card' = [card EXCEPT !.status = "failed"]
    /\ refresh' = [refresh EXCEPT ![r] = NoRefresh]
    /\ UNCHANGED <<config, torn, page, offered, form, shown, line, save, submits, disturbed>>

LoseStatus(r) ==
    /\ refresh[r].stage # "idle"
    /\ refresh' = [refresh EXCEPT ![r] = NoRefresh]
    /\ disturbed' = TRUE
    /\ UNCHANGED <<config, torn, page, screenVars, save, submits>>

-----------------------------------------------------------------------------
(* PUT /config                                                             *)

Normalized(b) ==
    LET p == NormalizeProvider(b.provider) IN
    [provider |-> p, model |-> NormalizeModel(p, b.model)]

(* Mutant of UpdateConfig: what is submitted is written as it is.          *)
UpdateConfigAsIs(b) == config' = b

(* updateConfig and write normalise what they get.                         *)
UpdateConfig(b) == config' = Normalized(b)

(* A PUT of the page arrives; the answer is what was written.              *)
WriteSave(s) ==
    /\ save[s].stage = "sent"
    /\ UpdateConfig(save[s].body)
    /\ torn' = FALSE
    /\ save' = [save EXCEPT ![s].stage = "written", ![s].body = config']
    /\ UNCHANGED <<page, screenVars, refresh, submits, disturbed>>

(* mkdir or writeFile fails, before the truncation or behind it.           *)
WriteSaveFails(s) ==
    /\ save[s].stage = "sent"
    /\ torn' \in {torn, TRUE}
    /\ save' = [save EXCEPT ![s].stage = "refused"]
    /\ UNCHANGED <<config, page, screenVars, refresh, submits, disturbed>>

OtherSave(b) ==
    /\ page # "closed"
    /\ UpdateConfig(b)
    /\ torn' = FALSE
    /\ disturbed' = TRUE
    /\ UNCHANGED <<page, screenVars, save, refresh, submits>>

OtherSaveFails ==
    /\ page # "closed"
    /\ torn' = TRUE
    /\ disturbed' = TRUE
    /\ UNCHANGED <<config, page, screenVars, save, refresh, submits>>

Next ==
    \/ GetRoot \/ OpenPage
    \/ \E p \in Providers : ChooseProvider(p)
    \/ \E m \in Picks : ChooseModel(m)
    \/ \E s \in Saves :
          \/ Submit(s) \/ WriteSave(s) \/ WriteSaveFails(s)
          \/ ReceiveSaved(s) \/ ReceiveSaveFailed(s) \/ LoseSave(s)
    \/ \E h \in Handlers : SelectProvider(h) \/ GetStatus(h)
    \/ \E r \in Refreshes : ReceiveStatus(r) \/ ReceiveStatusFailed(r) \/ LoseStatus(r)
    \/ \E b \in Others : OtherSave(b)
    \/ OtherSaveFails

Spec == Init /\ [][Next]_vars

-----------------------------------------------------------------------------
(* The type invariant: whatever is submitted, worker.json and the answers  *)
(* to a PUT name a provider with a model of its own.                       *)
TypeOK ==
    /\ config \in Choice /\ FitsProvider(config.provider, config.model)
    /\ torn \in BOOLEAN
    /\ page \in {"closed", "loading", "open"}
    /\ \A p \in Providers : offered[p].first \in offered[p].models
    /\ form \in Choice /\ shown \in Choice
    /\ card \in [provider : Providers, model : Models,
                 status : {"missing_key", "error", "ready", "failed"}]
    /\ line \in {"", "saving", "saved", "failed"}
    /\ save \in [Saves -> [stage : {"idle", "sent", "refused", "written"}, body : Choice,
                           before : BOOLEAN]]
    /\ refresh \in [Handlers -> [stage : {"idle", "sent", "picked", "asking"},
                                 service : Providers, model : Models]]
    /\ submits \in 0..MaxSubmits /\ disturbed \in BOOLEAN

(* What the server writes for a click on "Save settings" is what the form  *)
(* had selected: whatever Ollama listed when the page was loaded, whatever *)
(* others have saved since, and though an answer may reset the form, the   *)
(* normalisation never replaces a choice the page has offered.             *)
SubmitKeepsChoice ==
    [][\A s \in Saves :
          save[s].stage = "sent" /\ save'[s].stage = "written"
              => config' = save[s].body]_vars

(* A page at rest tells the truth: the selected provider and model are     *)
(* those of worker.json, the card is about them or says that it could not  *)
(* be loaded, no "Saving..." is left over, and a file that a failed save   *)
(* has damaged shows as a failure.  Only another operator, requests of the *)
(* page that overlapped, and lost answers excuse it, and a later save on   *)
(* its own makes it right again.                                           *)
PageIsCurrent ==
    page = "open" /\ ~Busy /\ ~disturbed =>
        /\ shown = config
        /\ line # "saving"
        /\ torn => line = "failed"
        /\ card.status = "failed" \/ (card.provider = config.provider /\ card.model = config.model)
=============================================================================
