------------------------- MODULE SettingsPageProofs -------------------------
(***************************************************************************)
(* What the settings page offers is saved as it was chosen, for any number *)
(* of saves, refreshes and other operators, and whatever Ollama lists.     *)
(***************************************************************************)
EXTENDS SettingsPage, TLAPS

Options == [models : SUBSET Models, first : Models]
Save == [stage : {"idle", "sent", "refused", "written"}, body : Choice, before : BOOLEAN]
Refresh == [stage : {"idle", "sent", "picked", "asking"}, service : Providers, model : Models]
Card == [provider : Providers, model : Models,
         status : {"missing_key", "error", "ready", "failed"}]

(* Every option is a model of its provider, one of them comes first.       *)
OffersFit(offer) ==
    /\ offer \in [Providers -> Options]
    /\ \A p \in Providers :
          /\ offer[p].first \in offer[p].models
          /\ \A m \in offer[p].models : FitsProvider(p, m) /\ m # NotGiven

(* Wherever a choice comes to stand, it is one a save leaves as it is.     *)
ChoicesFit ==
    /\ config \in Choice /\ IsOwnModel(config)
    /\ form \in Choice /\ IsOwnModel(form)
    /\ shown \in Choice /\ IsOwnModel(shown)
    /\ OffersFit(offered)
    /\ save \in [Saves -> Save] /\ \A s \in Saves : IsOwnModel(save[s].body)

Kinds ==
    /\ torn \in BOOLEAN
    /\ page \in {"closed", "loading", "open"}
    /\ card \in Card
    /\ line \in {"", "saving", "saved", "failed"}
    /\ refresh \in [Handlers -> Refresh]
    /\ submits \in 0..MaxSubmits /\ disturbed \in BOOLEAN

PageInv == ChoicesFit /\ Kinds

-----------------------------------------------------------------------------
(* What is known of the models, without their names.                       *)
LEMMA ModelFacts ==
    ASSUME NEW p \in Providers
    PROVE  /\ StaticModels[p] \subseteq Models
           /\ DefaultModelForProvider[p] \in StaticModels[p]
           /\ EnvModel[p] \in Models
           /\ \A m \in StaticModels[p] : FitsProvider(p, m) /\ m # NotGiven
  <1>1. DefaultModelForProvider[p] \in StaticModels[p]
    BY DEF Providers, DefaultModelForProvider, StaticModels
  <1>2. \A m \in StaticModels[p] : FitsProvider(p, m) /\ m # NotGiven
    BY ConfigAssumption DEF FitsProvider
  <1>3. StaticModels[p] \subseteq Models /\ EnvModel[p] \in Models
    BY DEF Models
  <1> QED BY <1>1, <1>2, <1>3

LEMMA FirstChoice == NoChoice \in Choice /\ IsOwnModel(NoChoice)
  <1>1. "xai" \in Providers /\ "grok-4" \in StaticModels["xai"]
    BY DEF Providers, StaticModels
  <1> QED BY <1>1, ModelFacts DEF NoChoice, Choice, IsOwnModel

(* What is written to worker.json is a choice of its own provider.         *)
LEMMA NormalizedFits ==
    ASSUME NEW b, b.model \in Models
    PROVE  Normalized(b) \in Choice /\ IsOwnModel(Normalized(b))
  <1> DEFINE p == NormalizeProvider(b.provider)
             m == NormalizeModel(p, b.model)
  <1>1. p \in Providers
    BY DEF NormalizeProvider, Providers
  <1>2. Normalized(b) = [provider |-> p, model |-> m]
    BY DEF Normalized
  <1> HIDE DEF p
  <1>3. m \in Models /\ FitsProvider(p, m) /\ m # NotGiven
    BY <1>1, ModelFacts DEF NormalizeModel, FitsProvider
  <1> HIDE DEF m
  <1> QED BY <1>1, <1>2, <1>3 DEF Choice, IsOwnModel

(* A choice that fits is written as it is.                                 *)
LEMMA NormalizedKeeps ==
    ASSUME NEW b \in Choice, IsOwnModel(b)
    PROVE  Normalized(b) = b
  <1>1. b.provider \in Providers /\ b = [provider |-> b.provider, model |-> b.model]
    BY DEF Choice
  <1>2. NormalizeProvider(b.provider) = b.provider
    BY <1>1 DEF NormalizeProvider
  <1>3. NormalizeModel(b.provider, b.model) = b.model
    BY DEF NormalizeModel, IsOwnModel, FitsProvider
  <1> QED BY <1>1, <1>2, <1>3 DEF Normalized

(* Whatever Ollama lists, the page offers models that fit.                 *)
LEMMA LoadedOffersFit ==
    ASSUME NEW current \in Choice, IsOwnModel(current), NEW listed \in {{}, Pulled}
    PROVE  OffersFit(ProviderModels(current, listed))
  <1> DEFINE ollama == StaticModels["ollama"] \cup listed
             known == current.provider # "ollama" \/ current.model \in ollama
             offer(p) == IF p # "ollama"
                         THEN [models |-> StaticModels[p], first |-> DefaultModelForProvider[p]]
                         ELSE [models |-> IF known THEN ollama ELSE ollama \cup {current.model},
                               first |-> IF known THEN DefaultModelForProvider[p]
                                         ELSE current.model]
  <1>1. ProviderModels(current, listed) = [p \in Providers |-> offer(p)]
    BY DEF ProviderModels
  <1>2. listed \subseteq Models /\ NotGiven \notin listed
    BY PageAssumption DEF Models
  <1>3. current.model \in Models /\ current.model # NotGiven
    BY DEF Choice, IsOwnModel
  <1>4. ASSUME NEW p \in Providers
        PROVE  /\ offer(p) \in Options /\ offer(p).first \in offer(p).models
               /\ \A m \in offer(p).models : FitsProvider(p, m) /\ m # NotGiven
    <2>1. CASE p # "ollama"
      <3>1. offer(p) = [models |-> StaticModels[p], first |-> DefaultModelForProvider[p]]
        BY <2>1
      <3> HIDE DEF offer
      <3> QED BY <3>1, ModelFacts DEF Options
    <2>2. CASE p = "ollama"
      <3> DEFINE models == IF known THEN ollama ELSE ollama \cup {current.model}
                 first == IF known THEN DefaultModelForProvider[p] ELSE current.model
      <3>1. offer(p) = [models |-> models, first |-> first]
        BY <2>2
      <3>2. /\ models \subseteq Models /\ first \in models
            /\ \A m \in models : FitsProvider(p, m) /\ m # NotGiven
        BY <1>2, <1>3, <2>2, ModelFacts DEF FitsProvider
      <3> HIDE DEF offer, models, first
      <3> QED BY <3>1, <3>2 DEF Options
    <2> QED BY <2>1, <2>2
  <1> HIDE DEF offer
  <1> QED BY <1>1, <1>4 DEF OffersFit

(* The browser selects an option that exists.                              *)
LEMMA RenderedFits ==
    ASSUME OffersFit(offered), NEW p \in Providers, NEW m
    PROVE  RenderModelOptions(p, m) \in Choice /\ IsOwnModel(RenderModelOptions(p, m))
  <1> DEFINE sel == IF m \in offered[p].models THEN m ELSE offered[p].first
  <1>1. /\ sel \in offered[p].models /\ sel \in Models
        /\ FitsProvider(p, sel) /\ sel # NotGiven
    BY DEF OffersFit, Options
  <1>2. RenderModelOptions(p, m) = [provider |-> p, model |-> sel]
    BY DEF RenderModelOptions
  <1> HIDE DEF sel
  <1> QED BY <1>1, <1>2 DEF Choice, IsOwnModel

-----------------------------------------------------------------------------
LEMMA InitFits == Init => PageInv
  <1> SUFFICES ASSUME Init PROVE PageInv
    OBVIOUS
  <1> DEFINE offer(p) == [models |-> StaticModels[p], first |-> DefaultModelForProvider[p]]
  <1>1. config \in Choice /\ IsOwnModel(config)
    BY PageAssumption DEF Init
  <1>2. /\ form = NoChoice /\ shown = NoChoice /\ save = [s \in Saves |-> NoSave]
        /\ offered = [p \in Providers |-> offer(p)]
    BY DEF Init
  <1>3. OffersFit(offered)
    <2>1. \A p \in Providers :
              /\ offer(p) \in Options /\ offer(p).first \in offer(p).models
              /\ \A m \in offer(p).models : FitsProvider(p, m) /\ m # NotGiven
      BY ModelFacts DEF Options
    <2> HIDE DEF offer
    <2> QED BY <1>2, <2>1 DEF OffersFit
  <1>4. save \in [Saves -> Save] /\ \A s \in Saves : IsOwnModel(save[s].body)
    BY <1>2, FirstChoice DEF NoSave, Save
  <1>5. Kinds
    <2>1. "xai" \in Providers /\ "grok-4" \in Models
      BY ModelFacts DEF Providers, StaticModels
    <2>2. refresh \in [Handlers -> Refresh]
      BY <2>1 DEF Init, NoRefresh, Refresh
    <2>3. card \in Card
      BY <2>1 DEF Init, Card
    <2>4. submits \in 0..MaxSubmits
      <3>1. submits = 0 /\ MaxSubmits \in Nat
        BY PageAssumption DEF Init
      <3> QED BY <3>1
    <2> QED BY <2>2, <2>3, <2>4 DEF Init, Kinds
  <1> QED BY <1>1, <1>2, <1>3, <1>4, <1>5, FirstChoice DEF PageInv, ChoicesFit

(* The cards a status check may answer.                                    *)
LEMMA CardsAreCards ==
    ASSUME refresh \in [Handlers -> Refresh], NEW h \in Handlers
    PROVE  Cards(h) \subseteq Card
  BY DEF Cards, Statuses, Card, Refresh

(* The saves change as requests do, with bodies that fit.                  *)
LEMMA SaveFits ==
    ASSUME ChoicesFit, NEW s \in Saves, NEW r \in Save, IsOwnModel(r.body),
           save' = [save EXCEPT ![s] = r]
    PROVE  save' \in [Saves -> Save] /\ \A t \in Saves : IsOwnModel(save'[t].body)
  BY DEF ChoicesFit

(* Each step leaves a choice wherever there was one.                       *)
LEMMA ChoicesStep ==
    ASSUME PageInv, [Next]_vars
    PROVE  ChoicesFit'
  <1>0. ChoicesFit /\ Kinds
    BY DEF PageInv
  <1>1. CASE UNCHANGED <<config, form, shown, offered, save>>
    BY <1>0, <1>1 DEF ChoicesFit
  <1>2. CASE GetRoot
    BY <1>0, <1>2 DEF GetRoot, ChoicesFit
  <1>3. CASE OpenPage
    <2>1. /\ UNCHANGED <<config, form, shown, save>>
          /\ \E listed \in {{}, Pulled} : offered' = ProviderModels(shown, listed)
      BY <1>3 DEF OpenPage
    <2>2. OffersFit(offered')
      BY <1>0, <2>1, LoadedOffersFit DEF ChoicesFit
    <2> QED BY <1>0, <2>1, <2>2 DEF ChoicesFit
  <1>4. ASSUME NEW p \in Providers, ChooseProvider(p) PROVE ChoicesFit'
    <2>1. /\ UNCHANGED <<config, offered, shown, save>>
          /\ form' = RenderModelOptions(p, offered[p].first)
      BY <1>4 DEF ChooseProvider
    <2>2. form' \in Choice /\ IsOwnModel(form')
      BY <1>0, <2>1, RenderedFits DEF ChoicesFit
    <2> QED BY <1>0, <2>1, <2>2 DEF ChoicesFit
  <1>5. ASSUME NEW m \in Picks, ChooseModel(m) PROVE ChoicesFit'
    <2>1. /\ UNCHANGED <<config, offered, shown, save>>
          /\ m \in offered[form.provider].models /\ form' = [form EXCEPT !.model = m]
      BY <1>5 DEF ChooseModel
    <2>2. form' \in Choice /\ IsOwnModel(form')
      <3>1. form.provider \in Providers /\ form = [provider |-> form.provider, model |-> form.model]
        BY <1>0 DEF ChoicesFit, Choice
      <3>2. m \in Models /\ FitsProvider(form.provider, m) /\ m # NotGiven
        BY <1>0, <2>1, <3>1 DEF ChoicesFit, OffersFit, Options
      <3>3. form' = [provider |-> form.provider, model |-> m]
        BY <2>1, <3>1
      <3> QED BY <3>1, <3>2, <3>3 DEF Choice, IsOwnModel
    <2> QED BY <1>0, <2>1, <2>2 DEF ChoicesFit
  <1>6. ASSUME NEW s \in Saves, Submit(s) PROVE ChoicesFit'
    <2> DEFINE r == [stage |-> "sent", body |-> form, before |-> disturbed]
    <2>1. UNCHANGED <<config, offered, form, shown>> /\ save' = [save EXCEPT ![s] = r]
      BY <1>6 DEF Submit
    <2>2. r \in Save /\ IsOwnModel(r.body)
      BY <1>0 DEF ChoicesFit, Kinds, Save
    <2> HIDE DEF r
    <2> QED BY <1>0, <2>1, <2>2, SaveFits DEF ChoicesFit
  <1>7. ASSUME NEW s \in Saves, WriteSave(s) PROVE ChoicesFit'
    <2> DEFINE r == [save[s] EXCEPT !.stage = "written", !.body = config']
    <2>1. /\ UNCHANGED <<offered, form, shown>>
          /\ config' = Normalized(save[s].body) /\ save' = [save EXCEPT ![s] = r]
      BY <1>7 DEF WriteSave, UpdateConfig, screenVars
    <2>2. config' \in Choice /\ IsOwnModel(config')
      BY <1>0, <2>1, NormalizedFits DEF ChoicesFit, Save, Choice
    <2>3. r \in Save /\ r.body = config'
      BY <1>0, <2>2 DEF ChoicesFit, Save
    <2> HIDE DEF r
    <2> QED BY <1>0, <2>1, <2>2, <2>3, SaveFits DEF ChoicesFit
  <1>8. ASSUME NEW s \in Saves, save' = [save EXCEPT ![s] = NoSave],
               UNCHANGED <<config, offered>>,
               \/ UNCHANGED <<form, shown>>
               \/ /\ shown' = save[s].body
                  /\ form' = RenderModelOptions(save[s].body.provider, save[s].body.model)
        PROVE  ChoicesFit'
    <2>1. save' \in [Saves -> Save] /\ \A t \in Saves : IsOwnModel(save'[t].body)
      <3>1. NoSave \in Save /\ IsOwnModel(NoSave.body)
        BY FirstChoice DEF NoSave, Save
      <3> QED BY <1>0, <1>8, <3>1, SaveFits
    <2>2. save[s].body \in Choice /\ IsOwnModel(save[s].body)
      BY <1>0 DEF ChoicesFit, Save
    <2>3. form' \in Choice /\ IsOwnModel(form') /\ shown' \in Choice /\ IsOwnModel(shown')
      <3>1. save[s].body.provider \in Providers
        BY <2>2 DEF Choice
      <3> QED BY <1>0, <1>8, <2>2, <3>1, RenderedFits DEF ChoicesFit
    <2> QED BY <1>0, <1>8, <2>1, <2>3 DEF ChoicesFit
  <1>9. ASSUME NEW s \in Saves, ReceiveSaved(s) \/ ReceiveSaveFailed(s) \/ LoseSave(s)
        PROVE  ChoicesFit'
    BY <1>8, <1>9 DEF ReceiveSaved, ReceiveSaveFailed, LoseSave, screenVars
  <1>10. ASSUME NEW b \in Others, OtherSave(b) PROVE ChoicesFit'
    <2>1. UNCHANGED <<offered, form, shown, save>> /\ config' = Normalized(b)
      BY <1>10 DEF OtherSave, UpdateConfig, screenVars
    <2>2. b.model \in Models
      BY DEF Models
    <2>3. config' \in Choice /\ IsOwnModel(config')
      BY <2>1, <2>2, NormalizedFits
    <2> QED BY <1>0, <2>1, <2>3 DEF ChoicesFit
  <1>11. ASSUME NEW h \in Handlers, SelectProvider(h) \/ GetStatus(h) PROVE ChoicesFit'
    BY <1>1, <1>11 DEF SelectProvider, GetStatus, screenVars
  <1>12. ASSUME NEW r \in Refreshes, ReceiveStatus(r) \/ ReceiveStatusFailed(r) \/ LoseStatus(r)
         PROVE  ChoicesFit'
    BY <1>1, <1>12 DEF ReceiveStatus, ReceiveStatusFailed, LoseStatus, screenVars
  <1>13. CASE UNCHANGED vars
    BY <1>1, <1>13 DEF vars, screenVars
  <1>14. ASSUME NEW s \in Saves, WriteSaveFails(s) PROVE ChoicesFit'
    <2> DEFINE r == [save[s] EXCEPT !.stage = "refused"]
    <2>1. UNCHANGED <<config, offered, form, shown>> /\ save' = [save EXCEPT ![s] = r]
      BY <1>0, <1>14 DEF WriteSaveFails, screenVars, ChoicesFit, Save
    <2>2. r \in Save /\ IsOwnModel(r.body)
      BY <1>0 DEF ChoicesFit, Save
    <2> HIDE DEF r
    <2> QED BY <1>0, <2>1, <2>2, SaveFits DEF ChoicesFit
  <1>15. CASE OtherSaveFails
    BY <1>1, <1>15 DEF OtherSaveFails, screenVars
  <1> QED
    BY <1>2, <1>3, <1>4, <1>5, <1>6, <1>7, <1>9, <1>10, <1>11, <1>12, <1>13, <1>14, <1>15
       DEF Next

(* The rest of the page keeps its types.                                   *)
LEMMA KindsStep ==
    ASSUME PageInv, [Next]_vars
    PROVE  Kinds'
  <1>0. /\ ChoicesFit /\ Kinds /\ MaxSubmits \in Nat
        /\ config.provider \in Providers /\ config.model \in Models
        /\ Refreshes \subseteq Handlers /\ Root \in Handlers
    BY PageAssumption DEF PageInv, ChoicesFit, Choice, Handlers
  <1>a. NoRefresh \in Refresh
    BY ModelFacts DEF NoRefresh, Refresh, Providers, StaticModels
  <1>b. ASSUME NEW h \in Handlers PROVE Cards(h) \subseteq Card
    BY <1>0, CardsAreCards DEF Kinds
  <1>c. Busy \in BOOLEAN
    BY DEF Busy
  <1>1. CASE GetRoot
    BY <1>0, <1>1 DEF GetRoot, Kinds, Refresh
  <1>2. CASE OpenPage
    <2>1. PICK r \in Refreshes :
             refresh' = [refresh EXCEPT ![Root] = NoRefresh, ![r].stage = "sent"]
      BY <1>2 DEF OpenPage
    <2>2. refresh' \in [Handlers -> Refresh]
      <3> DEFINE asked == [refresh EXCEPT ![Root] = NoRefresh]
      <3>1. asked \in [Handlers -> Refresh]
        BY <1>0, <1>a DEF Kinds
      <3>2. refresh' = [asked EXCEPT ![r].stage = "sent"]
        BY <2>1
      <3> HIDE DEF asked
      <3> QED BY <1>0, <3>1, <3>2 DEF Refresh
    <2>3. card' \in Card
      BY <1>0, <1>2, <1>b DEF OpenPage
    <2> QED BY <1>0, <1>2, <2>2, <2>3 DEF OpenPage, Kinds
  <1>3. ASSUME \/ \E p \in Providers : ChooseProvider(p)
               \/ \E m \in Picks : ChooseModel(m)
        PROVE  Kinds'
    BY <1>0, <1>3 DEF ChooseProvider, ChooseModel, Kinds
  <1>4. ASSUME NEW s \in Saves, Submit(s) PROVE Kinds'
    <2>1. submits' \in 0..MaxSubmits
      <3>1. submits < MaxSubmits /\ submits' = submits + 1
        BY <1>4 DEF Submit
      <3>2. submits \in 0..MaxSubmits /\ MaxSubmits \in Nat
        BY <1>0 DEF Kinds
      <3> QED BY <3>1, <3>2
    <2>2. disturbed' \in BOOLEAN
      BY <1>4, <1>c DEF Submit
    <2>3. UNCHANGED <<torn, page, card, refresh>> /\ line' = "saving"
      BY <1>4 DEF Submit
    <2> QED BY <1>0, <2>1, <2>2, <2>3 DEF Kinds
  <1>5. ASSUME NEW s \in Saves,
               \/ WriteSave(s) \/ WriteSaveFails(s) \/ ReceiveSaveFailed(s) \/ LoseSave(s)
        PROVE  Kinds'
    BY <1>0, <1>5 DEF WriteSave, WriteSaveFails, ReceiveSaveFailed, LoseSave, screenVars, Kinds,
       ChoicesFit, Save
  <1>6. ASSUME NEW s \in Saves, ReceiveSaved(s) PROVE Kinds'
    <2>1. /\ \E r \in Refreshes : refresh' = [refresh EXCEPT ![r].stage = "sent"]
          /\ disturbed' \in BOOLEAN
          /\ UNCHANGED <<torn, page, card, submits>> /\ line' = "saved"
      BY <1>0, <1>6 DEF ReceiveSaved, Kinds
    <2>2. refresh' \in [Handlers -> Refresh]
      BY <1>0, <2>1 DEF Kinds, Refresh
    <2> QED BY <1>0, <2>1, <2>2 DEF Kinds
  <1>7. ASSUME NEW h \in Handlers, SelectProvider(h) \/ GetStatus(h) PROVE Kinds'
    <2>1. refresh' \in [Handlers -> Refresh]
      <3>1. refresh[h].service \in Providers /\ \A p \in Providers : EnvModel[p] \in Models
        BY <1>0, ModelFacts DEF Kinds, Refresh
      <3>2. CASE SelectProvider(h)
        BY <1>0, <3>2 DEF SelectProvider, Kinds, Refresh
      <3>3. CASE GetStatus(h)
        <4>1. PICK m \in Models :
                 refresh' = [refresh EXCEPT ![h].stage = "asking", ![h].model = m]
          BY <1>0, <3>1, <3>3 DEF GetStatus
        <4> QED BY <1>0, <4>1 DEF Kinds, Refresh
      <3> QED BY <1>7, <3>2, <3>3
    <2> QED BY <1>0, <1>7, <2>1 DEF SelectProvider, GetStatus, screenVars, Kinds
  <1>8. ASSUME NEW r \in Refreshes, ReceiveStatus(r) \/ ReceiveStatusFailed(r) \/ LoseStatus(r)
        PROVE  Kinds'
    <2>1. refresh' \in [Handlers -> Refresh]
      BY <1>0, <1>8, <1>a DEF ReceiveStatus, ReceiveStatusFailed, LoseStatus, Kinds
    <2>2. card' \in Card
      BY <1>0, <1>8, <1>b DEF ReceiveStatus, ReceiveStatusFailed, LoseStatus, screenVars,
         Kinds, Card
    <2> QED BY <1>0, <1>8, <2>1, <2>2
            DEF ReceiveStatus, ReceiveStatusFailed, LoseStatus, screenVars, Kinds
  <1>9. ASSUME OtherSaveFails \/ \E b \in Others : OtherSave(b) PROVE Kinds'
    BY <1>0, <1>9 DEF OtherSave, OtherSaveFails, screenVars, Kinds
  <1>10. CASE UNCHANGED vars
    BY <1>0, <1>10 DEF vars, screenVars, Kinds
  <1> QED
    BY <1>1, <1>2, <1>3, <1>4, <1>5, <1>6, <1>7, <1>8, <1>9, <1>10 DEF Next

(* From the selection on the page through the request, the file and the    *)
(* answer back to the page, a choice always names a model of its provider. *)
THEOREM PageInvariantHolds == Spec => []PageInv
  <1>1. PageInv /\ [Next]_vars => PageInv'
    BY ChoicesStep, KindsStep DEF PageInv
  <1> QED BY <1>1, InitFits, PTL DEF Spec

(* Whatever is submitted, worker.json names a provider with a model of its *)
(* own, and the page and its requests keep their types.                    *)
THEOREM PageTypeCorrect == Spec => []TypeOK
  <1>1. PageInv => TypeOK
    BY DEF PageInv, ChoicesFit, Kinds, TypeOK, IsOwnModel, OffersFit, Save, Refresh, Card
  <1> QED BY <1>1, PageInvariantHolds, PTL

(* The server saves what the form had selected at the click: the           *)
(* normalisation of PUT /config never replaces what the page offered, for  *)
(* any lists of models, overlapping saves and saves of others.             *)
THEOREM ChoicesAreKept == Spec => SubmitKeepsChoice
  <1> DEFINE Keeps == \A s \in Saves :
               save[s].stage = "sent" /\ save'[s].stage = "written" => config' = save[s].body
  <1>1. PageInv /\ [Next]_vars => [Keeps]_vars
    <2> SUFFICES ASSUME PageInv, Next, NEW s \in Saves,
                        save[s].stage = "sent", save'[s].stage = "written"
                 PROVE  config' = save[s].body
      OBVIOUS
    <2>1. save \in [Saves -> Save]
      BY DEF PageInv, ChoicesFit
    <2>2. \E t \in Saves :
              \/ Submit(t) \/ WriteSave(t)
              \/ WriteSaveFails(t) \/ ReceiveSaved(t) \/ ReceiveSaveFailed(t) \/ LoseSave(t)
      BY DEF Next, GetRoot, OpenPage, ChooseProvider, ChooseModel, SelectProvider,
         GetStatus, ReceiveStatus, ReceiveStatusFailed, LoseStatus, OtherSave,
         OtherSaveFails
    <2>3. WriteSave(s)
      <3>1. PICK t \in Saves :
               \/ Submit(t) \/ WriteSave(t)
               \/ WriteSaveFails(t) \/ ReceiveSaved(t) \/ ReceiveSaveFailed(t) \/ LoseSave(t)
        BY <2>2
      <3>2. ~WriteSaveFails(t)
        BY <2>1 DEF WriteSaveFails, Save
      <3> QED
        BY <2>1, <3>1, <3>2
           DEF Submit, WriteSave, ReceiveSaved, ReceiveSaveFailed, LoseSave, NoSave
    <2>4. save[s].body \in Choice /\ IsOwnModel(save[s].body)
      BY DEF PageInv, ChoicesFit, Save
    <2> QED BY <2>3, <2>4, NormalizedKeeps DEF WriteSave, UpdateConfig
  <1> QED BY <1>1, PageInvariantHolds, PTL DEF Spec, SubmitKeepsChoice

-----------------------------------------------------------------------------
CardIsCurrent ==
    card.status = "failed" \/ (card.provider = config.provider /\ card.model = config.model)

(* What a status check has read by now is what worker.json holds.          *)
HandlerKnows(h) ==
    /\ refresh[h].stage \in {"picked", "asking"} => refresh[h].service = config.provider
    /\ refresh[h].stage = "asking" => refresh[h].model = config.model

AtRest ==
    /\ \A s \in Saves : save[s].stage = "idle"
    /\ \A r \in Refreshes : refresh[r].stage = "idle"

(* The page waits for one answer at most.                                  *)
OneRequest ==
    /\ \A s, t \in Saves : save[s].stage # "idle" /\ save[t].stage # "idle" => s = t
    /\ \A q, r \in Refreshes : refresh[q].stage # "idle" /\ refresh[r].stage # "idle" => q = r
    /\ \A s \in Saves, r \in Refreshes : save[s].stage = "idle" \/ refresh[r].stage = "idle"

(* Undisturbed, the page knows the configuration unless it waits for the   *)
(* answer to a save, and the card unless it waits for any answer; a save   *)
(* that fails leaves it as it was at the click, and says so if it has      *)
(* damaged the file.                                                       *)
Knows ==
    /\ OneRequest
    /\ \A s \in Saves :
          /\ save[s].stage \in {"sent", "refused"} =>
                save[s].before \/ (shown = config /\ CardIsCurrent)
          /\ save[s].stage = "written" => save[s].body = config /\ ~torn
    /\ \A r \in Refreshes : HandlerKnows(r)
    /\ (\A s \in Saves : save[s].stage = "idle") =>
          shown = config /\ line # "saving" /\ (torn => line = "failed")
    /\ AtRest => CardIsCurrent

KnowsInv ==
    /\ page # "open" => AtRest /\ line = ""
    /\ page = "closed" => ~disturbed /\ ~torn /\ refresh[Root].stage = "idle"
    /\ page = "loading" /\ ~disturbed => shown = config /\ ~torn /\ HandlerKnows(Root)
    /\ page = "open" /\ ~disturbed => Knows

LEMMA KnowsInit == Init => KnowsInv
  <1> SUFFICES ASSUME Init PROVE KnowsInv
    OBVIOUS
  <1>1. /\ page = "closed" /\ line = "" /\ ~disturbed /\ ~torn
        /\ \A s \in Saves : save[s].stage = "idle"
        /\ \A h \in Handlers : refresh[h].stage = "idle"
    BY DEF Init, NoSave, NoRefresh
  <1> QED BY <1>1 DEF KnowsInv, AtRest, Handlers

(* Nothing the page knows depends on the rest.                             *)
LEMMA KnowsSame ==
    ASSUME KnowsInv, UNCHANGED <<config, torn, page, shown, card, line, save, refresh, disturbed>>
    PROVE  KnowsInv'
  BY DEF KnowsInv, Knows, AtRest, OneRequest, HandlerKnows, CardIsCurrent

(* A status check goes on, and reads what worker.json holds.               *)
LEMMA CheckKnows ==
    ASSUME PageInv, KnowsInv, NEW h \in Handlers, SelectProvider(h) \/ GetStatus(h)
    PROVE  KnowsInv'
  <1>0. /\ refresh \in [Handlers -> Refresh] /\ Refreshes \subseteq Handlers
        /\ Root \in Handlers /\ Root \notin Refreshes
    BY PageAssumption DEF PageInv, Kinds, Handlers
  <1>1. /\ UNCHANGED <<config, torn, page, shown, card, line, save, disturbed>>
        /\ refresh[h].stage # "idle" /\ refresh'[h].stage # "idle"
        /\ \A g \in Handlers \ {h} : refresh'[g] = refresh[g]
    BY <1>0 DEF SelectProvider, GetStatus, screenVars, Refresh
  <1>2. HandlerKnows(h) => HandlerKnows(h)'
    <2>1. CASE SelectProvider(h)
      BY <1>0, <2>1 DEF SelectProvider, HandlerKnows, Refresh
    <2>2. CASE GetStatus(h)
      <3>1. /\ refresh[h].stage = "picked" /\ refresh'[h].service = refresh[h].service
            /\ config.provider = refresh[h].service => refresh'[h].model = config.model
        BY <1>0, <2>2 DEF GetStatus, Refresh
      <3> QED BY <1>1, <3>1 DEF HandlerKnows
    <2> QED BY <2>1, <2>2
  <1>3. \A g \in Handlers : HandlerKnows(g) => HandlerKnows(g)'
    BY <1>1, <1>2 DEF HandlerKnows
  <1>4. \A g \in Handlers : refresh'[g].stage = "idle" <=> refresh[g].stage = "idle"
    BY <1>1
  <1>5. (AtRest <=> AtRest') /\ (OneRequest => OneRequest')
    BY <1>0, <1>1, <1>4 DEF AtRest, OneRequest
  <1>6. Knows => Knows'
    BY <1>0, <1>1, <1>3, <1>5 DEF Knows, CardIsCurrent
  <1>7. page = "closed" => h # Root
    BY <1>1 DEF KnowsInv
  <1> QED BY <1>0, <1>1, <1>3, <1>5, <1>6, <1>7 DEF KnowsInv

LEMMA KnowsStep ==
    ASSUME PageInv, KnowsInv, [Next]_vars
    PROVE  KnowsInv'
  <1>0. /\ save \in [Saves -> Save] /\ refresh \in [Handlers -> Refresh]
        /\ Refreshes \subseteq Handlers /\ Root \in Handlers /\ Root \notin Refreshes
        /\ disturbed \in BOOLEAN /\ form \in Choice
    BY PageAssumption DEF PageInv, ChoicesFit, Kinds, Handlers
  <1>1. CASE GetRoot
    <2>1. /\ page = "closed" /\ page' = "loading" /\ shown' = config
          /\ UNCHANGED <<config, torn, card, line, save, disturbed>>
          /\ refresh'[Root].stage = "sent"
          /\ \A r \in Refreshes : refresh'[r] = refresh[r]
      BY <1>0, <1>1 DEF GetRoot
    <2> QED BY <2>1 DEF KnowsInv, AtRest, HandlerKnows
  <1>2. CASE OpenPage
    <2>1. PICK r \in Refreshes :
             /\ page = "loading" /\ page' = "open" /\ refresh[Root].stage = "asking"
             /\ UNCHANGED <<config, torn, shown, line, save, disturbed>> /\ card' \in Cards(Root)
             /\ refresh' = [refresh EXCEPT ![Root] = NoRefresh, ![r].stage = "sent"]
      BY <1>2 DEF OpenPage
    <2>2. /\ refresh'[r].stage = "sent"
          /\ \A q \in Refreshes \ {r} : refresh'[q] = refresh[q]
      BY <1>0, <2>1
    <2>3. AtRest /\ line = "" /\ (~disturbed => shown = config /\ ~torn /\ HandlerKnows(Root))
      BY <2>1 DEF KnowsInv
    <2>4. OneRequest' /\ ~AtRest' /\ \A q \in Refreshes : HandlerKnows(q)'
      <3>1. /\ \A t \in Saves : save'[t].stage = "idle"
            /\ \A q \in Refreshes \ {r} : refresh'[q].stage = "idle"
        BY <2>1, <2>2, <2>3 DEF AtRest
      <3> QED BY <2>2, <3>1 DEF OneRequest, AtRest, HandlerKnows
    <2>5. ~disturbed' => Knows'
      BY <2>1, <2>3, <2>4 DEF Knows, AtRest
    <2> QED BY <2>1, <2>5 DEF KnowsInv
  <1>3. ASSUME NEW p \in Providers, ChooseProvider(p) PROVE KnowsInv'
    BY <1>3, KnowsSame DEF ChooseProvider
  <1>4. ASSUME NEW m \in Picks, ChooseModel(m) PROVE KnowsInv'
    BY <1>4, KnowsSame DEF ChooseModel
  <1>5. ASSUME NEW s \in Saves, Submit(s) PROVE KnowsInv'
    <2>1. /\ page = "open" /\ UNCHANGED <<config, torn, page, shown, card, refresh>>
          /\ save'[s].stage = "sent" /\ save'[s].before = disturbed
          /\ \A t \in Saves \ {s} : save'[t] = save[t]
          /\ disturbed' = Busy
      BY <1>0, <1>5 DEF Submit
    <2>2. SUFFICES ASSUME AtRest PROVE Knows'
      BY <2>1 DEF KnowsInv, AtRest, Busy
    <2>3. OneRequest' /\ ~AtRest' /\ ~(\A t \in Saves : save'[t].stage = "idle")
      BY <2>1, <2>2 DEF OneRequest, AtRest
    <2>4. disturbed \/ (shown = config /\ CardIsCurrent)
      BY <2>1, <2>2 DEF KnowsInv, Knows, AtRest
    <2>5. \A r \in Refreshes : HandlerKnows(r)'
      BY <2>1, <2>2 DEF HandlerKnows, AtRest
    <2>6. \A t \in Saves \ {s} : save'[t].stage = "idle"
      BY <2>1, <2>2 DEF AtRest
    <2>7. CardIsCurrent => CardIsCurrent'
      BY <2>1 DEF CardIsCurrent
    <2> QED BY <2>1, <2>3, <2>4, <2>5, <2>6, <2>7 DEF Knows
  <1>6. ASSUME NEW s \in Saves, WriteSave(s) PROVE KnowsInv'
    <2>1. /\ UNCHANGED <<page, shown, card, line, refresh, disturbed>>
          /\ save[s].stage = "sent" /\ save'[s].stage = "written"
          /\ save'[s].body = config' /\ ~torn'
          /\ \A t \in Saves \ {s} : save'[t] = save[t]
      BY <1>0, <1>6 DEF WriteSave, screenVars
    <2>2. page = "open"
      BY <2>1 DEF KnowsInv, AtRest
    <2>3. ASSUME ~disturbed PROVE Knows'
      <3>1. Knows
        BY <2>2, <2>3 DEF KnowsInv
      <3>2. /\ \A t \in Saves \ {s} : save'[t].stage = "idle"
            /\ \A r \in Refreshes : refresh'[r].stage = "idle"
        BY <2>1, <3>1 DEF Knows, OneRequest
      <3> QED BY <2>1, <3>2 DEF Knows, OneRequest, HandlerKnows, AtRest
    <2> QED BY <2>1, <2>2, <2>3 DEF KnowsInv
  <1>7. ASSUME NEW s \in Saves, ReceiveSaved(s) PROVE KnowsInv'
    <2>1. PICK r \in Refreshes :
             refresh[r].stage = "idle" /\ refresh' = [refresh EXCEPT ![r].stage = "sent"]
      BY <1>7 DEF ReceiveSaved
    <2>2. /\ UNCHANGED <<config, torn, page, card>> /\ line' = "saved"
          /\ save[s].stage = "written" /\ save'[s].stage = "idle" /\ shown' = save[s].body
          /\ \A t \in Saves \ {s} : save'[t] = save[t]
          /\ ~disturbed' => ~disturbed
      BY <1>0, <1>7 DEF ReceiveSaved, NoSave
    <2>3. page = "open"
      BY <2>2 DEF KnowsInv, AtRest
    <2>4. /\ refresh'[r].stage = "sent"
          /\ \A q \in Refreshes \ {r} : refresh'[q] = refresh[q]
      BY <1>0, <2>1
    <2>5. ASSUME ~disturbed PROVE Knows'
      <3>1. Knows
        BY <2>3, <2>5 DEF KnowsInv
      <3>2. /\ \A t \in Saves : save'[t].stage = "idle" /\ shown' = config' /\ ~torn'
            /\ \A q \in Refreshes \ {r} : refresh'[q].stage = "idle"
        BY <2>2, <2>4, <3>1 DEF Knows, OneRequest
      <3> QED BY <2>2, <2>4, <3>2 DEF Knows, OneRequest, HandlerKnows, AtRest
    <2> QED BY <2>2, <2>3, <2>5 DEF KnowsInv
  <1>8. ASSUME NEW s \in Saves, ReceiveSaveFailed(s) PROVE KnowsInv'
    <2>1. /\ UNCHANGED <<config, torn, page, shown, card, refresh>> /\ line' = "failed"
          /\ save[s].stage = "refused" /\ save'[s].stage = "idle"
          /\ \A t \in Saves \ {s} : save'[t] = save[t]
          /\ ~disturbed' => ~disturbed /\ ~save[s].before
      BY <1>0, <1>8 DEF ReceiveSaveFailed, NoSave
    <2>2. page = "open"
      BY <2>1 DEF KnowsInv, AtRest
    <2>3. ASSUME ~disturbed, ~save[s].before PROVE Knows'
      <3>1. Knows
        BY <2>2, <2>3 DEF KnowsInv
      <3>2. /\ \A t \in Saves : save'[t].stage = "idle"
            /\ \A r \in Refreshes : refresh'[r].stage = "idle"
            /\ shown' = config' /\ CardIsCurrent'
        BY <2>1, <2>3, <3>1 DEF Knows, OneRequest, CardIsCurrent
      <3> QED BY <2>1, <3>2 DEF Knows, OneRequest, HandlerKnows, AtRest
    <2> QED BY <2>1, <2>2, <2>3 DEF KnowsInv
  <1>9. ASSUME NEW s \in Saves, LoseSave(s) PROVE KnowsInv'
    <2>1. page' = page /\ disturbed' /\ save[s].stage # "idle"
      BY <1>9 DEF LoseSave
    <2> QED BY <2>1 DEF KnowsInv, AtRest
  <1>10. ASSUME NEW h \in Handlers, SelectProvider(h) \/ GetStatus(h) PROVE KnowsInv'
    BY <1>10, CheckKnows
  <1>11. ASSUME NEW r \in Refreshes, ReceiveStatus(r) \/ ReceiveStatusFailed(r)
         PROVE  KnowsInv'
    <2>1. /\ UNCHANGED <<config, torn, page, shown, line, save, disturbed>>
          /\ refresh[r].stage # "idle" /\ refresh'[r].stage = "idle"
          /\ \A q \in Refreshes \ {r} : refresh'[q] = refresh[q]
      BY <1>0, <1>11 DEF ReceiveStatus, ReceiveStatusFailed, NoRefresh
    <2>2. page = "open"
      BY <2>1 DEF KnowsInv, AtRest
    <2>3. HandlerKnows(r) => CardIsCurrent'
      <3>1. CASE ReceiveStatus(r)
        BY <3>1 DEF ReceiveStatus, Cards, HandlerKnows, CardIsCurrent
      <3>2. CASE ReceiveStatusFailed(r)
        <4>1. card' = [card EXCEPT !.status = "failed"] /\ card \in Card
          BY <3>2 DEF ReceiveStatusFailed, PageInv, Kinds
        <4> QED BY <4>1 DEF CardIsCurrent, Card
      <3> QED BY <1>11, <3>1, <3>2
    <2>4. ASSUME ~disturbed PROVE Knows'
      <3>1. Knows
        BY <2>2, <2>4 DEF KnowsInv
      <3>2. /\ \A s \in Saves : save'[s].stage = "idle"
            /\ \A q \in Refreshes : refresh'[q].stage = "idle"
            /\ shown' = config' /\ line' # "saving" /\ CardIsCurrent'
            /\ torn' => line' = "failed"
        BY <2>1, <2>3, <3>1 DEF Knows, OneRequest
      <3> QED BY <3>2 DEF Knows, OneRequest, HandlerKnows, AtRest
    <2> QED BY <2>1, <2>2, <2>4 DEF KnowsInv
  <1>12. ASSUME NEW r \in Refreshes, LoseStatus(r) PROVE KnowsInv'
    <2>1. page' = page /\ disturbed' /\ refresh[r].stage # "idle"
      BY <1>12 DEF LoseStatus
    <2> QED BY <2>1 DEF KnowsInv, AtRest
  <1>13. ASSUME NEW b \in Others, OtherSave(b) PROVE KnowsInv'
    <2>1. page # "closed" /\ disturbed' /\ UNCHANGED <<page, line, save, refresh>>
      BY <1>13 DEF OtherSave, screenVars
    <2> QED BY <2>1 DEF KnowsInv, AtRest
  <1>14. CASE UNCHANGED vars
    BY <1>14, KnowsSame DEF vars, screenVars
  <1>15. ASSUME NEW s \in Saves, WriteSaveFails(s) PROVE KnowsInv'
    <2>1. /\ UNCHANGED <<config, page, shown, card, line, refresh, disturbed>>
          /\ save[s].stage = "sent" /\ save'[s].stage = "refused"
          /\ save'[s].before = save[s].before
          /\ \A t \in Saves \ {s} : save'[t] = save[t]
      BY <1>0, <1>15 DEF WriteSaveFails, screenVars, Save
    <2>2. page = "open"
      BY <2>1 DEF KnowsInv, AtRest
    <2>3. ASSUME ~disturbed PROVE Knows'
      <3>1. Knows
        BY <2>2, <2>3 DEF KnowsInv
      <3>2. /\ \A t \in Saves \ {s} : save'[t].stage = "idle"
            /\ \A r \in Refreshes : refresh'[r].stage = "idle"
            /\ save'[s].before \/ (shown' = config' /\ CardIsCurrent')
        BY <2>1, <3>1 DEF Knows, OneRequest, CardIsCurrent
      <3> QED BY <2>1, <3>2 DEF Knows, OneRequest, HandlerKnows, AtRest
    <2> QED BY <2>1, <2>2, <2>3 DEF KnowsInv
  <1>16. CASE OtherSaveFails
    <2>1. page # "closed" /\ disturbed' /\ UNCHANGED <<page, line, save, refresh>>
      BY <1>16 DEF OtherSaveFails, screenVars
    <2> QED BY <2>1 DEF KnowsInv, AtRest
  <1> QED
    BY <1>1, <1>2, <1>3, <1>4, <1>5, <1>6, <1>7, <1>8, <1>9, <1>10, <1>11, <1>12, <1>13, <1>14,
       <1>15, <1>16 DEF Next

(* However many saves and refreshes the page may have under way: one that  *)
(* waits for nothing shows what worker.json holds and a card about it,     *)
(* unless another operator saved, its own requests overlapped or an answer *)
(* was lost, and a later save on its own makes it right again.             *)
THEOREM PageTellsTheTruth == Spec => []PageIsCurrent
  <1>1. PageInv /\ KnowsInv /\ [Next]_vars => KnowsInv'
    BY KnowsStep
  <1>2. KnowsInv => PageIsCurrent
    BY DEF KnowsInv, Knows, AtRest, Busy, CardIsCurrent, PageIsCurrent
  <1> QED BY <1>1, <1>2, KnowsInit, PageInvariantHolds, PTL DEF Spec
=============================================================================
