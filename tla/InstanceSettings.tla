-------------------------- MODULE InstanceSettings --------------------------
(***************************************************************************)
(* The instance settings in an administrator's browser: InstanceContext    *)
(* holds the last answer of the server for each setting, the sections of   *)
(* the settings page hold a local copy that is being edited, and Save      *)
(* sends a whole setting to UpdateInstanceSetting, which replaces the      *)
(* stored one.  Nothing disables a section while its save is under way, a  *)
(* preload may fail, and another administrator may save in between.        *)
(*                                                                         *)
(* A behaviour follows one setting.  Its value is a function from parts to *)
(* numbers, 0 for blank or absent.  Credentials are write-only: the server *)
(* answers Keep for a stored one, and Keep is sent as an empty field.  An  *)
(* AI provider is a part whose number is its key, 0 if it does not exist.  *)
(***************************************************************************)
EXTENDS Integers, Sequences

CONSTANTS
  Settings,   \* the settings to follow, a subset of AllSettings
  MaxSaves,   \* bound on saves of this browser
  MaxEvents   \* bound on edits, failed calls, lost replies and foreign saves together

VARIABLES
  key,        \* the setting under consideration
  setting,    \* its stored value
  ctx,        \* the value in InstanceContext
  fetched,    \* fetchedSettingsRef holds its name
  fetch,      \* the fetch under way: its stage and the answer
  mounted,    \* the section is mounted
  draft,      \* per form of the section: its local state
  dialog,     \* the AI provider being edited and the key typed for it
  saves,      \* the saves so far; a finished one is Settled
  edits,      \* number of edits
  failures,   \* number of failures
  loaded,     \* history: ctx was answered by the server
  reverted,   \* history: a save changed a part its form had not edited
  excused     \* history: see Unexcused

instanceVars == <<key, setting, ctx, fetched, fetch, mounted, draft, dialog, saves,
                  edits, failures, loaded, reverted, excused>>

AllSettings == {"GENERAL", "MEMO_RELATED", "TAGS", "STORAGE", "NOTIFICATION", "AI"}

ASSUME InstanceAssumption ==
  /\ Settings \subseteq AllSettings
  /\ MaxSaves \in Nat /\ MaxEvents \in Nat

Keep == -1
Eventful == edits + failures < MaxEvents
Vals == {1, 2}
Providers == {"provider1", "provider2"}
ProviderOf(n) == IF n = 1 THEN "provider1" ELSE "provider2"
Speech == {"speechProvider", "speechText"}

Parts == CASE key = "GENERAL"      -> {"profile", "rest"}
           [] key = "MEMO_RELATED" -> {"memo"}
           [] key = "TAGS"         -> {"tags"}
           [] key = "STORAGE"      -> {"storage", "s3"}
           [] key = "NOTIFICATION" -> {"smtp", "sender", "password"}
           [] key = "AI"           -> Providers \cup Speech

Secrets == {"s3", "password"} \cup Providers

\* The parts each form lets an administrator edit.
Own == [section |-> {"rest"}, profile |-> {"profile"}, memo |-> {"memo"},
        tags |-> {"tags"}, storage |-> {"storage", "s3"},
        email |-> {"smtp", "sender", "password"}, provider |-> Providers,
        transcription |-> Speech]
Forms == {f \in DOMAIN Own : Own[f] \subseteq Parts}

NoDialog == [id |-> "provider1", key |-> 0]
NoFetch == [stage |-> "none", answer |-> [p \in Parts |-> 0], for |-> 0]
Settled == [form |-> "done", payload |-> [p \in Parts |-> 0], edited |-> {},
         stage |-> "done", seen |-> [p \in Parts |-> 0]]
InFlight == {i \in DOMAIN saves : saves[i].stage # "done"}
-----------------------------------------------------------------------------
(* The server.                                                             *)

\* convertInstanceSettingFromStore: credentials are not sent back.
View(value) == [p \in Parts |-> IF p \in Secrets /\ value[p] # 0 THEN Keep ELSE value[p]]

ResolveBlanks(payload, seen) ==
  [p \in Parts |-> IF payload[p] = Keep THEN 0 ELSE payload[p]]

\* An empty credential, or an absent transcription, means no change.  The
\* e-mail form always has a password field; an S3 configuration or a provider
\* that is not in the request goes away with its credential.
Blank(payload, p) == payload[p] = Keep \/ (p = "password" /\ payload[p] = 0)

Resolve(payload, seen) ==
  [p \in Parts |-> IF Blank(payload, p) THEN seen[p] ELSE payload[p]]

\* prepareInstanceAISettingForUpdate, preparePersistedTranscriptionConfig and
\* the check of sameSMTPConnectionIdentity.
Accepted(payload, seen) ==
  /\ key = "AI" =>
       LET new == Resolve(payload, seen) IN
       /\ \A p \in Providers : payload[p] = Keep => seen[p] # 0
       /\ new["speechProvider"] # 0 => new[ProviderOf(new["speechProvider"])] # 0
  /\ (key = "NOTIFICATION" /\ Blank(payload, "password") /\ seen["password"] # 0)
       => payload["smtp"] = seen["smtp"]

\* UpdateInstanceSetting reads what is stored ...
ReadStored(i) ==
  /\ saves[i].stage = "sent"
  /\ saves' = [saves EXCEPT ![i].stage = "read", ![i].seen = setting]
  /\ UNCHANGED <<key, setting, ctx, fetched, fetch, mounted, draft, dialog, edits, failures,
                 loaded, reverted, excused>>

\* ... and replaces it.
UpsertInstanceSetting(i) ==
  LET s == saves[i]
      new == Resolve(s.payload, s.seen)
  IN
  /\ s.stage = "read"
  /\ IF Accepted(s.payload, s.seen)
     THEN /\ setting' = new
          /\ reverted' = (reverted \/ \E p \in Parts \ s.edited : new[p] # setting[p])
          /\ saves' = [saves EXCEPT ![i].stage = "ok", ![i].seen = View(new)]
     ELSE /\ saves' = [saves EXCEPT ![i].stage = "rejected"]
          /\ UNCHANGED <<setting, reverted>>
  /\ UNCHANGED <<key, ctx, fetched, fetch, mounted, draft, dialog, edits, failures, loaded, excused>>

\* A save of another administrator, who sees what is stored.
ForeignSave(p, v) ==
  /\ Eventful
  /\ v # setting[p]
  /\ p = "speechProvider" => setting[ProviderOf(v)] # 0
  /\ setting' = [setting EXCEPT ![p] = v]
  /\ failures' = failures + 1
  /\ excused' = TRUE
  /\ UNCHANGED <<key, ctx, fetched, fetch, mounted, draft, dialog, saves, edits, loaded, reverted>>
-----------------------------------------------------------------------------
(* InstanceContext.                                                        *)

\* What a section shows of a value: an absent transcription as blank fields.
Shown(value) == [p \in Parts |-> IF p \in Speech /\ value[p] = Keep THEN 0 ELSE value[p]]
SpeechOf(value) == [p \in Speech |-> Shown(value)[p]]

\* The effects of the sections when the context changes: every form is set to
\* the new value, except that the profile dialog keeps its state, and a
\* transcription draft is kept unless the stored transcription changed.
Sync(f, old, new) ==
  CASE f = "profile" -> draft[f]
    [] f = "transcription" /\ SpeechOf(old) = SpeechOf(new) -> draft[f]
    [] OTHER -> Shown(new)

\* What handleSaveProvider and handleDeleteProvider do after a save that went
\* well.  React applies it together with the new context, before the effects.
Cleared(i, d) ==
  IF /\ i # 0
     /\ saves[i].form = "delete" /\ d["speechProvider"] # 0
     /\ ProviderOf(d["speechProvider"]) \in saves[i].edited
  THEN [d EXCEPT !["speechProvider"] = 0] ELSE d

\* A new context, and the rest of save i if it waited for it (0: none did).
SetContext(new, i) ==
  /\ ctx' = new
  /\ loaded' = TRUE
  /\ draft' = IF ~mounted THEN draft
              ELSE [f \in Forms |-> IF f = "transcription" THEN Cleared(i, Sync(f, ctx, new))
                                   ELSE Sync(f, ctx, new)]
  /\ dialog' = IF i # 0 /\ saves[i].form = "provider" THEN NoDialog ELSE dialog

\* fetchSettings and fetchSetting: a name is fetched once, and the name is
\* marked before the answer is there.  i is the save that awaits the answer.
StartFetch(i) ==
  /\ fetched' = TRUE
  /\ fetch' = [NoFetch EXCEPT !.stage = "sent", !.for = i]

SettingServed ==
  /\ fetch.stage = "sent"
  /\ fetch' = [fetch EXCEPT !.stage = "reply", !.answer = View(setting)]
  /\ UNCHANGED <<key, setting, ctx, fetched, mounted, draft, dialog, saves, edits, failures,
                 loaded, reverted, excused>>

SettingReply ==
  /\ fetch.stage = "reply"
  /\ SetContext(fetch.answer, fetch.for)
  /\ fetch' = NoFetch
  /\ saves' = IF fetch.for = 0 THEN saves ELSE [saves EXCEPT ![fetch.for] = Settled]
  /\ UNCHANGED <<key, setting, fetched, mounted, edits, failures, reverted, excused>>

\* The name is taken back so that a later mount fetches it again.
SettingFetchFails ==
  /\ fetch.stage # "none"
  /\ Eventful
  /\ failures' = failures + 1
  /\ fetch' = NoFetch
  /\ fetched' = FALSE
  /\ saves' = IF fetch.for = 0 THEN saves ELSE [saves EXCEPT ![fetch.for] = Settled]
  /\ UNCHANGED <<key, setting, ctx, mounted, draft, dialog, edits, loaded, reverted, excused>>

\* updateSetting: the answer becomes the context.  useInstanceSettingUpdater
\* then calls fetchSetting, which waits if the name was never fetched; the
\* profile dialog does not call it.
Saved(i) ==
  /\ saves[i].stage = "ok"
  /\ excused' = (excused \/ (InFlight # {i} /\ ~fetched))
  /\ IF fetched \/ saves[i].form = "profile"
     THEN /\ SetContext(saves[i].seen, i)
          /\ saves' = [saves EXCEPT ![i] = Settled]
          /\ UNCHANGED <<fetched, fetch>>
     ELSE /\ SetContext(saves[i].seen, 0)
          /\ saves' = [saves EXCEPT ![i].stage = "refetch"]
          /\ StartFetch(i)
  /\ UNCHANGED <<key, setting, mounted, edits, failures, reverted>>

\* An error is shown; the form keeps what was typed.
SaveRejected(i) ==
  /\ saves[i].stage = "rejected"
  /\ saves' = [saves EXCEPT ![i] = Settled]
  /\ UNCHANGED <<key, setting, ctx, fetched, fetch, mounted, draft, dialog, edits, failures,
                 loaded, reverted, excused>>

\* The call fails before the server has seen it, or its reply is lost.
SaveLost(i) ==
  /\ saves[i].stage \in {"sent", "ok"}
  /\ Eventful
  /\ failures' = failures + 1
  /\ excused' = (excused \/ saves[i].stage = "ok")
  /\ saves' = [saves EXCEPT ![i] = Settled]
  /\ UNCHANGED <<key, setting, ctx, fetched, fetch, mounted, draft, dialog, edits, loaded, reverted>>
-----------------------------------------------------------------------------
(* The sections.                                                           *)

\* Setting: a mounted section starts from the context; the page preloads the
\* settings that initialize() does not.
Preloaded == {"TAGS", "STORAGE", "NOTIFICATION", "AI"}
OpenPage ==
  /\ ~mounted
  /\ mounted' = TRUE
  /\ draft' = [f \in Forms |-> Shown(ctx)]
  /\ dialog' = NoDialog
  /\ IF key \in Preloaded /\ ~fetched THEN StartFetch(0) ELSE UNCHANGED <<fetched, fetch>>
  /\ excused' = (excused \/ (InFlight # {} /\ key \in Preloaded /\ ~fetched))
  /\ UNCHANGED <<key, setting, ctx, saves, edits, failures, loaded, reverted>>

ClosePage ==
  /\ mounted
  /\ mounted' = FALSE
  /\ UNCHANGED <<key, setting, ctx, fetched, fetch, draft, dialog, saves, edits, failures,
                 loaded, reverted, excused>>

\* What the inputs of each section can be set to.  The S3 fields are there for
\* S3 storage (2) only, the transcription fields once there is a provider.
Blanks == Vals \cup {0}
GeneralInputs == {"rest"} \X Blanks
ProfileInputs == {"profile"} \X Blanks
MemoInputs == {"memo"} \X Blanks
TagInputs == {"tags"} \X Blanks
StorageInputs ==
  ({"storage"} \X Blanks) \cup IF draft["storage"]["storage"] = 2 THEN {"s3"} \X Vals ELSE {}
EmailInputs == {"smtp", "sender", "password"} \X Vals
SpeechInputs ==
  {<<"speechProvider", n>> : n \in {0} \cup {m \in Vals : draft["provider"][ProviderOf(m)] # 0}}
    \cup IF draft["transcription"]["speechProvider"] # 0 THEN {"speechText"} \X Vals ELSE {}

Inputs(f) ==
  CASE f = "section" -> GeneralInputs
    [] f = "profile" -> ProfileInputs
    [] f = "memo"    -> MemoInputs
    [] f = "tags"    -> TagInputs
    [] f = "storage" -> StorageInputs
    [] f = "email"   -> EmailInputs
    [] f = "transcription" -> SpeechInputs
    [] OTHER -> {}

\* Typing in a form; the dialog of a provider is modal.
Edit(f, p, v) ==
  /\ mounted /\ dialog = NoDialog
  /\ Eventful
  /\ <<p, v>> \in Inputs(f) /\ v # draft[f][p]
  /\ draft' = [draft EXCEPT ![f][p] = v]
  /\ edits' = edits + 1
  /\ UNCHANGED <<key, setting, ctx, fetched, fetch, mounted, dialog, saves, failures, loaded,
                 reverted, excused>>

\* handleCreateProvider and handleEditProvider, with what is typed as the key.
EditProvider(p, v) ==
  /\ mounted /\ key = "AI" /\ dialog = NoDialog
  /\ Eventful
  /\ v = Keep => draft["provider"][p] = Keep
  /\ dialog' = [id |-> p, key |-> v]
  /\ edits' = edits + 1
  /\ UNCHANGED <<key, setting, ctx, fetched, fetch, mounted, draft, saves, failures, loaded,
                 reverted, excused>>

CloseDialog ==
  /\ dialog # NoDialog
  /\ dialog' = NoDialog
  /\ UNCHANGED <<key, setting, ctx, fetched, fetch, mounted, draft, saves, edits, failures,
                 loaded, reverted, excused>>

Submit(f, payload, edited) ==
  /\ Len(saves) < MaxSaves
  /\ saves' = Append(saves, [form |-> f, payload |-> payload, edited |-> edited,
                             stage |-> "sent", seen |-> [p \in Parts |-> 0]])
  /\ excused' = (excused \/ ~loaded \/ InFlight # {} \/ fetch.stage # "none")
  /\ UNCHANGED <<key, setting, ctx, fetched, fetch, mounted, draft, dialog, edits, failures,
                 loaded, reverted>>

Changed(f) == {p \in Own[f] : draft[f][p] # Shown(ctx)[p]}

\* InstanceSection: the whole local copy.
SaveGeneral ==
  /\ Changed("section") # {}
  /\ Submit("section", draft["section"], Changed("section"))

\* UpdateCustomizedProfileDialog: the context with the dialog's profile.  Its
\* button is disabled while a save is under way.
SaveProfile ==
  /\ draft["profile"]["profile"] # 0
  /\ \A i \in InFlight : saves[i].form # "profile"
  /\ Submit("profile", [ctx EXCEPT !["profile"] = draft["profile"]["profile"]], {"profile"})

\* MemoRelatedSettings: at least one reaction is needed.
SaveMemoRelated ==
  /\ Changed("memo") # {} /\ draft["memo"]["memo"] # 0
  /\ Submit("memo", draft["memo"], Changed("memo"))

SaveTags ==
  /\ Changed("tags") # {}
  /\ Submit("tags", draft["tags"], Changed("tags"))

\* allowSaveStorageSetting: a size limit, and for S3 (2) a complete config.
SaveStorage ==
  /\ Changed("storage") # {}
  /\ draft["storage"]["storage"] # 0
  /\ draft["storage"]["storage"] = 2 => draft["storage"]["s3"] # 0
  /\ Submit("storage", draft["storage"], Changed("storage"))

SaveNotification ==
  /\ Changed("email") # {}
  /\ Submit("email", draft["email"], Changed("email"))

\* handleSaveProvider: the local providers with the dialog's one, and the
\* transcription of the context.
SaveProvider ==
  /\ dialog.key # 0
  /\ Submit("provider",
            [p \in Parts |-> IF p = dialog.id THEN dialog.key
                             ELSE IF p \in Providers THEN draft["provider"][p] ELSE ctx[p]],
            {dialog.id})

\* handleDeleteProvider: a transcription that refers to it is cleared.
DeleteProvider(p) ==
  LET refers == ctx["speechProvider"] # Keep /\ ctx["speechProvider"] # 0
                  /\ ProviderOf(ctx["speechProvider"]) = p
  IN
  /\ draft["provider"][p] # 0 /\ dialog = NoDialog
  /\ Submit("delete",
            [q \in Parts |-> IF q = p \/ (refers /\ q \in Speech) THEN 0
                             ELSE IF q \in Providers THEN draft["provider"][q] ELSE ctx[q]],
            IF refers THEN {p} \cup Speech ELSE {p})

\* handleSaveTranscription: the local providers with the transcription draft.
SaveTranscription ==
  LET d == draft["transcription"] IN
  /\ Changed("transcription") # {} /\ dialog = NoDialog
  /\ d["speechProvider"] # 0 => draft["provider"][ProviderOf(d["speechProvider"])] # 0
  /\ Submit("transcription",
            [p \in Parts |-> IF p \in Speech THEN d[p] ELSE draft["provider"][p]],
            Changed("transcription"))
-----------------------------------------------------------------------------
\* What is stored, and the defaults a section shows before an answer arrived.
Stored == {v \in [Parts -> {0, 1}] :
             /\ key = "AI" => /\ v["speechText"] <= v["speechProvider"]
                              /\ v["speechProvider"] <= v["provider1"]
                              /\ v["provider2"] = 0
             /\ key = "NOTIFICATION" => v["sender"] = v["smtp"] /\ v["password"] = v["smtp"]}
Defaults == [p \in Parts |-> IF p \in Speech THEN Keep ELSE 0]

\* initialize() has answered, or has failed: the application starts either way.
InstanceInit ==
  /\ key \in Settings
  /\ setting \in Stored
  /\ \/ /\ key \in {"GENERAL", "MEMO_RELATED", "TAGS"}
        /\ fetched = TRUE /\ ctx = View(setting) /\ loaded = TRUE
     \/ fetched = FALSE /\ ctx = Defaults /\ loaded = FALSE
  /\ fetch = NoFetch
  /\ mounted = FALSE
  /\ draft = [f \in Forms |-> Shown(ctx)]
  /\ dialog = NoDialog
  /\ saves = <<>>
  /\ edits = 0 /\ failures = 0
  /\ reverted = FALSE /\ excused = FALSE

Save ==
  /\ mounted
  /\ \/ key = "GENERAL" /\ (SaveGeneral \/ SaveProfile)
     \/ key = "MEMO_RELATED" /\ SaveMemoRelated
     \/ key = "TAGS" /\ SaveTags
     \/ key = "STORAGE" /\ SaveStorage
     \/ key = "NOTIFICATION" /\ SaveNotification
     \/ key = "AI" /\ (SaveProvider \/ SaveTranscription \/ \E p \in Providers : DeleteProvider(p))

InstanceNext ==
  \/ OpenPage \/ ClosePage \/ CloseDialog \/ Save
  \/ \E f \in Forms : \E p \in Own[f], v \in Blanks : Edit(f, p, v)
  \/ \E p \in Providers, v \in Vals \cup {Keep} : EditProvider(p, v)
  \/ \E i \in InFlight :
       ReadStored(i) \/ UpsertInstanceSetting(i) \/ Saved(i) \/ SaveRejected(i) \/ SaveLost(i)
  \/ SettingServed \/ SettingReply \/ SettingFetchFails
  \/ \E p \in Parts \ Providers : ForeignSave(p, 2)

InstanceSpec == InstanceInit /\ [][InstanceNext]_instanceVars
-----------------------------------------------------------------------------
(***************************************************************************)
(* A save changes only what its form edited: credentials that were not     *)
(* retyped stay, the other form of the same setting is not rolled back,    *)
(* and a transcription draft is not committed by a provider save.  The     *)
(* whole setting is sent, so this needs a context that is what is stored;  *)
(* the excused cases are those in which it need not be: the form was saved *)
(* before a first answer arrived, two exchanges of this browser were under *)
(* way together, the reply of a save was lost, or another administrator    *)
(* saved.                                                                  *)
(***************************************************************************)
SavesOnlyItsEdits == reverted => excused

(***************************************************************************)
(* Once nothing is under way, the context, which the rest of the client    *)
(* reads and the next save starts from, is what the server stores (with    *)
(* the credentials blanked), in the same cases.                            *)
(***************************************************************************)
ContextIsStored ==
  (InFlight = {} /\ fetch.stage = "none" /\ loaded /\ ~excused) => ctx = View(setting)

(***************************************************************************)
(* Both, for every section of the instance's settings                      *)
(* (useInstanceSettingUpdater.ts, InstanceContext.tsx).                    *)
(***************************************************************************)
FormsSaveTheirEdits == SavesOnlyItsEdits /\ ContextIsStored
=============================================================================
