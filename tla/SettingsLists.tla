--------------------------- MODULE SettingsLists ---------------------------
(***************************************************************************)
(* The lists of the settings pages: webhooks, access tokens, members,      *)
(* identity providers and shortcuts.  Each shows what the server listed    *)
(* last, a dialog creates or edits an entry, a confirmation deletes or     *)
(* archives one, and after a change the list is fetched again or corrected *)
(* in place.  Dialogs may be dismissed and opened again while a request of *)
(* theirs is under way, and answers may overtake each other.               *)
(*                                                                         *)
(* A behaviour follows one list.  An entry is a number of the sequence of  *)
(* entries ever stored, with a content 1 or 2 (0 is a form that is not     *)
(* complete) and whether it is archived.                                   *)
(***************************************************************************)
EXTENDS Naturals, Sequences, FiniteSets

CONSTANTS
  ListKinds,    \* the lists to follow, a subset of AllLists
  MaxOpens,     \* bound on dialogs opened
  MaxWrites,    \* bound on requests that change an entry
  MaxMishaps    \* bound on failed calls and lost replies

VARIABLES
  part,         \* the list under consideration
  entries,      \* stored: number -> entry or Gone
  list,         \* what the section shows, in the same form
  reads,        \* the list requests so far
  form,         \* per dialog: its state
  calls,        \* the changing requests so far
  asked,        \* the confirmation that is open
  made,         \* history: per opened form, the entries it created
  version,      \* number of changes served
  seen,         \* history: the latest change that list reflects
  crossed,      \* history: an answer older than that was shown
  missed,       \* history: a reply or a list was lost
  mishaps       \* number of mishaps

listVars == <<part, entries, list, reads, form, calls, asked, made, version, seen,
              crossed, missed, mishaps>>

AllLists == {"webhooks", "tokens", "members", "providers", "shortcuts"}

ASSUME ListsAssumption ==
  /\ ListKinds \subseteq AllLists
  /\ MaxOpens \in Nat /\ MaxWrites \in Nat /\ MaxMishaps \in Nat

Entry(v) == [val |-> v, off |-> FALSE]
Gone == [val |-> 0, off |-> FALSE]
Present(i) == i \in DOMAIN list /\ list[i] # Gone

\* MemberSection has a dialog for creating and one for editing.
Dialogs == {"main", "edit"}
NoForm == [open |-> FALSE, target |-> 0, base |-> <<0, Gone>>, typed |-> 0, saving |-> FALSE,
           done |-> FALSE, number |-> 0]
DialogFor(target) == IF part = "members" /\ target # 0 THEN "edit" ELSE "main"
NotAsked == [op |-> "none", id |-> 0, busy |-> FALSE, call |-> 0]

\* A dialog is modal; the form of the shortcuts is part of the page.
Free == asked = NotAsked /\ (part = "shortcuts" \/ \A d \in Dialogs : ~form[d].open)

Under == {i \in DOMAIN calls : calls[i].stage # "over"}
Reading == {r \in DOMAIN reads : reads[r].stage # "over"}
Over(s) == [s EXCEPT !.stage = "over"]
Mishap == mishaps < MaxMishaps /\ mishaps' = mishaps + 1
-----------------------------------------------------------------------------
(* Lists.                                                                  *)

\* A list request, and what waits for it: nothing, a form or a confirmation.
Read(then) == [stage |-> "sent", answer |-> <<>>, version |-> 0, then |-> then]

\* useListUsers: a new fetch replaces the one under way.  The other sections
\* just send another request.
WithRead(then) ==
  Append(IF part = "members" THEN [r \in DOMAIN reads |-> Over(reads[r])] ELSE reads, Read(then))

\* What a fetch that was replaced leaves of the confirmation that awaited it.
Released == IF part = "members" /\ \E r \in Reading : reads[r].then = "asked"
            THEN NotAsked ELSE asked

ListServed(r) ==
  /\ reads[r].stage = "sent"
  /\ reads' = [reads EXCEPT ![r].stage = "served", ![r].answer = entries, ![r].version = version]
  /\ UNCHANGED <<part, entries, list, form, calls, asked, made, version, seen, crossed,
                 missed, mishaps>>

Closed(f) == [f EXCEPT !.open = FALSE]
Reset(f) == [f EXCEPT !.open = FALSE, !.target = 0, !.typed = 0]

\* The rest of the handler that awaited the list: WebhookSection closes the
\* dialog, whichever is open by now; so does SSOSection, which also ends
\* editing; Shortcuts resets and closes its form.
FormAfter(then) ==
  IF then # "form" THEN form
  ELSE CASE part = "webhooks"  -> [form EXCEPT !["main"] = Closed(@)]
         [] part = "providers" -> [form EXCEPT !["main"] = Reset(@)]
         [] part = "shortcuts" -> [form EXCEPT !["main"] = [Reset(@) EXCEPT !.saving = FALSE]]
AskedAfter(then) == IF then = "asked" THEN NotAsked ELSE asked

ListReply(r) ==
  /\ reads[r].stage = "served"
  /\ list' = reads[r].answer
  /\ crossed' = (crossed \/ reads[r].version < seen)
  /\ seen' = IF reads[r].version > seen THEN reads[r].version ELSE seen
  /\ reads' = [reads EXCEPT ![r] = Over(@)]
  /\ form' = FormAfter(reads[r].then)
  /\ asked' = AskedAfter(reads[r].then)
  /\ UNCHANGED <<part, entries, calls, made, version, missed, mishaps>>

\* A failed list.  SSOSection reports it and goes on; the others stop there,
\* which for a shortcut looks as if saving it had failed.
ListFails(r) ==
  /\ reads[r].stage \in {"sent", "served"}
  /\ Mishap
  /\ missed' = TRUE
  /\ reads' = [reads EXCEPT ![r] = Over(@)]
  /\ form' = CASE part = "providers" -> FormAfter(reads[r].then)
               [] part = "shortcuts" /\ reads[r].then = "form" -> [form EXCEPT !["main"].saving = FALSE]
               [] OTHER -> form
  /\ asked' = AskedAfter(reads[r].then)
  /\ UNCHANGED <<part, entries, list, calls, made, version, seen, crossed>>
-----------------------------------------------------------------------------
(* Opening, filling and dismissing a form.                                 *)

\* CreateWebhookDialog keeps what was typed before.
WebhookForm(f, target) == f

\* CreateAccessTokenDialog starts empty whenever it is opened.
TokenForm(f, target) == [f EXCEPT !.typed = 0, !.done = FALSE]

\* CreateUserDialog starts from its user when that is another one, or was changed
\* since, and keeps what was typed when it is not.
MemberForm(f, target) ==
  IF target = 0 \/ f.base = <<target, list[target]>> THEN f
  ELSE [f EXCEPT !.base = <<target, list[target]>>, !.typed = list[target].val]

\* CreateIdentityProviderDialog starts from a template or from its provider.
ProviderForm(f, target) == [f EXCEPT !.typed = IF target = 0 THEN 0 ELSE list[target].val]

\* The form of Shortcuts starts empty or from its shortcut.
ShortcutForm(f, target) == [f EXCEPT !.typed = IF target = 0 THEN 0 ELSE list[target].val]

Opened(f, target) ==
  [CASE part = "webhooks"  -> WebhookForm(f, target)
     [] part = "tokens"    -> TokenForm(f, target)
     [] part = "members"   -> MemberForm(f, target)
     [] part = "providers" -> ProviderForm(f, target)
     [] part = "shortcuts" -> ShortcutForm(f, target)
   EXCEPT !.open = TRUE, !.target = target, !.number = Len(made) + 1]

\* handleCreateUser also empties the dialog for editing.
OpenForm(target) ==
  LET d == DialogFor(target) IN
  /\ Free
  /\ Len(made) < MaxOpens
  /\ target # 0 => Present(target) /\ part \in {"members", "providers", "shortcuts"}
  /\ form' = [e \in Dialogs |->
                IF e = d THEN Opened(form[d], target)
                ELSE IF part = "members" /\ target = 0
                THEN [form[e] EXCEPT !.base = <<0, Gone>>, !.typed = 0] ELSE form[e]]
  /\ made' = Append(made, 0)
  /\ UNCHANGED <<part, entries, list, reads, calls, asked, version, seen, crossed,
                 missed, mishaps>>

Type(d, v) ==
  /\ form[d].open /\ ~form[d].done /\ asked = NotAsked
  /\ v # form[d].typed
  /\ form' = [form EXCEPT ![d].typed = v]
  /\ UNCHANGED <<part, entries, list, reads, calls, asked, made, version, seen, crossed,
                 missed, mishaps>>

\* Escape, a click outside or Cancel.  Only the dialog of identity providers
\* stays while it is submitting.
CloseForm(d) ==
  /\ form[d].open /\ asked = NotAsked
  /\ part = "providers" => ~form[d].saving
  /\ form' = [form EXCEPT ![d] = IF part \in {"providers", "shortcuts"} THEN Reset(@) ELSE Closed(@)]
  /\ UNCHANGED <<part, entries, list, reads, calls, asked, made, version, seen, crossed,
                 missed, mishaps>>
-----------------------------------------------------------------------------
(* Requests.                                                               *)

SendCall(op, id, val, d) ==
  /\ Len(calls) < MaxWrites
  /\ calls' = Append(calls, [op |-> op, id |-> id, val |-> val, dialog |-> d,
                             from |-> form[d].number, stage |-> "sent"])

\* What the dialogs ask for.  The dialog of a created token has no button; a
\* member may be saved with nothing changed.
WebhookFilled(f) == f.typed # 0
TokenFilled(f) == f.typed # 0 /\ ~f.done
MemberFilled(f) == f.target # 0 \/ f.typed # 0
ProviderFilled(f) == f.typed # 0
ShortcutFilled(f) == f.typed # 0

Filled(f) ==
  CASE part = "webhooks"  -> WebhookFilled(f)
    [] part = "tokens"    -> TokenFilled(f)
    [] part = "members"   -> MemberFilled(f)
    [] part = "providers" -> ProviderFilled(f)
    [] part = "shortcuts" -> ShortcutFilled(f)

MaySaveAnytime(f) == f.open /\ Filled(f)

\* The button is enabled, and what is required is filled in.
MaySave(f) == f.open /\ Filled(f) /\ ~f.saving

SaveForm(d) ==
  /\ MaySave(form[d]) /\ asked = NotAsked
  /\ SendCall(IF form[d].target = 0 THEN "create" ELSE "update", form[d].target, form[d].typed, d)
  /\ form' = [form EXCEPT ![d].saving = TRUE]
  /\ UNCHANGED <<part, entries, list, reads, asked, made, version, seen, crossed,
                 missed, mishaps>>

\* What a row offers: only archived members can be deleted.
Offered(op, i) ==
  /\ Present(i)
  /\ CASE op = "delete"  -> part = "members" => list[i].off
       [] op = "archive" -> part = "members" /\ ~list[i].off
       [] op = "restore" -> part = "members" /\ list[i].off

Ask(op, i) ==
  /\ Free
  /\ op # "restore" /\ Offered(op, i)
  /\ Len(calls) < MaxWrites
  /\ asked' = [op |-> op, id |-> i, busy |-> FALSE, call |-> 0]
  /\ UNCHANGED <<part, entries, list, reads, form, calls, made, version, seen, crossed,
                 missed, mishaps>>

CancelAsked ==
  /\ asked # NotAsked /\ ~asked.busy
  /\ asked' = NotAsked
  /\ UNCHANGED <<part, entries, list, reads, form, calls, made, version, seen, crossed,
                 missed, mishaps>>

\* ConfirmDialog is busy until the handler is through; deleting a member does
\* not wait and closes it at once.
Confirm ==
  /\ asked # NotAsked /\ ~asked.busy
  /\ SendCall(asked.op, asked.id, 0, "main")
  /\ asked' = IF part = "members" /\ asked.op = "delete" THEN NotAsked
              ELSE [asked EXCEPT !.busy = TRUE, !.call = Len(calls) + 1]
  /\ UNCHANGED <<part, entries, list, reads, form, made, version, seen, crossed,
                 missed, mishaps>>

RestoreUser(i) ==
  /\ Free
  /\ Offered("restore", i)
  /\ SendCall("restore", i, 0, "main")
  /\ UNCHANGED <<part, entries, list, reads, form, asked, made, version, seen, crossed,
                 missed, mishaps>>

\* The server performs a request, or refuses it.
Performed(c) ==
  CASE c.op = "create"  -> Append(entries, Entry(c.val))
    [] c.op = "update"  -> [entries EXCEPT ![c.id].val = c.val]
    [] c.op = "delete"  -> [entries EXCEPT ![c.id] = Gone]
    [] c.op = "archive" -> [entries EXCEPT ![c.id].off = TRUE]
    [] c.op = "restore" -> [entries EXCEPT ![c.id].off = FALSE]

Perform(i) ==
  LET c == calls[i] IN
  /\ c.stage = "sent"
  /\ c.op # "create" => entries[c.id] # Gone
  /\ entries' = Performed(c)
  /\ version' = version + 1
  /\ made' = IF c.op = "create" THEN [made EXCEPT ![c.from] = @ + 1] ELSE made
  /\ calls' = [calls EXCEPT ![i].stage = "ok"]
  /\ UNCHANGED <<part, list, reads, form, asked, seen, crossed, missed, mishaps>>

Refuse(i) ==
  /\ calls[i].stage = "sent"
  /\ calls' = [calls EXCEPT ![i].stage = "failed"]
  /\ UNCHANGED <<part, entries, list, reads, form, asked, made, version, seen, crossed,
                 missed, mishaps>>

\* The request was performed and its reply is lost.
ReplyLost(i) ==
  /\ calls[i].stage = "ok"
  /\ Mishap
  /\ missed' = TRUE
  /\ calls' = [calls EXCEPT ![i].stage = "failed"]
  /\ UNCHANGED <<part, entries, list, reads, form, asked, made, version, seen, crossed>>
-----------------------------------------------------------------------------
(* Replies to a form.                                                      *)

WebhookSaved(c) ==
  /\ form' = [form EXCEPT !["main"] = [Closed(@) EXCEPT !.saving = FALSE]]
  /\ reads' = WithRead("form")
  /\ UNCHANGED asked

\* The dialog, if it is open, shows the new token from now on.
TokenSaved(c) ==
  /\ form' = [form EXCEPT !["main"].saving = FALSE, !["main"].done = TRUE]
  /\ reads' = WithRead("nothing")
  /\ UNCHANGED asked

MemberSaved(c) ==
  /\ form' = [form EXCEPT ![c.dialog] = [Closed(@) EXCEPT !.saving = FALSE]]
  /\ reads' = WithRead("nothing")
  /\ asked' = Released

ProviderSaved(c) ==
  /\ form' = [form EXCEPT !["main"] = [Reset(@) EXCEPT !.saving = FALSE]]
  /\ reads' = WithRead("form")
  /\ UNCHANGED asked

\* refetchSettings is awaited before the form is left.
ShortcutSaved(c) ==
  /\ reads' = WithRead("form")
  /\ UNCHANGED <<form, asked>>

FormSaved(i) ==
  LET c == calls[i] IN
  /\ c.stage = "ok" /\ c.op \in {"create", "update"}
  /\ CASE part = "webhooks"  -> WebhookSaved(c)
       [] part = "tokens"    -> TokenSaved(c)
       [] part = "members"   -> MemberSaved(c)
       [] part = "providers" -> ProviderSaved(c)
       [] part = "shortcuts" -> ShortcutSaved(c)
  /\ calls' = [calls EXCEPT ![i] = Over(@)]
  /\ UNCHANGED <<part, entries, list, made, version, seen, crossed, missed, mishaps>>

\* The error is shown and the form keeps its text.
FormNotSaved(i) ==
  /\ calls[i].stage = "failed" /\ calls[i].op \in {"create", "update"}
  /\ form' = [form EXCEPT ![calls[i].dialog].saving = FALSE]
  /\ calls' = [calls EXCEPT ![i] = Over(@)]
  /\ UNCHANGED <<part, entries, list, reads, asked, made, version, seen, crossed,
                 missed, mishaps>>
-----------------------------------------------------------------------------
(* Replies to a confirmation.                                              *)

Mine(i) == asked.busy /\ asked.call = i

\* setWebhooks and setPersonalAccessTokens: the row is taken out in place.
Removed(c) == IF Present(c.id) THEN [list EXCEPT ![c.id] = Gone] ELSE list

WebhookDeleted(c, i) ==
  /\ list' = Removed(c)
  /\ seen' = IF version > seen THEN version ELSE seen
  /\ asked' = IF Mine(i) THEN NotAsked ELSE asked
  /\ UNCHANGED reads

\* Archiving waits for the new list, restoring has no dialog, and deleting
\* clears the target, even that of a confirmation opened since.
MemberChanged(c, i) ==
  /\ reads' = WithRead(IF c.op = "archive" THEN "asked" ELSE "nothing")
  /\ asked' = CASE c.op = "archive" -> asked
                [] c.op = "delete" /\ asked.op = "delete" -> NotAsked
                [] OTHER -> Released
  /\ UNCHANGED <<list, seen>>

ProviderDeleted(c, i) ==
  /\ reads' = WithRead("asked")
  /\ UNCHANGED <<list, seen, asked>>

EntryChanged(i) ==
  LET c == calls[i] IN
  /\ c.stage = "ok" /\ c.op \in {"delete", "archive", "restore"}
  /\ CASE part \in {"webhooks", "tokens"}     -> WebhookDeleted(c, i)
       [] part = "members"                    -> MemberChanged(c, i)
       [] part \in {"providers", "shortcuts"} -> ProviderDeleted(c, i)
  /\ calls' = [calls EXCEPT ![i] = Over(@)]
  /\ UNCHANGED <<part, entries, form, made, version, crossed, missed, mishaps>>

\* SSOSection fetches the list all the same.  The confirmation of a webhook or a
\* token stays for another attempt, the others are closed.
EntryNotChanged(i) ==
  LET c == calls[i] IN
  /\ c.stage = "failed" /\ c.op \in {"delete", "archive", "restore"}
  /\ reads' = IF part = "providers" THEN WithRead("asked") ELSE reads
  /\ asked' = CASE part \in {"webhooks", "tokens"} /\ Mine(i) ->
                     [asked EXCEPT !.busy = FALSE, !.call = 0]
                [] part = "members" /\ c.op = "delete" /\ asked.op = "delete" -> NotAsked
                [] part \in {"members", "shortcuts"} /\ Mine(i) -> NotAsked
                [] OTHER -> asked
  /\ calls' = [calls EXCEPT ![i] = Over(@)]
  /\ UNCHANGED <<part, entries, list, form, made, version, seen, crossed, missed, mishaps>>
-----------------------------------------------------------------------------
\* A section fetches its list when it is mounted; the shortcuts were loaded with
\* the user.
ListsInit ==
  /\ part \in ListKinds
  /\ entries = <<Entry(1), Entry(2)>>
  /\ list = IF part = "shortcuts" THEN entries ELSE <<>>
  /\ reads = IF part = "shortcuts" THEN <<>> ELSE <<Read("nothing")>>
  /\ form = [d \in Dialogs |-> NoForm]
  /\ calls = <<>>
  /\ asked = NotAsked
  /\ made = <<>>
  /\ version = 0 /\ seen = 0
  /\ crossed = FALSE /\ missed = FALSE
  /\ mishaps = 0

ListsNext ==
  \/ OpenForm(0) \/ \E i \in DOMAIN list : OpenForm(i)
  \/ \E d \in Dialogs : SaveForm(d) \/ CloseForm(d) \/ \E v \in {1, 2} : Type(d, v)
  \/ \E i \in DOMAIN list : RestoreUser(i) \/ \E op \in {"delete", "archive"} : Ask(op, i)
  \/ CancelAsked \/ Confirm
  \/ \E i \in Under : \/ Perform(i) \/ Refuse(i) \/ ReplyLost(i)
                      \/ FormSaved(i) \/ FormNotSaved(i) \/ EntryChanged(i) \/ EntryNotChanged(i)
  \/ \E r \in Reading : ListServed(r) \/ ListReply(r) \/ ListFails(r)

ListsSpec == ListsInit /\ [][ListsNext]_listVars
-----------------------------------------------------------------------------
(***************************************************************************)
(* When nothing is under way, a section shows what is stored: each change  *)
(* ends in a correction of the list or in a fetch that includes it, also   *)
(* when the dialog was dismissed meanwhile.  The exceptions are a reply or *)
(* a list that was lost, and an answer that was overtaken by a later one;  *)
(* for the members React Query rules the latter out.                       *)
(***************************************************************************)
ListIsStored ==
  (Under = {} /\ Reading = {} /\ ~missed) => /\ list = entries \/ crossed
                                             /\ part = "members" => ~crossed

(***************************************************************************)
(* A form that was filled in once creates one entry, however often it is   *)
(* submitted, dismissed and taken up again, unless its reply, or the list  *)
(* fetched after it, was lost.                                             *)
(***************************************************************************)
OneEntryPerForm == \A k \in DOMAIN made : made[k] > 1 => missed

(***************************************************************************)
(* Both, for the webhooks, access tokens, members, identity providers and  *)
(* shortcuts of the settings pages.                                        *)
(***************************************************************************)
ListsSettle == ListIsStored /\ OneEntryPerForm
=============================================================================
