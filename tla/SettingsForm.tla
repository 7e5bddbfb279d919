---------------------------- MODULE SettingsForm ----------------------------
(***************************************************************************)
(* A section of the system settings in one administrator's browser: the    *)
(* form of useSettingsForm, the option query and the option mutation it is *)
(* fed from and saved through, and the server's option table, which other  *)
(* administrators write too.                                               *)
(*                                                                         *)
(* The query is refetched after every saved option.  react-query cancels a *)
(* refetch that is under way and calls its query function again, but       *)
(* api.get hands the second call the GET that is still in flight: the      *)
(* query therefore waits on ONE request, which `get' follows from the      *)
(* browser to the server's read and back.                                  *)
(***************************************************************************)
EXTENDS Integers, FiniteSets

CONSTANTS Keys,       \* the options of the section
          Values,     \* the values an option may have
          First,      \* the value every option starts with
          Stored,     \* Stored[k][v]: what SystemInfoSection writes when the
                      \* field of k holds v
          NoValue,    \* the user typed nothing
          MaxEdits,   \* bound on the user's edits
          MaxSaves,   \* bound on the user's saves
          MaxOthers,  \* bound on the writes of other administrators
          MaxFetches, \* bound on the refetches nobody's save asked for
          MaxPutFaults, \* bound on failed PUTs
          MaxGetFaults  \* bound on failed GETs

VARIABLES
  server,    \* the option table
  cache,     \* the data of the query ['system-options']
  get,       \* the GET the query waits on: none, sent, or read by the server
  form,      \* react-hook-form: the fields and the default values they are
             \* compared with to tell which are dirty
  refs,      \* baselineRef, defaultValuesRef and serializedDefaultsRef
  save,      \* handleSubmit in progress: the data, the keys still to be sent
             \* and the PUT under way
  section,   \* "stable" where defaultValues is the same object from render to
             \* render, "fresh" where the section builds it in every render
  typed,     \* history: what the user typed since the form was last reset
  submitted, \* history: what the last save that went through submitted
  unread,    \* history: the table was written after the read shown last
  readStale, \* history: the table was written after the read of `get'
  left       \* what is left of the bounds

vars == <<server, cache, get, form, refs, save, section, typed, submitted,
          unread, readStale, left>>

Options == [Keys -> Values]
AllFirst == [k \in Keys |-> First]
NoGet == [phase |-> "none", data |-> AllFirst]
NoSave == [phase |-> "idle", data |-> AllFirst, key |-> NoValue, todo |-> {}]

Spend(what) == /\ left[what] > 0
               /\ left' = [left EXCEPT ![what] = @ - 1]

Init ==
  /\ server = AllFirst /\ cache = AllFirst
  /\ get = NoGet
  /\ form = [values |-> AllFirst, defaults |-> AllFirst]
  /\ refs = [baseline |-> AllFirst, defaultValues |-> AllFirst,
             serialized |-> AllFirst]
  /\ save = NoSave
  /\ section \in {"stable", "fresh"}
  /\ typed = [k \in Keys |-> NoValue]
  /\ submitted = AllFirst
  /\ unread = FALSE /\ readStale = FALSE
  /\ left = [edits |-> MaxEdits, saves |-> MaxSaves, others |-> MaxOthers,
             fetches |-> MaxFetches, puts |-> MaxPutFaults,
             gets |-> MaxGetFaults]

-----------------------------------------------------------------------------
(* The form.  A view is what a render sees: the form and the refs.          *)

View == [form |-> form, refs |-> refs]

(* form.reset of react-hook-form: the fields and the defaults both become  *)
(* the given values, so that no field is dirty.                            *)
ResetTo(d) == [values |-> d, defaults |-> d]

Dirty == {k \in Keys : form.values[k] # form.defaults[k]}

(* The three refs that remember what the form was based on, and the form. *)
BasedOn(d) ==
  [form |-> ResetTo(d),
   refs |-> [baseline |-> d, defaultValues |-> d, serialized |-> d]]

(* The effect: defaults that differ from the remembered ones reset the     *)
(* form, whatever the user has typed.                                      *)
SyncDefaults(view, options) ==
  IF options = view.refs.serialized THEN view ELSE BasedOn(options)

(* The end of a submission, followed by the render it causes; a section    *)
(* that builds its defaults in every render runs the effect in that render *)
(* too, with the options the query still holds.                            *)
Submitted(data) ==
  LET based == BasedOn(data)
  IN  IF section = "fresh" THEN SyncDefaults(based, cache) ELSE based

Show(view) ==
  /\ form' = view.form /\ refs' = view.refs
  /\ typed' = IF view = View THEN typed ELSE [k \in Keys |-> NoValue]

(* The fields that are dirty and differ from the baseline. *)
ChangedKeysAll == Keys
ChangedKeys == {k \in Dirty : form.values[k] # refs.baseline[k]}

(* The user changes a field; no field is disabled while a save runs.       *)
Edit(k, v) ==
  /\ Spend("edits")
  /\ v # form.values[k]
  /\ form' = [form EXCEPT !.values[k] = v]
  /\ typed' = [typed EXCEPT ![k] = v]
  /\ UNCHANGED <<server, cache, get, refs, save, section, submitted, unread,
                 readStale>>

(* The reset button, enabled on a dirty form that is not being saved.      *)
HandleReset ==
  /\ save.phase = "idle" /\ Dirty # {}
  /\ form' = ResetTo(refs.defaultValues)
  /\ typed' = [k \in Keys |-> NoValue]
  /\ UNCHANGED <<server, cache, get, refs, save, section, submitted, unread,
                 readStale, left>>

(* The save button, disabled while a save runs: the first PUT leaves.      *)
HandleSubmit ==
  /\ save.phase = "idle" /\ ChangedKeys # {}
  /\ Spend("saves")
  /\ \E k \in ChangedKeys :
       save' = [phase |-> "sent", data |-> form.values, key |-> k,
                todo |-> ChangedKeys \ {k}]
  /\ UNCHANGED <<server, cache, get, form, refs, section, submitted, typed,
                 unread, readStale>>

-----------------------------------------------------------------------------
(* The option table.                                                        *)

Write(k, v) ==
  /\ server' = [server EXCEPT ![k] = v]
  /\ unread' = TRUE
  /\ readStale' = TRUE

(* What onSubmit sends for a key.  The section that trims a value is the   *)
(* one that builds its defaults in every render; the others send the field.*)
SentValue(k) ==
  IF section = "fresh" THEN Stored[k][save.data[k]] ELSE save.data[k]

(* The server stores the option of the PUT under way. *)
PutLands ==
  /\ save.phase = "sent"
  /\ Write(save.key, SentValue(save.key))
  /\ save' = [save EXCEPT !.phase = "landed"]
  /\ UNCHANGED <<cache, get, form, refs, section, submitted, typed, left>>

(* The server refuses the value, or the PUT never reaches it. *)
PutRefused ==
  /\ save.phase = "sent"
  /\ Spend("puts")
  /\ save' = [save EXCEPT !.phase = "refused"]
  /\ UNCHANGED <<server, cache, get, form, refs, section, submitted, typed,
                 unread, readStale>>

OtherAdmin(k, v) ==
  /\ Spend("others")
  /\ v # server[k]
  /\ Write(k, v)
  /\ UNCHANGED <<cache, get, form, refs, save, section, submitted, typed>>

-----------------------------------------------------------------------------
(* The mutation and the query.                                              *)

(* invalidateQueries refetches through api.get, which joins a GET that is  *)
(* already in flight.                                                      *)
Invalidated ==
  IF get.phase = "none" THEN [get EXCEPT !.phase = "sent"] ELSE get

(* The PUT succeeded: the options are refetched and the next key is sent;  *)
(* after the last one the form is based on what was submitted.             *)
PutAnswered ==
  /\ save.phase = "landed"
  /\ get' = Invalidated
  /\ IF save.todo # {}
     THEN /\ \E k \in save.todo :
               save' = [save EXCEPT !.phase = "sent", !.key = k,
                                    !.todo = @ \ {k}]
          /\ UNCHANGED <<form, refs, typed, submitted>>
     ELSE /\ save' = NoSave
          /\ submitted' = save.data
          /\ Show(Submitted(save.data))
  /\ UNCHANGED <<server, cache, section, unread, readStale, left>>

(* The PUT failed, or its answer was lost after it was stored: mutateAsync *)
(* throws and the keys that remain are not sent.                           *)
PutFails ==
  /\ \/ save.phase = "refused" /\ UNCHANGED left
     \/ save.phase = "landed" /\ Spend("puts")
  /\ save' = NoSave
  /\ UNCHANGED <<server, cache, get, form, refs, section, submitted, typed,
                 unread, readStale>>

(* The query goes stale and is refetched on a reconnect. *)
Refetch ==
  /\ get.phase = "none"
  /\ Spend("fetches")
  /\ get' = Invalidated
  /\ UNCHANGED <<server, cache, form, refs, save, section, submitted, typed,
                 unread, readStale>>

ServerReads ==
  /\ get.phase = "sent"
  /\ get' = [phase |-> "read", data |-> server]
  /\ readStale' = FALSE
  /\ UNCHANGED <<server, cache, form, refs, save, section, submitted, typed,
                 unread, left>>

(* The answer becomes the query's data.  Data equal to the old data keeps  *)
(* its identity, so that nothing renders.                                  *)
GetAnswers ==
  /\ get.phase = "read"
  /\ get' = NoGet
  /\ cache' = get.data
  /\ unread' = readStale
  /\ IF get.data = cache
     THEN UNCHANGED <<form, refs, typed>>
     ELSE Show(SyncDefaults(View, get.data))
  /\ UNCHANGED <<server, save, section, submitted, readStale, left>>

(* The GET fails for good, or fails and is retried. *)
GetFails ==
  /\ get.phase # "none"
  /\ Spend("gets")
  /\ get' \in {NoGet, [NoGet EXCEPT !.phase = "sent"]}
  /\ UNCHANGED <<server, cache, form, refs, save, section, submitted, typed,
                 unread, readStale>>

Next ==
  \/ \E k \in Keys, v \in Values : Edit(k, v) \/ OtherAdmin(k, v)
  \/ HandleReset \/ HandleSubmit
  \/ PutLands \/ PutRefused \/ PutAnswered \/ PutFails
  \/ Refetch \/ ServerReads \/ GetAnswers \/ GetFails

Spec == Init /\ [][Next]_vars

-----------------------------------------------------------------------------
(* A save sends a field only with a value the user typed into it since the *)
(* form was last reset: a field nobody touched is never written back over  *)
(* what another administrator stored meanwhile, however old the form is    *)
(* (collectDirtyValues and the baseline filter of handleSubmit).           *)
SendsOnlyTyped ==
  (save.phase = "idle" /\ save'.phase = "sent")
    => \A k \in {save'.key} \cup save'.todo : typed[k] = save'.data[k]

(* Once the page is at rest and the options it holds were read after the   *)
(* last write, the fields that are not marked dirty show what is stored,   *)
(* the section's normalisation included, whatever failed and whoever wrote *)
(* on the way (useSettingsForm).  A "stable" section may instead show, in  *)
(* all of them, what its own last save submitted: the answer read after    *)
(* the save renders nothing when it equals the options the query holds, so *)
(* the effect that would base the form on the newer options does not run   *)
(* (as when another administrator put the old value back meanwhile).  No   *)
(* form shows anything else, an older state or a mixture of the two.       *)
CleanFieldsShowStored ==
  (save.phase = "idle" /\ get.phase = "none" /\ ~unread) =>
    \/ \A k \in Keys \ Dirty : form.values[k] = server[k]
    \/ /\ section = "stable"
       /\ \A k \in Keys \ Dirty : form.values[k] = submitted[k]
=============================================================================
