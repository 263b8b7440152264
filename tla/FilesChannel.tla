---------------------------- MODULE FilesChannel ----------------------------
(***************************************************************************)
(* The files channel of src/common/Files/FilesChannel.ts: the store that   *)
(* applies filesReducer to each event the channel delivers, and a          *)
(* subscriber of fileChangeObservables that keeps its own copy of the      *)
(* files from the fileAdded, fileRemoved and fileUpdated streams.          *)
(*                                                                         *)
(* A stored file is a record of its id field and its tags.  NONE stands    *)
(* for undefined (an absent file, tag or field) and NULL for null.  A file *)
(* that file_updated creates from nothing carries only the update's tags,  *)
(* so its id is NONE.                                                      *)
(***************************************************************************)
EXTENDS Naturals, Sequences, SequencesExt

CONSTANTS
    Ids,            \* file ids
    Tags,           \* tag names
    Vals,           \* tag values other than null
    NULL, NONE,
    EventsFitState, \* TRUE: each event is valid for the state it meets
    Destroyed,      \* the tag _destroyed
    True            \* the value true

VARIABLES
    files,          \* the store's FilesState
    view,           \* view[id]: the subscriber's tags of file id, or NONE
    removedOpen     \* the subscriber's fileRemoved stream has not errored

vars == <<files, view, removedOpen>>

TagMap == [Tags -> Vals \cup {NONE}]
StoredFile == [id : Ids \cup {NONE}, tags : TagMap]

(* The events fileAdded, fileRemoved, fileUpdated and transaction build.   *)
(* An added file carries its own id; an update carries tags only.          *)
AddedEvents == [type : {"file_added"}, id : Ids, file : TagMap]
RemovedEvents == [type : {"file_removed"}, id : Ids]
UpdatedEvents == [type : {"file_updated"}, id : Ids,
                  update : [Tags -> Vals \cup {NULL, NONE}]]
SingleEvents == AddedEvents \cup RemovedEvents \cup UpdatedEvents
transaction(es) == [type |-> "transaction", events |-> es]

TypeOK ==
    /\ files \in [Ids -> StoredFile \cup {NONE}]
    /\ view \in [Ids -> TagMap \cup {NONE}]
    /\ removedOpen \in BOOLEAN

Init ==
    /\ files = [i \in Ids |-> NONE]
    /\ view = [i \in Ids |-> NONE]
    /\ removedOpen = TRUE

-----------------------------------------------------------------------------
(* lodash merge({}, state, {[id]: src}): a tag of src that is not          *)
(* undefined overwrites the old one (null included); a file that did not   *)
(* exist starts empty.  Every file of the result is a fresh object.        *)
MergeTags(old, src) ==
    [t \in Tags |-> IF src[t] # NONE THEN src[t]
                    ELSE IF old = NONE THEN NONE ELSE old.tags[t]]

fileAddedReducer(fs, e) ==
    [fs EXCEPT ![e.id] = [id |-> e.id, tags |-> MergeTags(fs[e.id], e.file)]]

fileRemovedReducer(fs, e) == [fs EXCEPT ![e.id] = NONE]

\* (mutant) the loop that deletes null tags is left out.
fileUpdatedKeepsNulls(fs, e) ==
    [fs EXCEPT ![e.id] = [id |-> IF fs[e.id] = NONE THEN NONE ELSE fs[e.id].id,
                          tags |-> MergeTags(fs[e.id], e.update)]]

fileUpdatedReducer(fs, e) ==
    LET merged == MergeTags(fs[e.id], e.update) IN
    [fs EXCEPT ![e.id] = [id |-> IF fs[e.id] = NONE THEN NONE ELSE fs[e.id].id,
                          tags |-> [t \in Tags |-> IF merged[t] = NULL THEN NONE
                                                    ELSE merged[t]]]]

\* filesReducer on an event that is not a transaction.
ReduceSingle(fs, e) ==
    CASE e.type = "file_added"   -> fileAddedReducer(fs, e)
      [] e.type = "file_removed" -> fileRemovedReducer(fs, e)
      [] e.type = "file_updated" -> fileUpdatedReducer(fs, e)

applyEvents(fs, es) == FoldLeft(ReduceSingle, fs, es)

filesReducer(fs, e) ==
    IF e.type = "transaction" THEN applyEvents(fs, e.events) ELSE ReduceSingle(fs, e)

\* An event whose reduction runs merge makes every file a new object.
Clones(e) ==
    \/ e.type \in {"file_added", "file_updated"}
    \/ e.type = "transaction" /\
          \E i \in DOMAIN e.events : e.events[i].type \in {"file_added", "file_updated"}

-----------------------------------------------------------------------------
(* calculateStateDiff.  The lists of added, removed and updated files are  *)
(* sets here: each subscriber stream treats them one file at a time.       *)
Diff(added, removed, updated) ==
    [added |-> added, removed |-> removed, updated |-> updated]

\* The O(1) shortcut taken for a single event: it trusts the event's type.
ShortcutDiff(prev, cur, e) ==
    CASE e.type = "file_added"   -> Diff({cur[e.id]}, {}, {})
      [] e.type = "file_removed" -> Diff({}, {prev[e.id]}, {})
      [] e.type = "file_updated" -> Diff({}, {}, {cur[e.id]})

\* (mutant) the prevVal !== currVal branch is left out.
FullDiffNoUpdates(prev, cur, e) ==
    Diff({cur[i] : i \in {j \in Ids : prev[j] = NONE /\ cur[j] # NONE}},
         {prev[i] : i \in {j \in Ids : prev[j] # NONE /\ cur[j] = NONE}},
         {})

\* The walk over the union of both states' ids; files compare by reference.
FullDiff(prev, cur, e) ==
    LET both == {j \in Ids : prev[j] # NONE /\ cur[j] # NONE}
        changed == IF Clones(e) THEN both ELSE {j \in both : prev[j] # cur[j]}
    IN Diff({cur[i] : i \in {j \in Ids : prev[j] = NONE /\ cur[j] # NONE}},
            {prev[i] : i \in {j \in Ids : prev[j] # NONE /\ cur[j] = NONE}},
            {cur[i] : i \in changed})

calculateStateDiff(prev, cur, e) ==
    IF e.type = "transaction" THEN FullDiff(prev, cur, e) ELSE ShortcutDiff(prev, cur, e)

-----------------------------------------------------------------------------
(* The subscriber files each announced file under its id field.  A file    *)
(* that is undefined, or has no id, is filed nowhere.  fileRemoved maps    *)
(* each removed file to f.id: an undefined file throws there, the stream   *)
(* errors, and no later removal reaches the subscriber.                    *)
Filed(fs) == {f \in fs : f # NONE /\ f.id # NONE}

Observe(d) ==
    LET removedFails == NONE \in d.removed
        removedIds == IF removedOpen /\ ~removedFails
                      THEN {f.id : f \in Filed(d.removed)} ELSE {}
        put == Filed(d.added \cup d.updated)
    IN /\ view' = [i \in Ids |->
                     IF \E f \in put : f.id = i
                     THEN (CHOOSE f \in put : f.id = i).tags
                     ELSE IF i \in removedIds THEN NONE ELSE view[i]]
       /\ removedOpen' = (removedOpen /\ ~removedFails)

\* An event valid for the state it is applied to: a transaction's events
\* are each valid for the state the previous ones leave.
SingleFits(fs, e) ==
    IF e.type = "file_added" THEN fs[e.id] = NONE ELSE fs[e.id] # NONE

RECURSIVE SeqFits(_, _)
SeqFits(fs, es) ==
    IF es = <<>> THEN TRUE
    ELSE SingleFits(fs, Head(es)) /\ SeqFits(ReduceSingle(fs, Head(es)), Tail(es))

FitsState(fs, e) ==
    IF e.type = "transaction" THEN SeqFits(fs, e.events) ELSE SingleFits(fs, e)

(* The channel delivers event e: the store reduces it, the connection's    *)
(* events stream pairs the new state with the previous one, and the three  *)
(* streams announce the diff to the subscriber.                            *)
Deliver(e) ==
    /\ EventsFitState => FitsState(files, e)
    /\ files' = filesReducer(files, e)
    /\ Observe(calculateStateDiff(files, files', e))

-----------------------------------------------------------------------------
(* calculateActionEvents.  The scripts of the sender's tags that match the *)
(* receiver and the event, then those of the receiver's matching the       *)
(* sender, run in the sandbox and push events; what a script does is       *)
(* user code, so a script here sets or clears one tag of this or that, or  *)
(* does nothing.  Both files are then marked _destroyed, by their id      *)
(* fields.  A missing sender or receiver throws at .id and gives nothing.  *)
ScriptEvents(file, other) ==
    {<<>>} \cup
    {<<[type |-> "file_updated", id |-> f.id,
        update |-> [u \in Tags |-> IF u = t THEN v ELSE NONE]]>> :
        f \in {file, other}, t \in Tags, v \in Vals \cup {NULL}}

DestroyedUpdate(f) ==
    [type |-> "file_updated", id |-> f.id,
     update |-> [u \in Tags |-> IF u = Destroyed THEN True ELSE NONE]]

calculateActionEvents(sender, receiver, senderScripts, receiverScripts) ==
    senderScripts \o receiverScripts \o <<DestroyedUpdate(sender), DestroyedUpdate(receiver)>>

\* The Action interface; the event name only selects scripts.
Actions == [senderFileId : Ids, receiverFileId : Ids]

(* An action between two stored files: its events are delivered as one     *)
(* transaction.  A file without an id field is left out (its update would *)
(* go to the key "undefined", which Ids do not hold).                      *)
RunAction(a) ==
    LET sender == files[a.senderFileId]
        receiver == files[a.receiverFileId]
    IN /\ sender # NONE /\ receiver # NONE
       /\ sender.id # NONE /\ receiver.id # NONE
       /\ \E e1 \in ScriptEvents(sender, receiver), e2 \in ScriptEvents(receiver, sender) :
             Deliver(transaction(calculateActionEvents(sender, receiver, e1, e2)))

(* The channel delivers single events, transactions of up to two, and the  *)
(* events of an action.                                                    *)
Next ==
    \/ \E e \in SingleEvents : Deliver(e)
    \/ Deliver(transaction(<<>>))
    \/ \E e1 \in SingleEvents :
          /\ EventsFitState => SingleFits(files, e1)
          /\ \/ Deliver(transaction(<<e1>>))
             \/ \E e2 \in SingleEvents : Deliver(transaction(<<e1, e2>>))
    \/ \E a \in Actions : RunAction(a)

Spec == Init /\ [][Next]_vars

-----------------------------------------------------------------------------
(* What the diff promises (its doc comment: the operations to perform on   *)
(* prev to get current): a subscriber that applies fileAdded, fileRemoved  *)
(* and fileUpdated holds, after every event, exactly the store's files.    *)
ViewMatchesState ==
    \A i \in Ids : view[i] = IF files[i] = NONE THEN NONE ELSE files[i].tags

=============================================================================
