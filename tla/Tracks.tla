-------------------------------- MODULE Tracks --------------------------------
(***************************************************************************)
(* A published track in the workspace: adding it from its catalogue or by  *)
(* hand, topping up its bank, adding one of its questions, switching it    *)
(* off, deleting it (api/catalogue-service.mjs,                            *)
(* api/handlers/admin/content.mjs and tracks.mjs).  One key; tracks with   *)
(* other keys share nothing with it.                                       *)
(*                                                                         *)
(* Adding waits for adding, in one instance (withLock); topping up and     *)
(* deleting wait for nobody.  Every step is one storage call, or a listing *)
(* with the removal of what it listed.                                     *)
(***************************************************************************)
EXTENDS Naturals, FiniteSets

CONSTANTS
  Posted,      \* the published questions of the track
  Helpers,     \* requests under way at a time
  MaxTracks    \* bound: tracks ever added

ASSUME TracksAssumption == MaxTracks \in Nat

VARIABLES
  roles,     \* roles[r]: the row of track r and what is keyed to it
  helper,    \* helper[d]: what request d is doing
  promised,  \* history: the track an answered installation promised, or 0
  undone,    \* history: the tracks whose installation was undone
  met        \* history: the tracks another request than their installation has looked up

tracksVars == <<roles, helper, promised, undone, met>>

Asleep == [step |-> "idle"]
NoTrack == [row |-> FALSE, active |-> FALSE, frames |-> 0, comps |-> 0, items |-> [q \in Posted |-> 0]]

TracksInit ==
  /\ roles = [r \in {} |-> NoTrack]
  /\ helper = [d \in Helpers |-> Asleep]
  /\ promised = 0 /\ undone = {} /\ met = {}

RoleRows == {r \in DOMAIN roles : roles[r].row}
Live == {r \in RoleRows : roles[r].active}
Works(d, step) == helper[d].step = step
Then(d, r) == helper' = [helper EXCEPT ![d] = r]
Stage(d, step) == Then(d, [helper[d] EXCEPT !.step = step])
Untold == UNCHANGED <<promised, undone, met>>
Meets(r) == met' = met \cup {r}

Adding == {"insert", "frame"}
ToppingUp == {"comps", "addComps", "items", "addItems", "ensure", "addFrame"}
Undoing == {"undoItems", "undoComps", "undoFrames", "undoRow"}
Deleting == \E d \in Helpers : helper[d].step \in {"goItems", "goComps", "goFrames", "goRow"}

\* Faulty variant of KeyFree: an installation takes no lock.
FaultyKeyFree(d) == TRUE

\* The lock role-key: of the track.
KeyFree(d) ==
  \A x \in Helpers \ {d} :
    /\ helper[x].step \notin Adding \cup Undoing
    /\ helper[x].step \in ToppingUp => helper[x].by = "sync"

----------------------------------------------------------------------------
(* Adding a track by hand (POST /admin/roles) *)

CreateTrack(d) ==
  /\ Works(d, "idle") /\ KeyFree(d) /\ RoleRows = {}
  /\ Then(d, [step |-> "insert", by |-> "hand"])
  /\ UNCHANGED roles /\ Untold

InsertTrack(d) ==
  LET r == Cardinality(DOMAIN roles) + 1
      new == [NoTrack EXCEPT !.row = TRUE, !.active = TRUE]
  IN
  /\ Works(d, "insert") /\ r <= MaxTracks
  /\ roles' = [x \in DOMAIN roles \cup {r} |-> IF x = r THEN new ELSE roles[x]]
  /\ Then(d, IF helper[d].by = "hand" THEN [step |-> "frame", by |-> "hand", role |-> r]
             ELSE [step |-> "comps", by |-> "install", role |-> r, fresh |-> TRUE, clear |-> TRUE])
  /\ Untold

InsertFrame(d) ==
  /\ Works(d, "frame")
  /\ roles' = [roles EXCEPT ![helper[d].role].frames = @ + 1]
  /\ Then(d, Asleep)
  /\ Untold

----------------------------------------------------------------------------
(* Adding it from its catalogue (installCatalogue) and topping it up (syncCatalogue) *)

\* An active track is topped up; one that is switched off is left alone.
Install(d) ==
  /\ Works(d, "idle") /\ KeyFree(d)
  /\ Live # {} \/ RoleRows = {}
  /\ Then(d, IF Live = {} THEN [step |-> "insert", by |-> "install"]
             ELSE [step |-> "comps", by |-> "install", role |-> CHOOSE r \in Live : TRUE, fresh |-> FALSE,
                   clear |-> ~Deleting])
  /\ met' = met \cup Live
  /\ UNCHANGED <<roles, promised, undone>>

Sync(d) ==
  /\ Works(d, "idle") /\ Live # {}
  /\ Then(d, [step |-> "comps", by |-> "sync", role |-> CHOOSE r \in Live : TRUE, fresh |-> FALSE,
              clear |-> TRUE])
  /\ met' = met \cup Live
  /\ UNCHANGED <<roles, promised, undone>>

\* synchronizeBank: the competencies that are not there, then the questions.
ReadComps(d) ==
  /\ Works(d, "comps")
  /\ Stage(d, IF roles[helper[d].role].comps > 0 THEN "items" ELSE "addComps")
  /\ UNCHANGED roles /\ Untold

AddComps(d) ==
  /\ Works(d, "addComps")
  /\ roles' = [roles EXCEPT ![helper[d].role].comps = @ + 1]
  /\ Stage(d, "items")
  /\ Untold

Missing(r) == {q \in Posted : roles[r].items[q] = 0}

ReadItems(d) ==
  LET h == helper[d] IN
  /\ Works(d, "items")
  /\ Then(d, [step |-> "addItems", by |-> h.by, role |-> h.role, fresh |-> h.fresh, clear |-> h.clear,
              add |-> Missing(h.role)])
  /\ UNCHANGED roles /\ Untold

AddItems(d) ==
  LET h == helper[d] IN
  /\ Works(d, "addItems")
  /\ roles' = [roles EXCEPT ![h.role].items = [q \in Posted |-> IF q \in h.add THEN @[q] + 1 ELSE @[q]]]
  /\ Then(d, IF h.by = "sync" THEN Asleep
             ELSE [step |-> "ensure", by |-> h.by, role |-> h.role, fresh |-> h.fresh, clear |-> h.clear])
  /\ Untold

\* The installation is answered; one that met a deletion promises nothing.
Answered(d) ==
  /\ Then(d, Asleep)
  /\ promised' = IF helper[d].clear THEN helper[d].role ELSE promised
  /\ UNCHANGED <<undone, met>>

\* Faulty variant of HasFrame: a track that is there is taken to be whole.
FaultyHasFrame(d) == ~helper[d].fresh

HasFrame(d) == roles[helper[d].role].frames > 0

\* ensureFramework
Ensure(d) ==
  /\ Works(d, "ensure")
  /\ IF HasFrame(d) THEN Answered(d) ELSE Stage(d, "addFrame") /\ Untold
  /\ UNCHANGED roles

AddFrame(d) ==
  /\ Works(d, "addFrame")
  /\ roles' = [roles EXCEPT ![helper[d].role].frames = @ + 1]
  /\ Answered(d)

\* A storage call fails.  An installation that had added the track undoes itself.
HelperFails(d) ==
  LET h == helper[d] IN
  /\ ~Works(d, "idle")
  /\ Then(d, IF h.step \in ToppingUp /\ h.fresh
             THEN [step |-> "undoItems", by |-> h.by, role |-> h.role] ELSE Asleep)
  /\ UNCHANGED roles /\ Untold

\* Faulty variant of Erased: only the questions and the framework go.
FaultyErased(t, what) ==
  CASE what = "items" -> [t EXCEPT !.items = NoTrack.items]
    [] what = "comps" -> t
    [] what = "frames" -> [t EXCEPT !.frames = 0]
    [] what = "row" -> [t EXCEPT !.row = FALSE, !.active = FALSE]

\* What is keyed to the track, and then its row.
Erased(t, what) ==
  CASE what = "items" -> [t EXCEPT !.items = NoTrack.items]
    [] what = "comps" -> [t EXCEPT !.comps = 0]
    [] what = "frames" -> [t EXCEPT !.frames = 0]
    [] what = "row" -> [t EXCEPT !.row = FALSE, !.active = FALSE]

Erase(d, what) == roles' = [roles EXCEPT ![helper[d].role] = Erased(@, what)]

\* uninstallRole
Undo(d) ==
  /\ \/ Works(d, "undoItems") /\ Erase(d, "items") /\ Stage(d, "undoComps") /\ UNCHANGED undone
     \/ Works(d, "undoComps") /\ Erase(d, "comps") /\ Stage(d, "undoFrames") /\ UNCHANGED undone
     \/ Works(d, "undoFrames") /\ Erase(d, "frames") /\ Stage(d, "undoRow") /\ UNCHANGED undone
     \/ /\ Works(d, "undoRow") /\ Erase(d, "row") /\ Then(d, Asleep)
        /\ undone' = undone \cup {helper[d].role}
  /\ UNCHANGED <<promised, met>>

----------------------------------------------------------------------------
(* What else an administrator does *)

\* PATCH /admin/roles/:id
SwitchTrackRow(d) ==
  /\ Works(d, "idle")
  /\ \E r \in RoleRows : roles' = [roles EXCEPT ![r].active = ~@]
  /\ UNCHANGED helper /\ Untold

\* DELETE /admin/roles/:id of a track without papers.
Delete(d) ==
  /\ Works(d, "idle")
  /\ \E r \in RoleRows :
       /\ helper' = [x \in Helpers |->
            IF x = d THEN [step |-> "goItems", role |-> r]
            ELSE IF Works(x, "idle") \/ helper[x].step \notin ToppingUp THEN helper[x]
            ELSE [helper[x] EXCEPT !.clear = FALSE]]
       /\ promised' = IF promised = r THEN 0 ELSE promised
       /\ Meets(r)
  /\ UNCHANGED <<roles, undone>>

DeleteNext(d) ==
  /\ \/ Works(d, "goItems") /\ Erase(d, "items") /\ Stage(d, "goComps")
     \/ Works(d, "goComps") /\ Erase(d, "comps") /\ Stage(d, "goFrames")
     \/ Works(d, "goFrames") /\ Erase(d, "frames") /\ Stage(d, "goRow")
     \/ Works(d, "goRow") /\ Erase(d, "row") /\ Then(d, Asleep)
  /\ Untold

\* POST /admin/questions: track and competency are looked up, then, under the lock of
\* the track's questions, the prompt is looked for and the question inserted.
AskToAdd(d) ==
  /\ Works(d, "idle")
  /\ \E r \in RoleRows, q \in Posted :
       roles[r].comps > 0 /\ Meets(r) /\ Then(d, [step |-> "waitPrompt", role |-> r, item |-> q])
  /\ UNCHANGED <<roles, promised, undone>>

LookForPrompt(d) ==
  LET h == helper[d] IN
  /\ Works(d, "waitPrompt")
  /\ \A x \in Helpers : helper[x].step = "insertItem" => helper[x].role # h.role
  /\ IF roles[h.role].items[h.item] > 0 THEN Then(d, Asleep) ELSE Stage(d, "insertItem")
  /\ UNCHANGED roles /\ Untold

InsertItem(d) ==
  LET h == helper[d] IN
  /\ Works(d, "insertItem")
  /\ roles' = [roles EXCEPT ![h.role].items[h.item] = @ + 1]
  /\ Then(d, Asleep)
  /\ Untold

TracksNext ==
  \E d \in Helpers :
    \/ CreateTrack(d) \/ InsertTrack(d) \/ InsertFrame(d)
    \/ Install(d) \/ Sync(d) \/ ReadComps(d) \/ AddComps(d) \/ ReadItems(d) \/ AddItems(d)
    \/ Ensure(d) \/ AddFrame(d) \/ HelperFails(d) \/ Undo(d)
    \/ SwitchTrackRow(d) \/ Delete(d) \/ DeleteNext(d)
    \/ AskToAdd(d) \/ LookForPrompt(d) \/ InsertItem(d)

TracksSpec == TracksInit /\ [][TracksNext]_tracksVars

----------------------------------------------------------------------------
(* Properties *)

\* However many add the track at once, by hand or from the catalogue, there is one
\* (content.mjs:35-38, tracks.mjs:44-47).
OneTrackPerKey == Cardinality(RoleRows) <= 1

\* An installation is all or nothing.  One that was answered left a whole track, until
\* somebody deletes it, also when it found one that an earlier request had left without
\* its framework; one that failed and was undone leaves nothing behind, unless another
\* request had found the track meanwhile (catalogue-service.mjs:270-295).
AllOrNothing ==
  /\ promised # 0 =>
       LET t == roles[promised] IN t.row /\ t.frames = 1 /\ t.comps > 0 /\ \A q \in Posted : t.items[q] > 0
  /\ \A r \in undone \ met : roles[r] = NoTrack

=============================================================================
