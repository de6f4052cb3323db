---------------------------- MODULE MessageStore ----------------------------
(***************************************************************************)
(* stores/messageStore.ts with its users: the result flow, its toolbar,    *)
(* the trash panel and the trash and compare commands.                     *)
(*                                                                         *)
(* A message is its number; created gives the millisecond it was added in, *)
(* which several messages may share.  What a message shows, and which      *)
(* commands add one, is ResultViews' part: the specification is there.     *)
(***************************************************************************)
EXTENDS Naturals, FiniteSets, SequencesExt

CONSTANTS
  MaxMessages,   (* messages ever added: bounds the model                  *)
  MaxTime        (* milliseconds that pass: bounds the model               *)

ASSUME MessageStoreAssumption == MaxMessages \in Nat /\ MaxTime \in Nat

VARIABLES
  messages, trash,              \* sequences of messages
  isDeleted,                    \* the messages whose is_deleted is set
  selectedIds, selectionMode,
  selectedTrashIds,             \* of the trash panel
  created, comparison,          \* per message: its time; whether compare made it
  gone                          \* messages deleted for good

storeVars == <<messages, trash, isDeleted, selectedIds, selectionMode, selectedTrashIds,
               created, comparison, gone>>
selection == <<selectedIds, selectionMode>>
added == <<created, comparison>>

Ids == 1..Len(created)
NoneLeft == selectedIds' = {} /\ selectionMode' = "none"

(* Array.prototype.filter.                                                 *)
In(s, ids) ==
  LET kept[n \in 0..Len(s)] ==
        IF n = 0 THEN << >>
        ELSE IF s[n] \in ids THEN Append(kept[n - 1], s[n]) ELSE kept[n - 1]
  IN kept[Len(s)]
Without(s, ids) == In(s, ToSet(s) \ ids)

(* Array.prototype.sort is stable.                                         *)
Insert(s, m) ==
  In(s, {n \in ToSet(s) : created[n] <= created[m]}) \o <<m>>
    \o In(s, {n \in ToSet(s) : created[n] > created[m]})
Unsorted(s) == s   \* mutant
ByCreation(s) ==
  LET sorted[n \in 0..Len(s)] == IF n = 0 THEN << >> ELSE Insert(sorted[n - 1], s[n])
  IN sorted[Len(s)]

InitStore ==
  /\ messages = << >> /\ trash = << >> /\ isDeleted = {}
  /\ selectedIds = {} /\ selectionMode = "none" /\ selectedTrashIds = {}
  /\ created = << >> /\ comparison = << >> /\ gone = {}

-----------------------------------------------------------------------------
(* c: the message is a comparison.  Date.now does not go back.             *)
Latest == IF created = << >> THEN 0 ELSE Last(created)
AddMessage(c) ==
  /\ Len(created) < MaxMessages
  /\ messages' = Append(messages, Len(created) + 1)
  /\ \E now \in Latest..MaxTime : created' = Append(created, now)
  /\ comparison' = Append(comparison, c)
  /\ UNCHANGED <<trash, isDeleted, selection, selectedTrashIds, gone>>

(* ResultFlow: a click on a message.                                       *)
Mode(ids) ==
  IF ids = {} THEN "none"
  ELSE IF Cardinality(ids) = 1 THEN "single"
  ELSE IF Cardinality(ids) = Len(messages) THEN "all"
  ELSE "multi"
ToggleSelection == \E m \in ToSet(messages) :
  /\ selectedIds' = IF m \in selectedIds THEN selectedIds \ {m} ELSE selectedIds \cup {m}
  /\ selectionMode' = Mode(selectedIds')
  /\ UNCHANGED <<messages, trash, isDeleted, selectedTrashIds, added, gone>>

(* MessageToolbar: shown while there are messages.                         *)
SelectAllOrNone ==
  /\ messages # << >>
  /\ IF selectionMode = "all" THEN NoneLeft
     ELSE selectedIds' = ToSet(messages) /\ selectionMode' = "all"
  /\ UNCHANGED <<messages, trash, isDeleted, selectedTrashIds, added, gone>>

StaysSelected == UNCHANGED selection   \* mutant
AfterDelete == NoneLeft
DeleteSelected ==
  /\ messages # << >> /\ selectedIds # {}
  /\ messages' = Without(messages, selectedIds)
  /\ trash' = trash \o In(messages, selectedIds)
  /\ isDeleted' = isDeleted \cup (ToSet(messages) \cap selectedIds)
  /\ AfterDelete
  /\ UNCHANGED <<selectedTrashIds, added, gone>>

(* restoreMessages, from the panel or by trash restore <id>.               *)
KeptInTrash(ids) == trash   \* mutant
LeftInTrash(ids) == Without(trash, ids)
RestoreMessages(ids) ==
  /\ messages' = ByCreation(messages \o In(trash, ids))
  /\ trash' = LeftInTrash(ids)
  /\ isDeleted' = isDeleted \ (ToSet(trash) \cap ids)
  /\ UNCHANGED <<selection, added, gone>>
RestoreSelected ==
  /\ trash # << >> /\ selectedTrashIds # {}
  /\ RestoreMessages(selectedTrashIds) /\ selectedTrashIds' = {}
TrashRestore == \E m \in Ids : RestoreMessages({m}) /\ UNCHANGED selectedTrashIds

ToggleTrash == \E m \in ToSet(trash) :
  /\ selectedTrashIds' = IF m \in selectedTrashIds THEN selectedTrashIds \ {m}
                         ELSE selectedTrashIds \cup {m}
  /\ UNCHANGED <<messages, trash, isDeleted, selection, added, gone>>

PermanentlyDelete ==
  /\ trash # << >> /\ selectedTrashIds # {}
  /\ trash' = Without(trash, selectedTrashIds)
  /\ gone' = gone \cup (ToSet(trash) \cap selectedTrashIds)
  /\ selectedTrashIds' = {}
  /\ UNCHANGED <<messages, isDeleted, selection, added>>

(* The panel's button and trash clear.                                     *)
ClearTrash ==
  /\ trash' = << >> /\ gone' = gone \cup ToSet(trash)
  /\ UNCHANGED <<messages, isDeleted, selection, selectedTrashIds, added>>

(* compare clear.                                                          *)
CompareClear ==
  /\ LET old == {m \in ToSet(messages) : comparison[m]} IN
       messages' = Without(messages, old) /\ gone' = gone \cup old
  /\ UNCHANGED <<trash, isDeleted, selection, selectedTrashIds, added>>

(* What is done to messages once they are there.                           *)
Arrange ==
  \/ ToggleSelection \/ SelectAllOrNone \/ DeleteSelected
  \/ RestoreSelected \/ TrashRestore \/ ToggleTrash \/ PermanentlyDelete \/ ClearTrash
  \/ CompareClear

-----------------------------------------------------------------------------
(* Properties.                                                             *)
StoreTypeOK ==
  /\ messages \in Seq(Ids) /\ trash \in Seq(Ids)
  /\ isDeleted \subseteq Ids /\ gone \subseteq Ids
  /\ selectedIds \subseteq Ids /\ selectedTrashIds \subseteq Ids
  /\ selectionMode \in {"none", "single", "multi", "all"}
  /\ created \in Seq(0..MaxTime) /\ comparison \in [Ids -> BOOLEAN]

(* Every message is in exactly one place, once: shown, in the trash, or    *)
(* deleted for good, whatever stale selections the panel still holds.      *)
InOnePlace ==
  /\ IsInjective(messages) /\ IsInjective(trash)
  /\ ToSet(messages) \cap ToSet(trash) = {}
  /\ gone \cap (ToSet(messages) \cup ToSet(trash)) = {}
  /\ ToSet(messages) \cup ToSet(trash) \cup gone = Ids

(* Messages are kept in the order they came, restored ones included.       *)
Chronological ==
  \A i, j \in 1..Len(messages) :
    i < j => created[messages[i]] <= created[messages[j]]

(* Only what compare clear removed can be selected without being there,    *)
(* and something is selected exactly when the toolbar says so.             *)
SelectionFollows ==
  /\ selectedIds \ ToSet(messages) \subseteq {m \in gone : comparison[m]}
  /\ selectionMode = "none" <=> selectedIds = {}

=============================================================================
