---------------------------- MODULE CommandLine ----------------------------
(***************************************************************************)
(* components/CommandLine.tsx and stores/commandStore.ts: the input line,  *)
(* its completion menu, the ghost text, the history, and the commands that *)
(* are under way after Enter.                                              *)
(*                                                                         *)
(* A key is handled with the caret the input has, and the input and the    *)
(* store agree on it; selections of more than a caret are left out.        *)
(***************************************************************************)
EXTENDS Autocomplete

CONSTANTS
  Letters,       \* the letters that are typed
  AllColumns,    \* the columns of the dataset, in the order of their names
  Commands,      \* the commands the application may accept
  MinCorrected,  \* letters a word has that is corrected (3 in the code)
  MaxLetters,    \* bound: as many letters are typed, and a name may add one
  MaxMarks,      \* bound: a text with as many marks gets no more of them
  MaxHistory,    \* bound: commands that are kept (100 in the code)
  MaxRunning     \* bound: commands under way at once
ASSUME BoundsAreNumbers ==
  /\ MinCorrected \in Nat /\ MaxLetters \in Nat /\ MaxMarks \in Nat
  /\ MaxHistory \in Nat \ {0} /\ MaxRunning \in Nat

(* Names are words.  The grammar's are; a column whose name holds a space, *)
(* a comma or a parenthesis cannot be written in a command at all.         *)
Texts == Seq(Letters \cup Marks)
Columns == [name : Seq(Letters), continuous : BOOLEAN]
OptionNodes == [name : Seq(Letters), required : BOOLEAN, values : Seq(Seq(Letters))]
ASSUME NamesAreWords ==
  /\ Letters \cap Marks = {}
  /\ CommandList \in Seq(Seq(Letters))
  /\ \A verb \in ToSet(CommandList) : Grammar[verb].options \in Seq(OptionNodes)
  /\ AllColumns \in Seq(Columns)

VARIABLES
  input, caret,
  columns,       \* of the active dataset
  completions, selected, show,
  ghost,         \* << >> for none
  correction,    \* << >> for none
  history, historyIdx,
  running        \* commands under way, in the order they were submitted
menu == <<completions, selected, show, ghost, correction>>
text == <<input, caret>>
past == <<history, historyIdx>>
vars == <<text, columns, menu, past, running>>

Init ==
  /\ input = << >> /\ caret = 0 /\ columns = << >>
  /\ completions = << >> /\ selected = 0 /\ show = FALSE
  /\ ghost = << >> /\ correction = << >>
  /\ history = << >> /\ historyIdx = -1
  /\ running = << >>

-----------------------------------------------------------------------------
(* isRecognizedToken: whether the word before the caret is a name.         *)
TokenStart(value, pos) == LastIndexOf(Before(value, pos), Marks) + 1
ColumnNames == ToSet(NamesOf(columns))
isRecognizedToken(value, pos) ==
  LET token == After(Before(value, pos), TokenStart(value, pos) - 1)
      context == getContext(value, pos)
  IN \/ token = << >>
     \/ context.kind = "verb" /\ token \in ToSet(CommandList)
     \/ context.kind \in {"depvar", "indepvar", "option_value"} /\ token \in ColumnNames
     \/ context.kind = "option_value" /\ token \in ToSet(ValuesOf(context))
     \/ context.kind = "indepvar" /\ token \in Grammar[context.verb].choices
     \/ context.kind = "option" /\ token \in ToSet(NamesOf(Options(context)))

(* updateCompletions: what the menu, the ghost text and the correction say *)
(* of a text.  A word that continues to nothing is corrected; after one    *)
(* that is no name nothing is said.                                        *)
Trimmed(value, pos) == Max({0} \cup {i \in 1..pos : value[i] # Space})
AfterUnknown(value, pos) ==
  /\ pos > 1 /\ value[pos] = Space
  /\ LET end == Trimmed(value, pos) IN end > 0 /\ ~isRecognizedToken(value, end)
Nothing == [items |-> << >>, ghost |-> << >>, correction |-> << >>]
Suggestions(value, pos) ==
  LET unused == Unused(columns, value, pos)
      context == getContext(value, pos)
      partial == getPartial(value, pos)
      offered == getCompletions(context, unused, partial)
      near == getCorrections(partial, unused)
      corrects == /\ offered = << >> /\ near # << >> /\ Len(partial) >= MinCorrected
                  /\ context.kind \in {"depvar", "indepvar", "option_value"}
  IN IF AfterUnknown(value, pos) THEN Nothing
     ELSE [items |-> IF corrects THEN near ELSE offered,
           ghost |-> getGhostText(offered, partial),
           correction |-> IF corrects THEN near[1] ELSE << >>]

(* setInput with updateCompletions.                                        *)
Edit(value, pos) ==
  /\ input' = value /\ caret' = pos
  /\ \E say \in {Suggestions(value, pos)} :
       /\ completions' = say.items /\ selected' = 0 /\ show' = (say.items # << >>)
       /\ ghost' = say.ghost /\ correction' = say.correction

-----------------------------------------------------------------------------
(* applyManualEdit and handleChange.                                       *)
Count(value, set) == Cardinality({i \in DOMAIN value : value[i] \in set})
Type(c) ==
  /\ c \in Marks => Count(input, Marks) < MaxMarks
  /\ c \in Letters => Count(input, Letters) < MaxLetters
  /\ Edit(Before(input, caret) \o <<c>> \o After(input, caret), caret + 1)
  /\ UNCHANGED <<columns, past, running>>
Backspace ==
  /\ IF caret > 0 THEN Edit(Before(input, caret - 1) \o After(input, caret), caret - 1)
     ELSE Edit(input, caret)
  /\ UNCHANGED <<columns, past, running>>
Delete ==
  /\ Edit(Before(input, caret) \o After(input, caret + 1), caret)
  /\ UNCHANGED <<columns, past, running>>

(* syncCaretFromDom, after a key, a click or an arrow: the menu stays what *)
(* it was and a correction is forgotten.                                   *)
MoveCaret ==
  /\ \E pos \in 0..Len(input) : caret' = pos
  /\ correction' = << >>
  /\ UNCHANGED <<input, columns, completions, selected, show, ghost, past, running>>

(* The keys of the menu.                                                   *)
Select ==
  /\ show
  /\ \E step \in {1, -1} : selected' = (selected + step) % Len(completions)
  /\ UNCHANGED <<text, columns, completions, show, ghost, correction, past, running>>

(* hideCompletions.  The items of a hidden menu, which nothing reads       *)
(* before the next ones, are forgotten.                                    *)
HideKeepingHint ==   \* mutant
  show' = FALSE /\ completions' = << >> /\ selected' = 0 /\ UNCHANGED correction
Hide == show' = FALSE /\ completions' = << >> /\ selected' = 0 /\ correction' = << >>
Escape ==
  /\ show /\ Hide
  /\ UNCHANGED <<text, columns, ghost, past, running>>

(* onBlur, 200 ms later.                                                   *)
Blurred ==
  /\ Hide
  /\ UNCHANGED <<text, columns, ghost, past, running>>

(* acceptCompletion and applyCompletion: the word before the caret becomes *)
(* the item.                                                               *)
PartialStartNoParen(value, pos) == LastIndexOf(Before(value, pos), {Space, Comma}) + 1   \* mutant
PartialStart(value, pos) == LastIndexOf(Before(value, pos), {Space, Comma, Paren}) + 1
Apply(item) ==
  LET start == PartialStart(input, caret)
  IN /\ input' = Before(input, start - 1) \o item \o After(input, caret)
     /\ Count(input', Letters) <= MaxLetters + 1
     /\ caret' = start - 1 + Len(item)
     /\ Hide
     /\ ghost' = << >>
     /\ UNCHANGED <<columns, past, running>>
Accept == show /\ Apply(completions[selected + 1])
ClickItem == show /\ \E i \in DOMAIN completions : Apply(completions[i])

-----------------------------------------------------------------------------
(* Tab without a menu: the ghost text goes to the end of the line.         *)
AcceptGhost ==
  /\ ~show /\ ghost # << >> /\ Count(input \o ghost, Letters) <= MaxLetters + 1
  /\ Edit(input \o ghost, Len(input) + Len(ghost))
  /\ UNCHANGED <<columns, past, running>>

(* The arrows without a menu go through the history.                       *)
Recall(idx, command) ==
  /\ historyIdx' = idx
  /\ Edit(command, Len(command))
  /\ UNCHANGED <<columns, history, running>>
HistoryUp ==
  /\ ~show /\ historyIdx < Len(history) - 1
  /\ Recall(historyIdx + 1, history[historyIdx + 2])
HistoryDown ==
  /\ ~show
  /\ IF historyIdx <= 0 THEN Recall(-1, << >>) ELSE Recall(historyIdx - 1, history[historyIdx])

(* Enter without a menu: what onExecute answers at once, or later.  A      *)
(* refused or failed command leaves everything as it is.                   *)
Trim(value) ==
  LET written == {i \in DOMAIN value : value[i] # Space}
  IN IF written = {} THEN << >> ELSE SubSeq(value, Min(written), Max(written))
ClearInputKeepsMenu ==   \* mutant
  /\ input' = << >> /\ caret' = 0 /\ ghost' = << >>
  /\ UNCHANGED <<completions, selected, show, correction>>
clearInput ==
  /\ input' = << >> /\ caret' = 0 /\ ghost' = << >>
  /\ completions' = << >> /\ selected' = 0 /\ show' = FALSE /\ correction' = << >>
finishSubmit(command) ==
  /\ history' = Before(<<command>> \o history, Min({MaxHistory, Len(history) + 1}))
  /\ historyIdx' = -1
  /\ clearInput
  /\ UNCHANGED columns
Enter ==
  /\ ~show /\ Trim(input) \in Commands
  /\ finishSubmit(Trim(input)) /\ UNCHANGED running
EnterAndWait ==
  /\ ~show /\ Trim(input) \in Commands /\ Len(running) < MaxRunning
  /\ running' = Append(running, Trim(input))
  /\ UNCHANGED <<text, columns, menu, past>>
Finish ==
  \E i \in DOMAIN running :
    /\ running' = RemoveAt(running, i)
    /\ \/ finishSubmit(running[i])
       \/ UNCHANGED <<text, columns, menu, past>>

(* A dataset is loaded, changed or closed.                                 *)
NewColumns ==
  /\ columns' \in {<< >>, AllColumns}
  /\ UNCHANGED <<text, menu, past, running>>

Next ==
  \/ \E c \in Letters \cup Marks : Type(c)
  \/ Backspace \/ Delete \/ MoveCaret
  \/ Select \/ Escape \/ Blurred \/ Accept \/ ClickItem
  \/ AcceptGhost \/ HistoryUp \/ HistoryDown
  \/ Enter \/ EnterAndWait \/ Finish \/ NewColumns
Spec == Init /\ [][Next]_vars

-----------------------------------------------------------------------------
(* The values variables take.  An item that is selected exists.            *)
TypeOK ==
  /\ input \in Texts /\ caret \in 0..Len(input)
  /\ columns \in {<< >>, AllColumns}
  /\ completions \in Seq(Seq(Letters)) /\ show \in BOOLEAN
  /\ selected \in Nat /\ (show => selected < Len(completions))
  /\ ghost \in Seq(Letters) /\ correction \in Seq(Letters)
  /\ history \in Seq(Texts) /\ historyIdx \in -1..(Len(history) - 1)
  /\ running \in Seq(Texts)

(* A word is called corrected only while the menu offers the correction.   *)
CorrectionIsShown == correction # << >> => show /\ completions # << >> /\ correction = completions[1]

(* Whoever changes the text, a key, the history or a command that ends     *)
(* late, no menu stays open that was made for another text.                *)
NoMenuForOldText ==
  [][input' # input /\ show' => completions' = Suggestions(input', caret').items]_vars

(* A completion that is up to date makes the word before the caret a name  *)
(* the line knows: three functions agree on where a word starts.           *)
AcceptedIsRecognized ==
  [][(Accept \/ ClickItem) /\ completions = Suggestions(input, caret).items
       => isRecognizedToken(input', caret')]_vars

=============================================================================
