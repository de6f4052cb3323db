-------------------------- MODULE CommandLineProofs --------------------------
(***************************************************************************)
(* Theorems about CommandLine for every grammar, any columns, letters and  *)
(* commands, and every bound: the menu and its hint fit the text, and what *)
(* is accepted from an up-to-date menu is a name the line knows.           *)
(***************************************************************************)
EXTENDS CommandLine, FiniteSetTheorems, SequenceTheorems, WellFoundedInduction, TLAPS

-----------------------------------------------------------------------------
(* The menu and its hint.                                                  *)

(* Every step edits the text with a fresh menu, hides the menu, forgets    *)
(* the hint, or leaves the menu's items and the hint alone.                *)
Edited == \E value, pos : Edit(value, pos)
Hidden == show' = FALSE /\ correction' = << >>
Moved == correction' = << >> /\ UNCHANGED <<input, completions, show>>
Kept == UNCHANGED <<input, completions, show, correction>>

LEMMA Steps == [Next]_vars => Edited \/ Hidden \/ Moved \/ Kept
  <1> SUFFICES ASSUME [Next]_vars PROVE Edited \/ Hidden \/ Moved \/ Kept
    OBVIOUS
  <1>1. ASSUME NEW c \in Letters \cup Marks, Type(c) PROVE Edited
    BY <1>1 DEF Type, Edited
  <1>2. CASE Backspace \/ Delete
    BY <1>2 DEF Backspace, Delete, Edited
  <1>3. CASE AcceptGhost
    BY <1>3 DEF AcceptGhost, Edited
  <1>4. CASE HistoryUp \/ HistoryDown
    BY <1>4 DEF HistoryUp, HistoryDown, Recall, Edited
  <1>5. CASE Escape \/ Blurred \/ Accept \/ ClickItem
    BY <1>5 DEF Escape, Blurred, Accept, ClickItem, Apply, Hide, Hidden
  <1>6. CASE MoveCaret
    BY <1>6 DEF MoveCaret, Moved
  <1>7. CASE Select \/ EnterAndWait \/ NewColumns
    BY <1>7 DEF Select, EnterAndWait, NewColumns, Kept, text, menu
  <1>8. CASE Enter
    BY <1>8 DEF Enter, finishSubmit, clearInput, Hidden
  <1>9. CASE Finish
    <2>1. PICK i \in DOMAIN running :
            finishSubmit(running[i]) \/ UNCHANGED <<text, columns, menu, past>>
      BY <1>9 DEF Finish
    <2>2. QED
      BY <2>1 DEF finishSubmit, clearInput, Hidden, Kept, text, menu
  <1>10. CASE UNCHANGED vars
    BY <1>10 DEF vars, text, menu, Kept
  <1>11. QED
    BY <1>1, <1>2, <1>3, <1>4, <1>5, <1>6, <1>7, <1>8, <1>9, <1>10 DEF Next

(* The hint that a word was corrected is shown only while the menu offers  *)
(* the correction, whatever is typed, recalled, hidden or finished late.   *)
THEOREM HintFollowsMenu == Spec => []CorrectionIsShown
  <1>1. Init => CorrectionIsShown
    BY DEF Init, CorrectionIsShown
  <1>2. CorrectionIsShown /\ [Next]_vars => CorrectionIsShown'
    <2> SUFFICES ASSUME CorrectionIsShown, [Next]_vars PROVE CorrectionIsShown'
      OBVIOUS
    <2>1. ASSUME NEW value, NEW pos, Edit(value, pos) PROVE CorrectionIsShown'
      <3> DEFINE items == Suggestions(value, pos).items
      <3>1. completions' = items /\ show' = (items # << >>)
        BY <2>1 DEF Edit
      <3>2. correction' # << >> => items # << >> /\ correction' = items[1]
        BY <2>1 DEF Edit, Suggestions, Nothing
      <3>3. QED
        BY <3>1, <3>2 DEF CorrectionIsShown
    <2>2. CASE Hidden \/ Moved
      BY <2>2 DEF Hidden, Moved, CorrectionIsShown
    <2>3. CASE Kept
      BY <2>3 DEF Kept, CorrectionIsShown
    <2>4. QED
      BY <2>1, <2>2, <2>3, Steps DEF Edited
  <1>3. QED
    BY <1>1, <1>2, PTL DEF Spec

(* Whoever changes the text, no menu made for another text stays open.     *)
THEOREM MenuFollowsText == Spec => NoMenuForOldText
  <1>1. [Next]_vars =>
          [input' # input /\ show' => completions' = Suggestions(input', caret').items]_vars
    <2> SUFFICES ASSUME [Next]_vars, input' # input, show'
                 PROVE completions' = Suggestions(input', caret').items
      OBVIOUS
    <2>1. Edited
      BY Steps DEF Hidden, Moved, Kept
    <2>2. PICK value, pos : Edit(value, pos)
      BY <2>1 DEF Edited
    <2>3. QED
      BY <2>2 DEF Edit
  <1>2. QED
    BY <1>1, PTL DEF Spec, NoMenuForOldText

-----------------------------------------------------------------------------
(* Induction and recursion, stated of sets and functions.                  *)

LEMMA LeastNat ==
  ASSUME NEW T \in SUBSET Nat, T # {}
  PROVE  \E n \in T : \A m \in T : n <= m
  <1>1. PICK n \in T : \A m \in T : <<m, n>> \notin OpToRel(<, Nat)
    BY NatLessThanWellFounded, WFMin
  <1>2. \A m \in T : ~(m < n)
    BY <1>1 DEF OpToRel
  <1>3. QED
    BY <1>2

(* What holds of 0, and of n + 1 when of n, holds up to N.                 *)
LEMMA UpTo ==
  ASSUME NEW N \in Nat, NEW T, 0 \in T, \A n \in 0..(N - 1) : n \in T => n + 1 \in T
  PROVE  \A n \in 0..N : n \in T
  <1> DEFINE Out == {n \in 0..N : n \notin T}
  <1>1. SUFFICES ASSUME Out # {} PROVE FALSE
    OBVIOUS
  <1>2. Out \in SUBSET Nat
    OBVIOUS
  <1>3. PICK n \in Out : \A m \in Out : n <= m
    <2> HIDE DEF Out
    <2>1. QED
      BY <1>1, <1>2, LeastNat
  <1>4. n # 0 /\ n - 1 \in 0..(N - 1) /\ n - 1 \notin Out
    BY <1>3
  <1>5. QED
    BY <1>3, <1>4

(* A value and a step for each index make a function.                      *)
Iterates(f, n, base, step) == f[0] = base /\ \A k \in 1..n : f[k] = step[k][f[k - 1]]
LEMMA Recursion ==
  ASSUME NEW N \in Nat, NEW T, NEW base \in T, NEW step \in [1..N -> [T -> T]]
  PROVE  \E f \in [0..N -> T] : Iterates(f, N, base, step)
  <1> DEFINE Fits(f, n) == Iterates(f, n, base, step)
             Good == {n \in 0..N : \E f \in [0..n -> T] : Fits(f, n)}
  <1>1. 0 \in Good
    <2>1. [k \in 0..0 |-> base] \in [0..0 -> T] /\ Fits([k \in 0..0 |-> base], 0)
      BY DEF Iterates
    <2>2. \E f \in [0..0 -> T] : Fits(f, 0)
      <3> HIDE DEF Fits
      <3>1. QED
        BY <2>1
    <2>3. QED
      BY <2>2
  <1>2. ASSUME NEW n \in 0..(N - 1), n \in Good PROVE n + 1 \in Good
    <2>1. PICK f \in [0..n -> T] : Fits(f, n)
      BY <1>2
    <2> DEFINE g == [k \in 0..(n + 1) |-> IF k <= n THEN f[k] ELSE step[n + 1][f[n]]]
    <2>2. n \in 0..n /\ n + 1 \in 1..N /\ n + 1 \in 0..N
      OBVIOUS
    <2>3. step[n + 1][f[n]] \in T
      BY <2>2
    <2>4. g \in [0..(n + 1) -> T]
      BY <2>3
    <2>5. g[0] = base
      BY <2>1 DEF Iterates
    <2>6. ASSUME NEW k \in 1..(n + 1) PROVE g[k] = step[k][g[k - 1]]
      <3>1. CASE k <= n
        BY <3>1, <2>1 DEF Iterates
      <3>2. CASE k = n + 1
        BY <3>2
      <3>3. QED
        BY <3>1, <3>2
    <2>7. Fits(g, n + 1)
      BY <2>5, <2>6 DEF Iterates
    <2>8. \E h \in [0..(n + 1) -> T] : Fits(h, n + 1)
      <3> HIDE DEF Fits, g
      <3>1. QED
        BY <2>4, <2>7
    <2>9. QED
      BY <2>8, <2>2
  <1>3. N \in Good
    <2> HIDE DEF Good
    <2>1. \A n \in 0..(N - 1) : n \in Good => n + 1 \in Good
      BY <1>2
    <2>2. \A n \in 0..N : n \in Good
      BY <1>1, <2>1, UpTo
    <2>3. QED
      BY <2>2
  <1>4. QED
    BY <1>3

-----------------------------------------------------------------------------
(* Array.prototype.filter keeps items of what it filters.                  *)

LEMMA AmongThem ==
  ASSUME NEW S, NEW s \in Seq(S), NEW wanted
  PROVE  Among(s, wanted) \in Seq(S)
  <1> DEFINE Body(f) == [n \in 0..Len(s) |->
                          IF n = 0 THEN << >>
                          ELSE IF s[n] \in wanted THEN Append(f[n - 1], s[n]) ELSE f[n - 1]]
             kept == CHOOSE f : f = Body(f)
             step == [n \in 1..Len(s) |-> [t \in Seq(S) |->
                        IF s[n] \in wanted THEN Append(t, s[n]) ELSE t]]
  <1>1. Len(s) \in Nat /\ << >> \in Seq(S) /\ \A n \in 1..Len(s) : s[n] \in S
    OBVIOUS
  <1>2. step \in [1..Len(s) -> [Seq(S) -> Seq(S)]]
    BY <1>1
  <1>3. PICK f \in [0..Len(s) -> Seq(S)] : Iterates(f, Len(s), << >>, step)
    <2> HIDE DEF step
    <2>1. QED
      BY <1>1, <1>2, Recursion
  <1>4. \A n \in 1..Len(s) :
          f[n] = IF s[n] \in wanted THEN Append(f[n - 1], s[n]) ELSE f[n - 1]
    <2>1. ASSUME NEW n \in 1..Len(s)
          PROVE  f[n] = IF s[n] \in wanted THEN Append(f[n - 1], s[n]) ELSE f[n - 1]
      <3>1. f[n - 1] \in Seq(S)
        BY <1>1
      <3>2. QED
        BY <3>1, <1>3 DEF Iterates
    <2>2. QED
      BY <2>1
  <1>5. f = Body(f)
    <2>1. ASSUME NEW n \in 0..Len(s) PROVE f[n] = Body(f)[n]
      <3>1. CASE n = 0
        BY <3>1, <1>1, <1>3 DEF Iterates
      <3>2. CASE n \in 1..Len(s)
        <4>1. n # 0 /\ n \in 0..Len(s)
          BY <3>2, <1>1
        <4>2. Body(f)[n] = IF s[n] \in wanted THEN Append(f[n - 1], s[n]) ELSE f[n - 1]
          BY <4>1
        <4> HIDE DEF Body
        <4>3. QED
          BY <4>2, <3>2, <1>4
      <3>3. QED
        BY <3>1, <3>2, <1>1
    <2>2. f \in [0..Len(s) -> Seq(S)] /\ Body(f) = [n \in 0..Len(s) |-> Body(f)[n]]
      OBVIOUS
    <2> HIDE DEF Body
    <2>3. f = [n \in 0..Len(s) |-> f[n]]
      OBVIOUS
    <2>4. QED
      BY <2>1, <2>2, <2>3
  <1>6. kept = Body(kept)
    <2> HIDE DEF Body
    <2>1. QED
      BY <1>5
  <1>7. Among(s, wanted) = kept[Len(s)]
    BY DEF Among
  <1> HIDE DEF kept
  <1>8. kept[0] \in Seq(S)
    <2>1. kept[0] = << >>
      BY <1>1, <1>6
    <2>2. QED
      BY <1>1, <2>1
  <1>9. ASSUME NEW n \in 0..(Len(s) - 1), kept[n] \in Seq(S) PROVE kept[n + 1] \in Seq(S)
    <2>1. n + 1 \in 0..Len(s) /\ n + 1 # 0 /\ (n + 1) - 1 = n /\ s[n + 1] \in S
      BY <1>1
    <2>2. kept[n + 1] = IF s[n + 1] \in wanted THEN Append(kept[n], s[n + 1]) ELSE kept[n]
      BY <1>6, <2>1
    <2> HIDE DEF Body
    <2>3. QED
      BY <1>9, <2>1, <2>2
  <1> DEFINE Typed == {n \in 0..Len(s) : kept[n] \in Seq(S)}
  <1>10. 0 \in Typed /\ \A n \in 0..(Len(s) - 1) : n \in Typed => n + 1 \in Typed
    BY <1>1, <1>8, <1>9
  <1>11. \A n \in 0..Len(s) : n \in Typed
    <2> HIDE DEF Typed
    <2>1. QED
      BY <1>1, <1>10, UpTo
  <1>12. QED
    BY <1>1, <1>7, <1>11

-----------------------------------------------------------------------------
(* Least and greatest numbers.                                             *)

LEMMA LeastOf ==
  ASSUME NEW T \in SUBSET Nat, T # {}
  PROVE  Min(T) \in T /\ \A t \in T : Min(T) <= t
  <1>1. \E n \in T : \A t \in T : n =< t
    BY LeastNat
  <1>2. QED
    BY <1>1 DEF Min

LEMMA MinIs ==
  ASSUME NEW T \in SUBSET Nat, NEW n \in T, \A t \in T : n <= t
  PROVE  Min(T) = n
  <1>1. Min(T) \in T /\ Min(T) <= n
    BY LeastOf
  <1>2. n <= Min(T) /\ Min(T) \in Nat
    BY <1>1
  <1>3. QED
    BY <1>1, <1>2

LEMMA GreatestOf ==
  ASSUME NEW N \in Nat, NEW T \in SUBSET (0..N), T # {}
  PROVE  Max(T) \in T /\ \A t \in T : t <= Max(T)
  <1> DEFINE Left == {N - t : t \in T}
  <1>1. Left \in SUBSET Nat /\ Left # {}
    <2>1. \A t \in T : N - t \in Nat
      OBVIOUS
    <2>2. PICK t \in T : TRUE
      OBVIOUS
    <2>3. N - t \in Left
      OBVIOUS
    <2>4. QED
      BY <2>1, <2>3
  <1>2. PICK m \in Left : \A l \in Left : m <= l
    <2> HIDE DEF Left
    <2>1. QED
      BY <1>1, LeastNat
  <1>3. PICK x \in T : m = N - x
    BY <1>2
  <1>4. \A t \in T : x >= t
    BY <1>2, <1>3
  <1>5. QED
    BY <1>4 DEF Max

LEMMA MaxIs ==
  ASSUME NEW N \in Nat, NEW T \in SUBSET (0..N), NEW n \in T, \A t \in T : t <= n
  PROVE  Max(T) = n
  <1>1. Max(T) \in T /\ n <= Max(T)
    BY GreatestOf
  <1>2. Max(T) <= n /\ Max(T) \in 0..N /\ n \in 0..N
    BY <1>1
  <1>3. QED
    BY <1>1, <1>2

-----------------------------------------------------------------------------
(* Parts of texts.                                                         *)

LEMMA PartOf ==
  ASSUME NEW S, NEW s \in Seq(S), NEW i \in Nat, NEW j \in 0..Len(s), i >= 1
  PROVE  /\ SubSeq(s, i, j) \in Seq(S)
         /\ Len(SubSeq(s, i, j)) = IF i <= j THEN j - i + 1 ELSE 0
         /\ \A k \in 1..Len(SubSeq(s, i, j)) : SubSeq(s, i, j)[k] = s[i + k - 1]
  OBVIOUS

(* Two texts that agree from i to j have the same part there.              *)
LEMMA SamePart ==
  ASSUME NEW S, NEW s \in Seq(S), NEW t \in Seq(S), NEW i \in Nat, NEW j \in Nat, i >= 1,
         j <= Len(s), j <= Len(t), \A k \in i..j : s[k] = t[k]
  PROVE  SubSeq(s, i, j) = SubSeq(t, i, j)
  <1>1. SubSeq(s, i, j) \in Seq(S) /\ SubSeq(t, i, j) \in Seq(S)
    BY PartOf
  <1>2. Len(SubSeq(s, i, j)) = Len(SubSeq(t, i, j))
    BY PartOf
  <1>3. ASSUME NEW k \in 1..Len(SubSeq(s, i, j)) PROVE SubSeq(s, i, j)[k] = SubSeq(t, i, j)[k]
    <2>1. SubSeq(s, i, j)[k] = s[i + k - 1] /\ SubSeq(t, i, j)[k] = t[i + k - 1]
      BY <1>2, PartOf
    <2>2. i + k - 1 \in i..j
      BY PartOf
    <2>3. QED
      BY <2>1, <2>2
  <1>4. QED
    BY <1>1, <1>2, <1>3, SeqEqual

LEMMA LastFacts ==
  ASSUME NEW S, NEW s \in Seq(S), NEW marks
  PROVE  LET last == LastIndexOf(s, marks)
         IN /\ last \in 0..Len(s)
            /\ last > 0 => s[last] \in marks
            /\ \A i \in (last + 1)..Len(s) : s[i] \notin marks
  <1> DEFINE at == {0} \cup {i \in DOMAIN s : s[i] \in marks}
  <1>1. Len(s) \in Nat /\ DOMAIN s = 1..Len(s)
    OBVIOUS
  <1>2. at \in SUBSET (0..Len(s)) /\ at # {}
    BY <1>1
  <1>3. Max(at) \in at /\ \A t \in at : t <= Max(at)
    <2> HIDE DEF at
    <2>1. QED
      BY <1>1, <1>2, GreatestOf
  <1>4. PICK m : m = Max(at)
    OBVIOUS
  <1>5. m \in at /\ \A t \in at : t <= m
    BY <1>3, <1>4
  <1>6. m \in 0..Len(s) /\ (m > 0 => s[m] \in marks)
    BY <1>1, <1>5
  <1>7. ASSUME NEW i \in (m + 1)..Len(s) PROVE s[i] \notin marks
    <2>1. i \in 1..Len(s) /\ ~(i <= m)
      BY <1>1, <1>6
    <2>2. QED
      BY <1>1, <1>5, <2>1
  <1>8. LastIndexOf(s, marks) = m
    BY <1>4 DEF LastIndexOf
  <1>9. QED
    BY <1>6, <1>7, <1>8

LEMMA LastIs ==
  ASSUME NEW S, NEW s \in Seq(S), NEW marks, NEW n \in 0..Len(s),
         n > 0 => s[n] \in marks, \A i \in (n + 1)..Len(s) : s[i] \notin marks
  PROVE  LastIndexOf(s, marks) = n
  <1>1. /\ LastIndexOf(s, marks) \in 0..Len(s)
        /\ LastIndexOf(s, marks) > 0 => s[LastIndexOf(s, marks)] \in marks
        /\ \A i \in (LastIndexOf(s, marks) + 1)..Len(s) : s[i] \notin marks
    BY LastFacts
  <1>2. QED
    BY <1>1

LEMMA FirstFacts ==
  ASSUME NEW S, NEW s \in Seq(S), NEW marks
  PROVE  LET first == FirstIndexOf(s, marks)
         IN /\ first \in 0..Len(s)
            /\ first > 0 => s[first] \in marks /\ \A i \in 1..(first - 1) : s[i] \notin marks
            /\ first = 0 => \A i \in 1..Len(s) : s[i] \notin marks
  <1> DEFINE at == {i \in DOMAIN s : s[i] \in marks}
  <1>1. Len(s) \in Nat /\ DOMAIN s = 1..Len(s)
    OBVIOUS
  <1>2. CASE at = {}
    BY <1>1, <1>2 DEF FirstIndexOf
  <1>3. CASE at # {}
    <2>1. at \in SUBSET Nat
      BY <1>1
    <2>2. Min(at) \in at /\ \A t \in at : Min(at) <= t
      <3> HIDE DEF at
      <3>1. QED
        BY <1>3, <2>1, LeastOf
    <2>3. FirstIndexOf(s, marks) = Min(at)
      BY <1>3 DEF FirstIndexOf
    <2>4. PICK m : m = Min(at)
      OBVIOUS
    <2>5. m \in at /\ \A t \in at : m <= t
      BY <2>2, <2>4
    <2>6. m \in 1..Len(s) /\ s[m] \in marks
      BY <1>1, <2>5
    <2>7. ASSUME NEW i \in 1..(m - 1) PROVE s[i] \notin marks
      <3>1. i \in 1..Len(s) /\ ~(m <= i)
        BY <1>1, <2>6
      <3>2. QED
        BY <1>1, <2>5, <3>1
    <2>8. FirstIndexOf(s, marks) = m
      BY <2>3, <2>4
    <2>9. QED
      BY <2>6, <2>7, <2>8
  <1>4. QED
    BY <1>2, <1>3

LEMMA FirstIs ==
  ASSUME NEW S, NEW s \in Seq(S), NEW marks, NEW n \in 1..Len(s),
         s[n] \in marks, \A i \in 1..(n - 1) : s[i] \notin marks
  PROVE  FirstIndexOf(s, marks) = n
  <1>1. /\ FirstIndexOf(s, marks) \in 0..Len(s)
        /\ FirstIndexOf(s, marks) > 0 =>
             s[FirstIndexOf(s, marks)] \in marks /\ \A i \in 1..(FirstIndexOf(s, marks) - 1) : s[i] \notin marks
        /\ FirstIndexOf(s, marks) = 0 => \A i \in 1..Len(s) : s[i] \notin marks
    BY FirstFacts
  <1>2. QED
    BY <1>1

-----------------------------------------------------------------------------
(* The first word of a text, from where it begins to where it ends.        *)

Begins(s, i) == i \in 1..Len(s) /\ s[i] # Space /\ \A k \in 1..(i - 1) : s[k] = Space
Ends(s, i, e) ==
  /\ e \in i..Len(s)
  /\ \A k \in i..e : s[k] # Space
  /\ e = Len(s) \/ s[e + 1] = Space

LEMMA Starting ==
  ASSUME NEW s \in Texts
  PROVE  /\ WordStarts(s) = {i \in 1..Len(s) : s[i] # Space /\ (i > 1 => s[i - 1] = Space)}
         /\ Len(s) \in Nat
  BY DEF WordStarts, Texts

LEMMA Beginning ==
  ASSUME NEW s \in Texts, NEW j \in 1..Len(s), s[j] # Space
  PROVE  \E i \in 1..j : Begins(s, i)
  <1> DEFINE Written == {i \in 1..Len(s) : s[i] # Space}
  <1>1. Len(s) \in Nat
    BY Starting
  <1>2. Written \in SUBSET Nat /\ j \in Written
    BY <1>1
  <1>3. PICK i \in Written : \A k \in Written : i <= k
    <2> HIDE DEF Written
    <2>1. QED
      BY <1>2, LeastNat
  <1>4. \A k \in 1..(i - 1) : s[k] = Space
    BY <1>1, <1>3
  <1>5. i <= j
    BY <1>2, <1>3
  <1>6. QED
    BY <1>3, <1>4, <1>5 DEF Begins

LEMMA FirstStart ==
  ASSUME NEW s \in Texts, NEW i, Begins(s, i)
  PROVE  i \in WordStarts(s) /\ Min(WordStarts(s)) = i
  <1>1. i \in WordStarts(s)
    BY Starting DEF Begins
  <1>2. WordStarts(s) \in SUBSET Nat
    BY Starting
  <1>3. \A t \in WordStarts(s) : i <= t
    BY Starting DEF Begins
  <1>4. QED
    BY <1>1, <1>2, <1>3, MinIs

LEMMA Ending ==
  ASSUME NEW s \in Texts, NEW i \in 1..Len(s), s[i] # Space
  PROVE  \E e : Ends(s, i, e) /\ WordFrom(s, i) = SubSeq(s, i, e)
  <1> DEFINE rest == SubSeq(s, i, Len(s))
             end == FirstIndexOf(rest, {Space})
  <1>1. Len(s) \in Nat /\ s \in Seq(Letters \cup Marks) /\ i \in Nat /\ i >= 1 /\ i <= Len(s)
    BY DEF Texts
  <1>2. /\ rest \in Seq(Letters \cup Marks) /\ Len(rest) = Len(s) - i + 1
        /\ \A k \in 1..Len(rest) : rest[k] = s[i + k - 1]
    BY <1>1, PartOf
  <1>3. After(s, i - 1) = rest
    BY <1>1 DEF After
  <1>4. /\ end \in 0..Len(rest)
        /\ end > 0 => rest[end] = Space /\ \A k \in 1..(end - 1) : rest[k] # Space
        /\ end = 0 => \A k \in 1..Len(rest) : rest[k] # Space
    <2> DEFINE S == Letters \cup Marks
    <2>1. rest \in Seq(S)
      BY <1>2
    <2> HIDE DEF rest, S
    <2>2. /\ end \in 0..Len(rest)
          /\ end > 0 => rest[end] \in {Space} /\ \A k \in 1..(end - 1) : rest[k] \notin {Space}
          /\ end = 0 => \A k \in 1..Len(rest) : rest[k] \notin {Space}
      BY <2>1, FirstFacts
    <2> HIDE DEF end
    <2>3. QED
      BY <2>2
  <1>5. WordFrom(s, i) = IF end = 0 THEN rest ELSE SubSeq(rest, 1, end - 1)
    BY <1>3 DEF WordFrom, Before
  <1> HIDE DEF rest, end
  <1>6. CASE end = 0
    <2>1. Ends(s, i, Len(s))
      <3>1. ASSUME NEW k \in i..Len(s) PROVE s[k] # Space
        <4>1. k - i + 1 \in 1..Len(rest) /\ i + (k - i + 1) - 1 = k
          BY <1>1, <1>2
        <4>2. rest[k - i + 1] = s[k]
          BY <1>2, <4>1
        <4>3. QED
          BY <1>4, <1>6, <4>1, <4>2
      <3>2. QED
        BY <1>1, <3>1 DEF Ends
    <2>2. QED
      BY <1>5, <1>6, <2>1 DEF rest
  <1>7. CASE end > 0
    <2>1. rest[1] # Space
      BY <1>1, <1>2
    <2>2. end > 1 /\ end # 0 /\ end <= Len(rest)
      BY <1>2, <1>4, <1>7, <2>1
    <2> DEFINE e == i + end - 2
    <2>3. e \in i..Len(s) /\ e < Len(s) /\ e - i + 1 = end - 1
      BY <1>1, <1>2, <1>4, <2>2
    <2>4. ASSUME NEW k \in i..e PROVE s[k] # Space
      <3>1. k - i + 1 \in 1..(end - 1) /\ k - i + 1 \in 1..Len(rest) /\ i + (k - i + 1) - 1 = k
        BY <1>1, <1>4, <2>2
      <3>2. rest[k - i + 1] = s[k]
        BY <1>2, <3>1
      <3>3. QED
        BY <1>4, <1>7, <3>1, <3>2
    <2>5. s[e + 1] = Space
      <3>1. end \in 1..Len(rest) /\ i + end - 1 = e + 1
        BY <1>1, <1>4, <2>2
      <3>2. QED
        BY <1>2, <1>4, <1>7, <3>1
    <2>6. Ends(s, i, e)
      BY <2>3, <2>4, <2>5 DEF Ends
    <2> HIDE DEF e
    <2>7. SubSeq(rest, 1, end - 1) = SubSeq(s, i, e)
      <3>1. end - 1 \in 0..Len(rest) /\ end - 1 \in Nat /\ e \in 0..Len(s) /\ i <= e
        BY <1>1, <1>4, <2>2, <2>3
      <3> DEFINE one == SubSeq(rest, 1, end - 1)
                 two == SubSeq(s, i, e)
      <3>2. /\ one \in Seq(Letters \cup Marks) /\ Len(one) = end - 1
            /\ \A k \in 1..Len(one) : one[k] = rest[k]
        BY <1>2, <2>2, <3>1, PartOf
      <3>3. /\ two \in Seq(Letters \cup Marks) /\ Len(two) = e - i + 1
            /\ \A k \in 1..Len(two) : two[k] = s[i + k - 1]
        BY <1>1, <3>1, PartOf
      <3>4. \A k \in 1..(end - 1) : rest[k] = s[i + k - 1]
        BY <1>2, <3>1
      <3> HIDE DEF one, two
      <3>5. Len(one) = Len(two)
        BY <2>3, <3>2, <3>3
      <3>6. \A k \in 1..Len(one) : one[k] = two[k]
        BY <3>2, <3>3, <3>4, <3>5
      <3>7. one = two
        BY <3>2, <3>3, <3>5, <3>6, SeqEqual
      <3>8. QED
        BY <3>7 DEF one, two
    <2>8. WordFrom(s, i) = SubSeq(s, i, e)
      BY <1>5, <2>2, <2>7
    <2>9. QED
      BY <2>6, <2>8
  <1>8. QED
    BY <1>4, <1>6, <1>7

LEMMA WordIs ==
  ASSUME NEW s \in Texts, NEW i, NEW e, Begins(s, i), Ends(s, i, e)
  PROVE  FirstWord(s) = SubSeq(s, i, e)
  <1>1. WordStarts(s) # {} /\ FirstWord(s) = WordFrom(s, i)
    BY FirstStart DEF FirstWord
  <1>2. i \in 1..Len(s) /\ s[i] # Space /\ Len(s) \in Nat
    BY Starting DEF Begins
  <1>3. PICK f : Ends(s, i, f) /\ WordFrom(s, i) = SubSeq(s, i, f)
    BY <1>2, Ending
  <1>4. e = f
    BY <1>2, <1>3 DEF Ends
  <1>5. QED
    BY <1>1, <1>3, <1>4

-----------------------------------------------------------------------------
(* Two texts that are the same up to the mark at s and go on with a word.  *)
(* Accepting a completion makes the second of the first.                   *)

AgreeTo(b, c, s) ==
  /\ b \in Texts /\ c \in Texts
  /\ s \in 0..Len(b) /\ s <= Len(c)
  /\ \A k \in 1..s : b[k] = c[k]
  /\ s > 0 => b[s] \in Marks
  /\ \A k \in (s + 1)..Len(b) : b[k] \notin Marks
  /\ \A k \in (s + 1)..Len(c) : c[k] \notin Marks
Completes(b, c, s) == AgreeTo(b, c, s) /\ s < Len(c)

LEMMA MarksAre ==
  /\ Space \in Marks /\ Comma \in Marks /\ Paren \in Marks
  /\ Space # Comma
  /\ \A x \in Letters : x \notin Marks
  <1>1. Space # Comma
    BY DEF Space, Comma
  <1>2. QED
    BY <1>1, NamesAreWords DEF Marks

LEMMA Lengths == \A s \in Texts : Len(s) \in Nat /\ s \in Seq(Letters \cup Marks)
  BY DEF Texts

(* The last mark is where they part.                                       *)
LEMMA PartAtMark ==
  ASSUME NEW b, NEW c, NEW s, AgreeTo(b, c, s)
  PROVE  LastIndexOf(b, Marks) = s /\ LastIndexOf(c, Marks) = s
  <1>1. b \in Seq(Letters \cup Marks) /\ c \in Seq(Letters \cup Marks) /\ s \in Nat
    BY Lengths DEF AgreeTo
  <1>2. LastIndexOf(b, Marks) = s
    BY <1>1, LastIs DEF AgreeTo
  <1>3. s \in 0..Len(c) /\ (s > 0 => c[s] \in Marks)
    BY <1>1 DEF AgreeTo
  <1>4. LastIndexOf(c, Marks) = s
    BY <1>1, <1>3, LastIs DEF AgreeTo
  <1>5. QED
    BY <1>2, <1>4

(* So is the first comma, if there is one.                                 *)
LEMMA SameComma ==
  ASSUME NEW b, NEW c, NEW s, AgreeTo(b, c, s)
  PROVE  /\ FirstIndexOf(b, {Comma}) = FirstIndexOf(c, {Comma})
         /\ FirstIndexOf(b, {Comma}) \in 0..s
         /\ FirstIndexOf(b, {Comma}) > 0 => b[FirstIndexOf(b, {Comma})] = Comma
  <1> DEFINE f == FirstIndexOf(b, {Comma})
             g == FirstIndexOf(c, {Comma})
  <1>1. /\ b \in Seq(Letters \cup Marks) /\ c \in Seq(Letters \cup Marks)
        /\ s \in Nat /\ Len(b) \in Nat /\ Len(c) \in Nat
    BY Lengths DEF AgreeTo
  <1>2. /\ f \in 0..Len(b)
        /\ f > 0 => b[f] = Comma /\ \A i \in 1..(f - 1) : b[i] # Comma
        /\ f = 0 => \A i \in 1..Len(b) : b[i] # Comma
    BY <1>1, FirstFacts
  <1>3. /\ g \in 0..Len(c)
        /\ g > 0 => c[g] = Comma /\ \A i \in 1..(g - 1) : c[i] # Comma
        /\ g = 0 => \A i \in 1..Len(c) : c[i] # Comma
    BY <1>1, FirstFacts
  <1> HIDE DEF f, g
  <1>4. f <= s /\ g <= s
    BY <1>1, <1>2, <1>3, MarksAre DEF AgreeTo
  <1>5. \A i \in 1..s : b[i] = c[i] /\ i \in 1..Len(b) /\ i \in 1..Len(c)
    BY <1>1 DEF AgreeTo
  <1>6. f = g
    BY <1>1, <1>2, <1>3, <1>4, <1>5
  <1>7. QED
    BY <1>1, <1>2, <1>4, <1>6 DEF f, g

(* Words begin at the same places up to the mark, and one begins behind it *)
(* if it is a space.                                                       *)
LEMMA SameStarts ==
  ASSUME NEW b, NEW c, NEW s, Completes(b, c, s)
  PROVE  /\ \A i \in 1..s : i \in WordStarts(b) <=> i \in WordStarts(c)
         /\ s + 1 \in WordStarts(c) <=> s = 0 \/ b[s] = Space
         /\ WordStarts(b) \subseteq 1..(s + 1)
         /\ WordStarts(c) \subseteq 1..(s + 1)
         /\ s + 1 \in WordStarts(b) => s = 0 \/ b[s] = Space
         /\ s < Len(b) /\ (s = 0 \/ b[s] = Space) => s + 1 \in WordStarts(b)
  <1>1. b \in Texts /\ c \in Texts /\ s \in Nat /\ s < Len(c) /\ s <= Len(b)
    BY Lengths DEF Completes, AgreeTo
  <1>2. Len(b) \in Nat /\ Len(c) \in Nat
    BY <1>1, Lengths
  <1>3. /\ WordStarts(b) = {i \in 1..Len(b) : b[i] # Space /\ (i > 1 => b[i - 1] = Space)}
        /\ WordStarts(c) = {i \in 1..Len(c) : c[i] # Space /\ (i > 1 => c[i - 1] = Space)}
    BY <1>1, Starting
  <1>4. /\ \A k \in 1..s : b[k] = c[k]
        /\ \A k \in (s + 1)..Len(b) : b[k] # Space
        /\ \A k \in (s + 1)..Len(c) : c[k] # Space
    BY MarksAre DEF Completes, AgreeTo
  <1>5. \A i \in 1..s : i \in WordStarts(b) <=> i \in WordStarts(c)
    BY <1>1, <1>2, <1>3, <1>4
  <1>6. ASSUME NEW i \in WordStarts(b) PROVE i \in 1..(s + 1)
    BY <1>1, <1>2, <1>3, <1>4
  <1>7. ASSUME NEW i \in WordStarts(c) PROVE i \in 1..(s + 1)
    BY <1>1, <1>2, <1>3, <1>4
  <1>8. s + 1 \in WordStarts(c) <=> s = 0 \/ b[s] = Space
    BY <1>1, <1>2, <1>3, <1>4
  <1>9. /\ s + 1 \in WordStarts(b) => s = 0 \/ b[s] = Space
        /\ s < Len(b) /\ (s = 0 \/ b[s] = Space) => s + 1 \in WordStarts(b)
    BY <1>1, <1>2, <1>3, <1>4
  <1>10. QED
    BY <1>5, <1>6, <1>7, <1>8, <1>9

(* A first word that ends before the mark is the same word.                *)
LEMMA SameBeginning ==
  ASSUME NEW b, NEW c, NEW s, AgreeTo(b, c, s), NEW i \in 1..s, Begins(b, i)
  PROVE  Begins(c, i)
  <1>1. s \in Nat /\ Len(b) \in Nat /\ Len(c) \in Nat /\ s <= Len(b) /\ s <= Len(c)
    BY Lengths DEF AgreeTo
  <1>2. \A k \in 1..s : b[k] = c[k]
    BY DEF AgreeTo
  <1>3. QED
    BY <1>1, <1>2 DEF Begins

LEMMA SameWord ==
  ASSUME NEW b, NEW c, NEW s, AgreeTo(b, c, s), NEW i \in 1..s, Begins(b, i),
         NEW j \in (i + 1)..s, b[j] = Space
  PROVE  FirstWord(b) = FirstWord(c)
  <1>1. /\ b \in Texts /\ c \in Texts
        /\ s \in Nat /\ Len(b) \in Nat /\ Len(c) \in Nat /\ s <= Len(b) /\ s <= Len(c)
    BY Lengths DEF AgreeTo
  <1>2. \A k \in 1..s : b[k] = c[k]
    BY DEF AgreeTo
  <1>3. i \in 1..Len(b) /\ b[i] # Space
    BY DEF Begins
  <1>4. PICK e : Ends(b, i, e)
    BY <1>1, <1>3, Ending
  <1>5. e \in i..Len(b) /\ e < j /\ b[e + 1] = Space
    BY <1>1, <1>4 DEF Ends
  <1>6. Ends(c, i, e)
    <2>1. e \in i..Len(c) /\ c[e + 1] = Space
      BY <1>1, <1>2, <1>5
    <2>2. \A k \in i..e : c[k] # Space
      BY <1>1, <1>2, <1>4, <1>5 DEF Ends
    <2>3. QED
      BY <2>1, <2>2 DEF Ends
  <1>7. FirstWord(b) = SubSeq(b, i, e) /\ FirstWord(c) = SubSeq(c, i, e)
    BY <1>1, <1>4, <1>6, SameBeginning, WordIs
  <1>8. SubSeq(b, i, e) = SubSeq(c, i, e)
    <2>1. b \in Seq(Letters \cup Marks) /\ c \in Seq(Letters \cup Marks)
      BY <1>1, Lengths
    <2>2. e \in Nat /\ i \in Nat /\ i >= 1 /\ e <= Len(b) /\ e <= Len(c) /\ \A k \in i..e : b[k] = c[k]
      BY <1>1, <1>2, <1>5
    <2>3. QED
      BY <2>1, <2>2, SamePart
  <1>9. QED
    BY <1>7, <1>8

(* A first word with a comma in it is no verb.                             *)
LEMMA CommaIsNoVerb ==
  ASSUME NEW s \in Texts, NEW i, Begins(s, i), NEW k \in i..Len(s), s[k] = Comma,
         \A l \in i..k : s[l] # Space
  PROVE  ~HasGrammar(FirstWord(s))
  <1>1. Len(s) \in Nat /\ i \in 1..Len(s) /\ s[i] # Space /\ s \in Seq(Letters \cup Marks)
    BY Lengths DEF Begins
  <1>2. PICK e : Ends(s, i, e)
    BY <1>1, Ending
  <1>3. e \in i..Len(s) /\ k <= e
    BY <1>1, <1>2 DEF Ends
  <1> DEFINE word == SubSeq(s, i, e)
  <1>4. FirstWord(s) = word
    BY <1>2, WordIs
  <1>5. Len(word) = e - i + 1 /\ \A n \in 1..Len(word) : word[n] = s[i + n - 1]
    BY <1>1, <1>3, PartOf
  <1> HIDE DEF word
  <1>6. k - i + 1 \in 1..Len(word) /\ i + (k - i + 1) - 1 = k
    BY <1>1, <1>3, <1>5
  <1>7. word[k - i + 1] = Comma
    BY <1>5, <1>6
  <1>8. word \notin Seq(Letters)
    <2>1. SUFFICES ASSUME word \in Seq(Letters) PROVE FALSE
      OBVIOUS
    <2>2. word[k - i + 1] \in Letters
      BY <1>6, <2>1
    <2>3. QED
      BY <1>7, <2>2, MarksAre
  <1>9. \A v \in ToSet(CommandList) : v \in Seq(Letters)
    BY NamesAreWords DEF ToSet
  <1>10. QED
    BY <1>4, <1>8, <1>9 DEF HasGrammar

(* After a comma the verb is the same, or neither text has one.            *)
LEMMA VerbBeforeComma ==
  ASSUME NEW b, NEW c, NEW s, AgreeTo(b, c, s), FirstIndexOf(b, {Comma}) > 0
  PROVE  /\ WordStarts(b) # {} /\ WordStarts(c) # {}
         /\ \/ FirstWord(b) = FirstWord(c)
            \/ ~HasGrammar(FirstWord(b)) /\ ~HasGrammar(FirstWord(c))
  <1> DEFINE f == FirstIndexOf(b, {Comma})
  <1>1. /\ b \in Texts /\ c \in Texts
        /\ s \in Nat /\ Len(b) \in Nat /\ Len(c) \in Nat /\ s <= Len(b) /\ s <= Len(c)
    BY Lengths DEF AgreeTo
  <1>2. \A k \in 1..s : b[k] = c[k]
    BY DEF AgreeTo
  <1>3. f \in 1..s /\ b[f] = Comma
    <2>1. f \in 0..s /\ (f > 0 => b[f] = Comma) /\ f > 0
      BY SameComma
    <2> HIDE DEF f
    <2>2. QED
      BY <1>1, <2>1
  <1> HIDE DEF f
  <1>4. f \in 1..Len(b) /\ b[f] # Space /\ c[f] = Comma
    BY <1>1, <1>2, <1>3, MarksAre
  <1>5. PICK i \in 1..f : Begins(b, i)
    BY <1>1, <1>4, Beginning
  <1>6. i \in 1..s
    BY <1>1, <1>3
  <1>7. Begins(c, i)
    BY <1>5, <1>6, SameBeginning
  <1>8. WordStarts(b) # {} /\ WordStarts(c) # {}
    BY <1>1, <1>5, <1>7, FirstStart
  <1>9. CASE \E j \in (i + 1)..s : b[j] = Space
    BY <1>5, <1>6, <1>8, <1>9, SameWord
  <1>10. CASE \A j \in (i + 1)..s : b[j] # Space
    <2>1. \A l \in i..f : b[l] # Space /\ c[l] # Space
      <3>1. ASSUME NEW l \in i..f PROVE b[l] # Space /\ c[l] # Space
        <4>1. l \in 1..s /\ (l = i \/ l \in (i + 1)..s)
          BY <1>1, <1>3, <1>6
        <4>2. b[l] # Space
          BY <1>5, <1>10, <4>1 DEF Begins
        <4>3. QED
          BY <1>2, <4>1, <4>2
      <3>2. QED
        BY <3>1
    <2>2. f \in i..Len(b) /\ f \in i..Len(c)
      BY <1>1, <1>3, <1>4
    <2>3. ~HasGrammar(FirstWord(b))
      BY <1>1, <1>3, <1>5, <2>1, <2>2, CommaIsNoVerb
    <2>4. ~HasGrammar(FirstWord(c))
      BY <1>1, <1>4, <1>7, <2>1, <2>2, CommaIsNoVerb
    <2>5. QED
      BY <1>8, <2>3, <2>4
  <1>11. QED
    BY <1>9, <1>10

(* What stands behind a place before the mark agrees in the same way, and  *)
(* the option that is open there is the same.                              *)
LEMMA AgreeBehind ==
  ASSUME NEW b, NEW c, NEW s, AgreeTo(b, c, s), NEW n \in 0..s
  PROVE  AgreeTo(After(b, n), After(c, n), s - n)
  <1>1. /\ b \in Seq(Letters \cup Marks) /\ c \in Seq(Letters \cup Marks)
        /\ s \in Nat /\ Len(b) \in Nat /\ Len(c) \in Nat /\ s <= Len(b) /\ s <= Len(c)
    BY Lengths DEF AgreeTo
  <1> DEFINE x == After(b, n)
             y == After(c, n)
  <1>2. n + 1 \in Nat /\ n + 1 >= 1
    BY <1>1
  <1>3. /\ x \in Seq(Letters \cup Marks) /\ Len(x) = Len(b) - n
        /\ \A k \in 1..Len(x) : x[k] = b[n + k]
    BY <1>1, <1>2, PartOf DEF After
  <1>4. /\ y \in Seq(Letters \cup Marks) /\ Len(y) = Len(c) - n
        /\ \A k \in 1..Len(y) : y[k] = c[n + k]
    BY <1>1, <1>2, PartOf DEF After
  <1> HIDE DEF x, y
  <1>5. x \in Texts /\ y \in Texts /\ s - n \in 0..Len(x) /\ s - n <= Len(y)
    BY <1>1, <1>3, <1>4 DEF Texts
  <1>6. ASSUME NEW k \in 1..(s - n) PROVE x[k] = y[k]
    <2>1. n + k \in 1..s /\ k \in 1..Len(x) /\ k \in 1..Len(y)
      BY <1>1, <1>3, <1>4
    <2>2. QED
      BY <1>3, <1>4, <2>1 DEF AgreeTo
  <1>7. s - n > 0 => x[s - n] \in Marks
    BY <1>1, <1>3 DEF AgreeTo
  <1>8. ASSUME NEW k \in (s - n + 1)..Len(x) PROVE x[k] \notin Marks
    <2>1. n + k \in (s + 1)..Len(b) /\ k \in 1..Len(x)
      BY <1>1, <1>3
    <2>2. QED
      BY <1>3, <2>1 DEF AgreeTo
  <1>9. ASSUME NEW k \in (s - n + 1)..Len(y) PROVE y[k] \notin Marks
    <2>1. n + k \in (s + 1)..Len(c) /\ k \in 1..Len(y)
      BY <1>1, <1>4
    <2>2. QED
      BY <1>4, <2>1 DEF AgreeTo
  <1>10. AgreeTo(x, y, s - n)
    BY <1>5, <1>6, <1>7, <1>8, <1>9 DEF AgreeTo
  <1>11. QED
    BY <1>10 DEF x, y

LEMMA SameOption ==
  ASSUME NEW b, NEW c, NEW s, AgreeTo(b, c, s)
  PROVE  OpenOption(b) = OpenOption(c)
  <1> DEFINE Opened(t) == {i \in DOMAIN t : t[i] = Paren /\ i > 1 /\ t[i - 1] \notin Marks}
  <1>1. /\ b \in Seq(Letters \cup Marks) /\ c \in Seq(Letters \cup Marks)
        /\ s \in Nat /\ Len(b) \in Nat /\ Len(c) \in Nat /\ s <= Len(b) /\ s <= Len(c)
        /\ DOMAIN b = 1..Len(b) /\ DOMAIN c = 1..Len(c)
    BY Lengths DEF AgreeTo
  <1>2. \A k \in 1..s : b[k] = c[k]
    BY DEF AgreeTo
  <1>3. /\ \A k \in (s + 1)..Len(b) : b[k] # Paren
        /\ \A k \in (s + 1)..Len(c) : c[k] # Paren
    BY MarksAre DEF AgreeTo
  <1>4. ASSUME NEW i PROVE i \in Opened(b) <=> i \in Opened(c)
    <2>1. i \in Opened(b) => i \in 1..s
      BY <1>1, <1>3
    <2>2. i \in Opened(c) => i \in 1..s
      BY <1>1, <1>3
    <2>3. ASSUME i \in 1..s, i > 1 PROVE b[i] = c[i] /\ b[i - 1] = c[i - 1] /\ i \in 1..Len(b) /\ i \in 1..Len(c)
      BY <1>1, <1>2, <2>3
    <2>4. QED
      BY <1>1, <2>1, <2>2, <2>3
  <1>5. Opened(b) = Opened(c)
    <2> HIDE DEF Opened
    <2>1. QED
      BY <1>4
  <1>6. CASE Opened(b) = {}
    BY <1>5, <1>6 DEF OpenOption
  <1>7. CASE Opened(b) # {}
    <2> DEFINE m == Min(Opened(b))
    <2>1. Opened(b) \in SUBSET Nat
      BY <1>1
    <2>2. m \in Opened(b)
      <3> HIDE DEF Opened
      <3>1. QED
        BY <1>7, <2>1, LeastOf
    <2>3. m \in 1..s
      <3> HIDE DEF m
      <3>1. QED
        BY <1>1, <1>3, <2>2
    <2> HIDE DEF m
    <2>4. SubSeq(b, 1, m - 1) = SubSeq(c, 1, m - 1)
      <3>1. m - 1 \in Nat /\ m - 1 <= Len(b) /\ m - 1 <= Len(c) /\ \A k \in 1..(m - 1) : b[k] = c[k]
        BY <1>1, <1>2, <2>3
      <3>2. QED
        BY <1>1, <3>1, SamePart
    <2> DEFINE name == SubSeq(b, 1, m - 1)
    <2>5. OpenOption(b) = After(name, LastIndexOf(name, Marks))
      BY <1>7 DEF OpenOption, Before, m
    <2>6. OpenOption(c) = After(name, LastIndexOf(name, Marks))
      BY <1>5, <1>7, <2>4 DEF OpenOption, Before, m
    <2>7. QED
      BY <2>5, <2>6
  <1>8. QED
    BY <1>6, <1>7

-----------------------------------------------------------------------------
(* What is being typed stays what it was when the word is completed.       *)

CommaOf(b) == FirstIndexOf(b, {Comma})
Opening(b) ==
  \/ WordStarts(b) = {}
  \/ CommaOf(b) = 0 /\ b[Len(b)] # Space /\ Cardinality(WordStarts(b)) = 1

LEMMA OneStart ==
  ASSUME NEW b \in Texts
  PROVE  Cardinality(WordStarts(b)) = 1 <=> \E i : WordStarts(b) = {i}
  <1>1. Len(b) \in Nat
    BY Lengths
  <1>2. WordStarts(b) \subseteq 1..Len(b)
    BY Starting
  <1>3. IsFiniteSet(1..Len(b))
    BY <1>1, FS_Interval
  <1>4. IsFiniteSet(WordStarts(b))
    BY <1>2, <1>3, FS_Subset
  <1>5. QED
    BY <1>4, FS_Singleton

(* A text before the first word's end is completed to another such text.   *)
LEMMA StillOpening ==
  ASSUME NEW b, NEW c, NEW s, Completes(b, c, s), Opening(b)
  PROVE  Opening(c)
  <1>1. /\ b \in Texts /\ c \in Texts /\ AgreeTo(b, c, s)
        /\ s \in Nat /\ Len(b) \in Nat /\ Len(c) \in Nat /\ s <= Len(b) /\ s < Len(c)
    BY Lengths DEF Completes, AgreeTo
  <1>2. c[Len(c)] # Space
    <2>1. Len(c) \in (s + 1)..Len(c)
      BY <1>1
    <2>2. QED
      BY <1>1, <2>1, MarksAre DEF AgreeTo
  <1>3. CASE WordStarts(b) = {}
    <2>1. \A k \in 1..Len(b) : b[k] = Space
      <3>1. SUFFICES ASSUME NEW k \in 1..Len(b), b[k] # Space PROVE FALSE
        OBVIOUS
      <3>2. PICK i \in 1..k : Begins(b, i)
        BY <1>1, <3>1, Beginning
      <3>3. QED
        BY <1>1, <1>3, <3>2, FirstStart
    <2>2. CommaOf(c) = 0
      <3>1. CommaOf(b) \in 0..s /\ CommaOf(b) = CommaOf(c)
        BY <1>1, SameComma DEF CommaOf
      <3>2. ~(CommaOf(b) > 0)
        BY <1>1, <1>3, VerbBeforeComma DEF CommaOf
      <3>3. QED
        BY <1>1, <3>1, <3>2
    <2>3. s = 0 \/ b[s] = Space
      BY <1>1, <2>1
    <2>4. WordStarts(c) = {s + 1}
      <3>1. s + 1 \in WordStarts(c)
        BY <2>3, SameStarts
      <3>2. ASSUME NEW i \in WordStarts(c) PROVE i = s + 1
        <4>1. i \in 1..(s + 1)
          BY SameStarts
        <4>2. i \notin 1..s
          BY <1>3, SameStarts
        <4>3. QED
          BY <1>1, <4>1, <4>2
      <3>3. QED
        BY <3>1, <3>2
    <2>5. Cardinality(WordStarts(c)) = 1
      BY <1>1, <2>4, OneStart
    <2>6. QED
      BY <1>2, <2>2, <2>5 DEF Opening
  <1>4. CASE CommaOf(b) = 0 /\ b[Len(b)] # Space /\ Cardinality(WordStarts(b)) = 1
    <2>1. PICK i : WordStarts(b) = {i}
      BY <1>1, <1>4, OneStart
    <2>2. CommaOf(c) = 0
      BY <1>1, <1>4, SameComma DEF CommaOf
    <2>3. i \in 1..(s + 1)
      BY <2>1, SameStarts
    <2>4. ASSUME i \in 1..s, s + 1 \in WordStarts(c) PROVE FALSE
      <3>1. b[s] = Space
        BY <1>1, <2>4, SameStarts
      <3>2. s # Len(b)
        BY <1>4, <3>1
      <3>3. s + 1 \in WordStarts(b)
        BY <1>1, <3>1, <3>2, SameStarts
      <3>4. QED
        BY <1>1, <2>1, <2>4, <3>3
    <2>5. WordStarts(c) = {i}
      <3>1. i \in WordStarts(c)
        <4>1. CASE i \in 1..s
          BY <2>1, <4>1, SameStarts
        <4>2. CASE i = s + 1
          BY <2>1, <4>2, SameStarts
        <4>3. QED
          BY <1>1, <2>3, <4>1, <4>2
      <3>2. ASSUME NEW j \in WordStarts(c) PROVE j = i
        <4>1. j \in 1..(s + 1)
          BY SameStarts
        <4>2. j \in 1..s => j = i
          BY <2>1, SameStarts
        <4>3. j = s + 1 => i = s + 1
          BY <1>1, <2>3, <2>4
        <4>4. QED
          BY <1>1, <4>1, <4>2, <4>3
      <3>3. QED
        BY <3>1, <3>2
    <2>6. Cardinality(WordStarts(c)) = 1
      BY <1>1, <2>5, OneStart
    <2>7. QED
      BY <1>2, <2>2, <2>6 DEF Opening
  <1>5. QED
    BY <1>3, <1>4 DEF Opening

(* A text past its first word and without a comma stays past that word.    *)
LEMMA StillPast ==
  ASSUME NEW b, NEW c, NEW s, Completes(b, c, s), ~Opening(b), CommaOf(b) = 0
  PROVE  ~Opening(c) /\ FirstWord(b) = FirstWord(c)
  <1>1. /\ b \in Texts /\ c \in Texts /\ AgreeTo(b, c, s)
        /\ s \in Nat /\ Len(b) \in Nat /\ Len(c) \in Nat /\ s <= Len(b) /\ s < Len(c)
    BY Lengths DEF Completes, AgreeTo
  <1>2. PICK n : n \in WordStarts(b)
    BY DEF Opening
  <1>3. n \in 1..Len(b) /\ b[n] # Space
    BY <1>1, <1>2, Starting
  <1>4. PICK i \in 1..n : Begins(b, i)
    BY <1>1, <1>3, Beginning
  <1>5. i \in WordStarts(b) /\ b[i] # Space /\ i \in 1..Len(b) /\ \A k \in 1..(i - 1) : b[k] = Space
    BY <1>1, <1>4, FirstStart DEF Begins
  <1>6. \E j \in (i + 1)..s : b[j] = Space /\ \E m \in WordStarts(c) : m > j
    <2>1. CASE b[Len(b)] = Space
      <3>1. s = Len(b)
        <4>1. s < Len(b) => b[Len(b)] \notin Marks
          BY <1>1 DEF AgreeTo
        <4>2. QED
          BY <1>1, <2>1, <4>1, MarksAre
      <3>2. i # s
        BY <1>5, <2>1, <3>1
      <3>3. s \in (i + 1)..s /\ b[s] = Space
        BY <1>1, <1>5, <2>1, <3>1, <3>2
      <3>4. s + 1 \in WordStarts(c) /\ s + 1 > s
        BY <1>1, <3>3, SameStarts
      <3>5. QED
        BY <3>3, <3>4
    <2>2. CASE b[Len(b)] # Space
      <3>1. Cardinality(WordStarts(b)) # 1
        BY <2>2 DEF Opening
      <3>2. WordStarts(b) # {i}
        BY <1>1, <3>1, OneStart
      <3>3. PICK m \in WordStarts(b) : m # i
        BY <1>5, <3>2
      <3>4. m \in 1..Len(b) /\ b[m] # Space /\ (m > 1 => b[m - 1] = Space)
        BY <1>1, Starting
      <3>5. m > i
        BY <1>1, <1>5, <3>3, <3>4
      <3>6. b[m - 1] = Space /\ m - 1 # i /\ m - 1 >= i
        BY <1>1, <1>5, <3>4, <3>5
      <3>7. m \in 1..(s + 1)
        BY SameStarts
      <3>8. m - 1 \in (i + 1)..s /\ m > m - 1
        BY <1>1, <1>5, <3>6, <3>7
      <3>9. m \in WordStarts(c)
        <4>1. CASE m \in 1..s
          BY <4>1, SameStarts
        <4>2. CASE m = s + 1
          BY <4>2, SameStarts
        <4>3. QED
          BY <1>1, <3>7, <4>1, <4>2
      <3>10. QED
        BY <3>6, <3>8, <3>9
    <2>3. QED
      BY <2>1, <2>2
  <1>7. PICK j \in (i + 1)..s, m \in WordStarts(c) : b[j] = Space /\ m > j
    BY <1>6
  <1>8. i \in 1..s
    BY <1>1, <1>5, <1>7
  <1>9. FirstWord(b) = FirstWord(c)
    BY <1>1, <1>4, <1>7, <1>8, SameWord
  <1>10. i \in WordStarts(c) /\ m # i
    BY <1>1, <1>5, <1>7, <1>8, SameStarts
  <1>11. Cardinality(WordStarts(c)) # 1
    BY <1>1, <1>7, <1>10, OneStart
  <1>12. QED
    BY <1>9, <1>10, <1>11 DEF Opening

-----------------------------------------------------------------------------
(* The context before the caret is one of five kinds.                      *)

Kinds == {"verb", "depvar", "indepvar", "option", "option_value"}

LEMMA BeforeCaret ==
  ASSUME NEW t \in Texts, NEW pos \in 0..Len(t)
  PROVE  /\ Before(t, pos) \in Texts /\ Len(Before(t, pos)) = pos
         /\ \A k \in 1..pos : Before(t, pos)[k] = t[k]
  <1>1. t \in Seq(Letters \cup Marks) /\ Len(t) \in Nat
    BY Lengths
  <1>2. /\ SubSeq(t, 1, pos) \in Seq(Letters \cup Marks)
        /\ Len(SubSeq(t, 1, pos)) = IF 1 <= pos THEN pos - 1 + 1 ELSE 0
        /\ \A k \in 1..Len(SubSeq(t, 1, pos)) : SubSeq(t, 1, pos)[k] = t[1 + k - 1]
    BY <1>1, PartOf
  <1>3. Len(SubSeq(t, 1, pos)) = pos
    BY <1>1, <1>2
  <1>4. \A k \in 1..pos : SubSeq(t, 1, pos)[k] = t[k]
    BY <1>2, <1>3
  <1>5. QED
    BY <1>2, <1>3, <1>4 DEF Before, Texts

VerbOnly == Context("verb", << >>, << >>)
LEMMA ContextIs ==
  ASSUME NEW t \in Texts, NEW pos \in 0..Len(t)
  PROVE  LET b == Before(t, pos)
             verb == FirstWord(b)
             option == OpenOption(After(b, CommaOf(b)))
             x == getContext(t, pos)
         IN /\ Opening(b) => x = VerbOnly
            /\ ~Opening(b) /\ CommaOf(b) > 0 =>
                 x = IF option # << >> THEN Context("option_value", verb, option)
                     ELSE Context("option", verb, << >>)
            /\ ~Opening(b) /\ CommaOf(b) = 0 /\ ~HasGrammar(verb) => x = VerbOnly
            /\ ~Opening(b) /\ CommaOf(b) = 0 /\ HasGrammar(verb) =>
                 x = Context("depvar", verb, << >>) \/ x = Context("indepvar", verb, << >>)
  <1> DEFINE b == Before(t, pos)
  <1>1. Len(b) = pos
    BY BeforeCaret
  <1>2. Opening(b) <=> \/ WordStarts(b) = {}
                       \/ CommaOf(b) = 0 /\ b[pos] # Space /\ Cardinality(WordStarts(b)) = 1
    BY <1>1 DEF Opening
  <1> HIDE DEF b
  <1>3. CASE Opening(b)
    BY <1>2, <1>3 DEF getContext, CommaOf, VerbOnly, b
  <1>4. CASE ~Opening(b) /\ CommaOf(b) > 0
    <2>1. CommaOf(b) # 0
      <3>1. CommaOf(b) \in 0..Len(b) /\ Len(b) \in Nat
        <4>1. b \in Seq(Letters \cup Marks) /\ Len(b) \in Nat
          BY BeforeCaret, Lengths DEF b
        <4>2. QED
          BY <4>1, FirstFacts DEF CommaOf
      <3>2. QED
        BY <1>4, <3>1
    <2>2. QED
      BY <1>2, <1>4, <2>1 DEF getContext, CommaOf, b
  <1>5. CASE ~Opening(b) /\ CommaOf(b) = 0
    <2>1. ~(CommaOf(b) > 0)
      BY <1>5
    <2>2. QED
      BY <1>2, <1>5, <2>1 DEF getContext, CommaOf, VerbOnly, b
  <1>6. CommaOf(b) > 0 \/ CommaOf(b) = 0
    <2>1. b \in Seq(Letters \cup Marks) /\ Len(b) \in Nat
      BY BeforeCaret, Lengths DEF b
    <2>2. CommaOf(b) \in 0..Len(b)
      BY <2>1, FirstFacts DEF CommaOf
    <2>3. QED
      BY <2>1, <2>2
  <1>7. QED
    BY <1>3, <1>4, <1>5, <1>6 DEF b

LEMMA KindOf ==
  ASSUME NEW t \in Texts, NEW pos \in 0..Len(t)
  PROVE  getContext(t, pos).kind \in Kinds
  <1> DEFINE b == Before(t, pos)
  <1>1. b \in Seq(Letters \cup Marks) /\ Len(b) \in Nat
    BY BeforeCaret, Lengths
  <1>2. CommaOf(b) > 0 \/ CommaOf(b) = 0
    <2>1. CommaOf(b) \in 0..Len(b)
      BY <1>1, FirstFacts DEF CommaOf
    <2>2. QED
      BY <1>1, <2>1
  <1> HIDE DEF b
  <1>3. CASE Opening(b)
    BY <1>3, ContextIs DEF b, VerbOnly, Context, Kinds
  <1>4. CASE ~Opening(b) /\ CommaOf(b) > 0
    BY <1>4, ContextIs DEF b, Context, Kinds
  <1>5. CASE ~Opening(b) /\ CommaOf(b) = 0 /\ ~HasGrammar(FirstWord(b))
    BY <1>5, ContextIs DEF b, VerbOnly, Context, Kinds
  <1>6. CASE ~Opening(b) /\ CommaOf(b) = 0 /\ HasGrammar(FirstWord(b))
    BY <1>6, ContextIs DEF b, Context, Kinds
  <1>7. QED
    BY <1>2, <1>3, <1>4, <1>5, <1>6

(* Completing the word keeps the kind, the option and what the verb        *)
(* offers; only a dependent variable is followed by others.                *)
LEMMA SameContext ==
  ASSUME NEW t \in Texts, NEW p \in 0..Len(t), NEW u \in Texts, NEW q \in 0..Len(u),
         NEW s, Completes(Before(t, p), Before(u, q), s)
  PROVE  LET x == getContext(t, p)
             y == getContext(u, q)
         IN /\ x.kind = "verb" => y.kind = "verb"
            /\ x.kind \in {"depvar", "indepvar"} => y.kind \in {"depvar", "indepvar"}
            /\ x.kind \in {"option", "option_value"} =>
                 y.kind = x.kind /\ y.option = x.option /\ Options(y) = Options(x)
  <1> DEFINE b == Before(t, p)
             c == Before(u, q)
             x == getContext(t, p)
             y == getContext(u, q)
  <1>1. Completes(b, c, s) /\ AgreeTo(b, c, s) /\ s \in Nat
    BY Lengths DEF Completes, AgreeTo
  <1>2. CommaOf(b) = CommaOf(c) /\ CommaOf(b) \in 0..s
    BY <1>1, SameComma DEF CommaOf
  <1>3. /\ Opening(b) => x = VerbOnly
        /\ ~Opening(b) /\ CommaOf(b) > 0 =>
             x = IF OpenOption(After(b, CommaOf(b))) # << >>
                 THEN Context("option_value", FirstWord(b), OpenOption(After(b, CommaOf(b))))
                 ELSE Context("option", FirstWord(b), << >>)
        /\ ~Opening(b) /\ CommaOf(b) = 0 /\ ~HasGrammar(FirstWord(b)) => x = VerbOnly
        /\ ~Opening(b) /\ CommaOf(b) = 0 /\ HasGrammar(FirstWord(b)) =>
             x = Context("depvar", FirstWord(b), << >>) \/ x = Context("indepvar", FirstWord(b), << >>)
    BY ContextIs
  <1>4. /\ Opening(c) => y = VerbOnly
        /\ ~Opening(c) /\ CommaOf(c) > 0 =>
             y = IF OpenOption(After(c, CommaOf(c))) # << >>
                 THEN Context("option_value", FirstWord(c), OpenOption(After(c, CommaOf(c))))
                 ELSE Context("option", FirstWord(c), << >>)
        /\ ~Opening(c) /\ CommaOf(c) = 0 /\ ~HasGrammar(FirstWord(c)) => y = VerbOnly
        /\ ~Opening(c) /\ CommaOf(c) = 0 /\ HasGrammar(FirstWord(c)) =>
             y = Context("depvar", FirstWord(c), << >>) \/ y = Context("indepvar", FirstWord(c), << >>)
    BY ContextIs
  <1> HIDE DEF b, c, x, y
  <1>5. CASE Opening(b)
    <2>1. Opening(c)
      BY <1>1, <1>5, StillOpening
    <2>2. QED
      BY <1>3, <1>4, <1>5, <2>1 DEF VerbOnly, Context, x, y
  <1>6. CASE ~Opening(b) /\ CommaOf(b) = 0
    <2>1. ~Opening(c) /\ FirstWord(b) = FirstWord(c)
      BY <1>1, <1>6, StillPast
    <2>2. CASE HasGrammar(FirstWord(b))
      <3>1. x.kind \in {"depvar", "indepvar"}
        BY <1>3, <1>6, <2>2 DEF Context
      <3>2. y.kind \in {"depvar", "indepvar"}
        BY <1>2, <1>4, <1>6, <2>1, <2>2 DEF Context
      <3>3. QED
        BY <3>1, <3>2 DEF x, y
    <2>3. CASE ~HasGrammar(FirstWord(b))
      <3>1. x = VerbOnly /\ y = VerbOnly
        BY <1>2, <1>3, <1>4, <1>6, <2>1, <2>3
      <3>2. QED
        BY <3>1 DEF VerbOnly, Context, x, y
    <2>4. QED
      BY <2>2, <2>3
  <1>7. CASE ~Opening(b) /\ CommaOf(b) > 0
    <2>1. /\ WordStarts(c) # {}
          /\ \/ FirstWord(b) = FirstWord(c)
             \/ ~HasGrammar(FirstWord(b)) /\ ~HasGrammar(FirstWord(c))
      BY <1>1, <1>7, VerbBeforeComma DEF CommaOf
    <2>2. CommaOf(c) > 0 /\ CommaOf(c) # 0
      BY <1>1, <1>2, <1>7
    <2>3. ~Opening(c)
      BY <2>1, <2>2 DEF Opening
    <2> DEFINE o == OpenOption(After(b, CommaOf(b)))
    <2>4. OpenOption(After(c, CommaOf(c))) = o
      <3>1. AgreeTo(After(b, CommaOf(b)), After(c, CommaOf(b)), s - CommaOf(b))
        BY <1>1, <1>2, AgreeBehind
      <3>2. QED
        BY <1>2, <3>1, SameOption
    <2> HIDE DEF o
    <2>5. CASE o # << >>
      <3>1. x = Context("option_value", FirstWord(b), o) /\ y = Context("option_value", FirstWord(c), o)
        BY <1>3, <1>4, <1>7, <2>2, <2>3, <2>4, <2>5 DEF o
      <3>2. x.kind = "option_value" /\ y.kind = "option_value" /\ x.option = o /\ y.option = o
        BY <3>1 DEF Context
      <3>3. Options(x) = Options(y)
        BY <2>1, <3>1 DEF Context, Options
      <3>4. QED
        BY <3>2, <3>3 DEF x, y
    <2>6. CASE o = << >>
      <3>1. x = Context("option", FirstWord(b), << >>) /\ y = Context("option", FirstWord(c), << >>)
        BY <1>3, <1>4, <1>7, <2>2, <2>3, <2>4, <2>6 DEF o
      <3>2. x.kind = "option" /\ y.kind = "option" /\ x.option = << >> /\ y.option = << >>
        BY <3>1 DEF Context
      <3>3. Options(x) = Options(y)
        BY <2>1, <3>1 DEF Context, Options
      <3>4. QED
        BY <3>2, <3>3 DEF x, y
    <2>7. QED
      BY <2>5, <2>6
  <1>8. QED
    BY <1>1, <1>2, <1>5, <1>6, <1>7

-----------------------------------------------------------------------------
(* What is offered is a name the context knows.                            *)

LEMMA SetOf ==
  ASSUME NEW S, NEW s \in Seq(S)
  PROVE  /\ ToSet(s) \subseteq S /\ s \in Seq(ToSet(s))
         /\ \A i \in 1..Len(s) : s[i] \in ToSet(s)
         /\ \A x \in ToSet(s) : \E i \in 1..Len(s) : x = s[i]
  <1>1. DOMAIN s = 1..Len(s) /\ Len(s) \in Nat /\ \A i \in 1..Len(s) : s[i] \in S
    OBVIOUS
  <1>2. \A i \in 1..Len(s) : s[i] \in ToSet(s)
    BY <1>1 DEF ToSet
  <1>3. s \in [1..Len(s) -> ToSet(s)]
    BY <1>1, <1>2
  <1>4. s \in Seq(ToSet(s))
    BY <1>1, <1>3
  <1>5. QED
    BY <1>1, <1>2, <1>4 DEF ToSet

LEMMA NamesOfThem ==
  ASSUME NEW S, NEW s \in Seq(S), NEW t \in Seq(ToSet(s))
  PROVE  NamesOf(t) \in Seq(ToSet(NamesOf(s)))
  <1>1. /\ DOMAIN s = 1..Len(s) /\ DOMAIN t = 1..Len(t) /\ Len(t) \in Nat
        /\ \A i \in 1..Len(t) : t[i] \in ToSet(s)
    OBVIOUS
  <1>2. ASSUME NEW i \in 1..Len(t) PROVE t[i].name \in ToSet(NamesOf(s))
    <2>1. PICK k \in 1..Len(s) : t[i] = s[k]
      BY <1>1, SetOf
    <2>2. DOMAIN NamesOf(s) = 1..Len(s) /\ NamesOf(s)[k] = s[k].name
      BY <1>1 DEF NamesOf
    <2>3. QED
      BY <2>1, <2>2 DEF ToSet
  <1>3. NamesOf(t) = [i \in 1..Len(t) |-> t[i].name]
    BY <1>1 DEF NamesOf
  <1>4. NamesOf(t) \in [1..Len(t) -> ToSet(NamesOf(s))]
    BY <1>2, <1>3
  <1>5. QED
    BY <1>1, <1>4

LEMMA NamesAre ==
  ASSUME NEW S, NEW s \in Seq(S), \A x \in S : x.name \in Seq(Letters)
  PROVE  NamesOf(s) \in Seq(Seq(Letters)) /\ ToSet(NamesOf(s)) \subseteq Seq(Letters)
  <1>1. DOMAIN s = 1..Len(s) /\ Len(s) \in Nat /\ \A i \in 1..Len(s) : s[i] \in S
    OBVIOUS
  <1>2. NamesOf(s) = [i \in 1..Len(s) |-> s[i].name]
    BY <1>1 DEF NamesOf
  <1>3. NamesOf(s) \in [1..Len(s) -> Seq(Letters)]
    BY <1>1, <1>2
  <1>4. NamesOf(s) \in Seq(Seq(Letters))
    BY <1>1, <1>3
  <1>5. QED
    BY <1>4, SetOf

LEMMA ContinuingThem ==
  ASSUME NEW S, NEW s \in Seq(S), NEW partial, NEW preferred
  PROVE  /\ Continuing(s, partial) \in Seq(S)
         /\ NamesContinuing(s, partial) \in Seq(S)
         /\ First(s, preferred) \in Seq(S)
  <1>1. Continuing(s, partial) \in Seq(S)
    BY AmongThem DEF Continuing
  <1>2. NamesContinuing(s, partial) \in Seq(S)
    BY AmongThem DEF NamesContinuing
  <1>3. Among(s, preferred) \in Seq(S) /\ Among(s, ToSet(s) \ preferred) \in Seq(S)
    BY AmongThem
  <1>4. First(s, preferred) \in Seq(S)
    BY <1>3 DEF First
  <1>5. QED
    BY <1>1, <1>2, <1>4

LEMMA OptionsAre ==
  ASSUME NEW context
  PROVE  /\ Options(context) \in Seq(OptionNodes)
         /\ ValuesOf(context) \in Seq(Seq(Letters))
  <1>1. Options(context) \in Seq(OptionNodes)
    <2>1. CASE HasGrammar(context.verb)
      BY <2>1, NamesAreWords DEF Options, HasGrammar
    <2>2. CASE ~HasGrammar(context.verb)
      BY <2>2 DEF Options
    <2>3. QED
      BY <2>1, <2>2
  <1>2. OptionNode(context) \in Seq(OptionNodes)
    BY <1>1, AmongThem DEF OptionNode
  <1>3. ValuesOf(context) \in Seq(Seq(Letters))
    <2>1. CASE OptionNode(context) = << >>
      BY <2>1 DEF ValuesOf
    <2>2. CASE OptionNode(context) # << >>
      <3>1. OptionNode(context)[1] \in OptionNodes
        BY <1>2, <2>2
      <3>2. OptionNode(context)[1].values \in Seq(Seq(Letters))
        BY <3>1 DEF OptionNodes
      <3>3. QED
        BY <2>2, <3>2 DEF ValuesOf
    <2>3. QED
      BY <2>1, <2>2
  <1>4. QED
    BY <1>1, <1>3

(* The names a context knows, and those completion draws on.               *)
Known(kind, context, cols) ==
  CASE kind = "verb" -> ToSet(CommandList)
    [] kind \in {"depvar", "indepvar"} -> ToSet(NamesOf(cols))
    [] kind = "option" -> ToSet(NamesOf(Options(context)))
    [] kind = "option_value" -> ToSet(ValuesOf(context)) \cup ToSet(NamesOf(cols))

LEMMA OfferedAreKnown ==
  ASSUME NEW context, context.kind \in Kinds, NEW cols \in Seq(Columns),
         NEW unused \in Seq(ToSet(cols)), NEW partial
  PROVE  getCompletions(context, unused, partial) \in Seq(Known(context.kind, context, cols))
  <1> DEFINE matching == Continuing(unused, partial)
             offered == Continuing(Options(context), partial)
             options == Options(context)
             discrete == IF context.option \in Categorical
                         THEN {c \in ToSet(matching) : ~c.continuous} ELSE {}
             x == getCompletions(context, unused, partial)
  <1>1. matching \in Seq(ToSet(cols))
    BY ContinuingThem
  <1>2. options \in Seq(ToSet(options))
    BY OptionsAre, SetOf
  <1>3. offered \in Seq(ToSet(options))
    BY <1>2, ContinuingThem
  <1> HIDE DEF x
  <1>4. CASE context.kind = "verb"
    <2>1. x = NamesContinuing(CommandList, partial)
      BY <1>4 DEF x, getCompletions
    <2>2. CommandList \in Seq(ToSet(CommandList))
      BY NamesAreWords, SetOf
    <2>3. x \in Seq(ToSet(CommandList))
      BY <2>1, <2>2, ContinuingThem
    <2>4. QED
      BY <1>4, <2>3 DEF Known, x
  <1>5. CASE context.kind = "depvar"
    <2> DEFINE firsts == First(matching, {c \in ToSet(matching) : c.continuous})
    <2>1. x = NamesOf(firsts)
      BY <1>5 DEF x, getCompletions
    <2> HIDE DEF matching
    <2>2. firsts \in Seq(ToSet(cols))
      BY <1>1, ContinuingThem
    <2> HIDE DEF firsts
    <2>3. x \in Seq(ToSet(NamesOf(cols)))
      BY <2>1, <2>2, NamesOfThem
    <2>4. QED
      BY <1>5, <2>3 DEF Known, x
  <1>6. CASE context.kind = "indepvar"
    <2>1. x = NamesOf(matching)
      BY <1>6 DEF x, getCompletions
    <2> HIDE DEF matching
    <2>2. x \in Seq(ToSet(NamesOf(cols)))
      BY <1>1, <2>1, NamesOfThem
    <2>3. QED
      BY <1>6, <2>2 DEF Known, x
  <1>7. CASE context.kind = "option"
    <2> DEFINE firsts == First(offered, {o \in ToSet(offered) : o.required})
    <2>1. x = NamesOf(firsts)
      BY <1>7 DEF x, getCompletions
    <2> HIDE DEF offered
    <2>2. firsts \in Seq(ToSet(options))
      BY <1>3, ContinuingThem
    <2> HIDE DEF firsts
    <2>3. x \in Seq(ToSet(NamesOf(options)))
      BY <1>2, <2>1, <2>2, NamesOfThem
    <2>4. QED
      BY <1>7, <2>3 DEF Known, x
  <1>8. CASE context.kind = "option_value"
    <2>1. CASE ValuesOf(context) # << >>
      <3>1. x = NamesContinuing(ValuesOf(context), partial)
        BY <1>8, <2>1 DEF x, getCompletions
      <3>2. ValuesOf(context) \in Seq(ToSet(ValuesOf(context)))
        BY OptionsAre, SetOf
      <3>3. x \in Seq(ToSet(ValuesOf(context)))
        BY <3>1, <3>2, ContinuingThem
      <3>4. x \in Seq(ToSet(ValuesOf(context)) \cup ToSet(NamesOf(cols)))
        BY <3>3
      <3>5. QED
        BY <1>8, <3>4 DEF Known, x
    <2>2. CASE ValuesOf(context) = << >>
      <3> DEFINE firsts == First(matching, discrete)
      <3>1. x = NamesOf(firsts)
        BY <1>8, <2>2 DEF x, getCompletions
      <3> HIDE DEF matching, discrete
      <3>2. firsts \in Seq(ToSet(cols))
        BY <1>1, ContinuingThem
      <3> HIDE DEF firsts
      <3>3. x \in Seq(ToSet(NamesOf(cols)))
        BY <3>1, <3>2, NamesOfThem
      <3>4. x \in Seq(ToSet(ValuesOf(context)) \cup ToSet(NamesOf(cols)))
        BY <3>3
      <3>5. QED
        BY <1>8, <3>4 DEF Known, x
    <2>3. QED
      BY <2>1, <2>2
  <1>9. QED
    BY <1>4, <1>5, <1>6, <1>7, <1>8 DEF Kinds

LEMMA CorrectionsAreColumns ==
  ASSUME NEW cols \in Seq(Columns), NEW unused \in Seq(ToSet(cols)), NEW partial
  PROVE  getCorrections(partial, unused) \in Seq(ToSet(NamesOf(cols)))
  <1> DEFINE At(distance) ==
               Among(unused, {c \in ToSet(unused) :
                                Distance(partial, c.name) = distance /\ Len(c.name) >= 2})
             near == NamesOf(At(1) \o At(2) \o At(3))
             many == Min({3, Len(near)})
  <1>1. At(1) \in Seq(ToSet(cols)) /\ At(2) \in Seq(ToSet(cols)) /\ At(3) \in Seq(ToSet(cols))
    BY AmongThem
  <1>2. near \in Seq(ToSet(NamesOf(cols)))
    <2> DEFINE all == At(1) \o At(2) \o At(3)
    <2> HIDE DEF At
    <2>1. all \in Seq(ToSet(cols))
      BY <1>1
    <2> HIDE DEF all
    <2>2. NamesOf(all) \in Seq(ToSet(NamesOf(cols)))
      BY <2>1, NamesOfThem
    <2>3. QED
      BY <2>2 DEF all
  <1>3. getCorrections(partial, unused) = SubSeq(near, 1, many)
    BY DEF getCorrections, Before
  <1> HIDE DEF near, many
  <1>4. many \in 0..Len(near)
    <2>1. Len(near) \in Nat
      BY <1>2
    <2>2. {3, Len(near)} \in SUBSET Nat /\ {3, Len(near)} # {}
      BY <2>1
    <2>3. many \in {3, Len(near)} /\ \A t \in {3, Len(near)} : many <= t
      BY <2>2, LeastOf DEF many
    <2>4. QED
      BY <2>1, <2>3
  <1>5. QED
    BY <1>2, <1>3, <1>4, PartOf

LEMMA UnusedAreColumns ==
  ASSUME NEW cols \in Seq(Columns), NEW value, NEW pos
  PROVE  Unused(cols, value, pos) \in Seq(ToSet(cols))
  <1>1. cols \in Seq(ToSet(cols))
    BY SetOf
  <1>2. QED
    BY <1>1, AmongThem DEF Unused

(* What a text suggests is known where it is suggested.                    *)
LEMMA SuggestedAreKnown ==
  ASSUME columns \in Seq(Columns), NEW value \in Texts, NEW pos \in 0..Len(value)
  PROVE  Suggestions(value, pos).items
           \in Seq(Known(getContext(value, pos).kind, getContext(value, pos), columns))
  <1> DEFINE context == getContext(value, pos)
             unused == Unused(columns, value, pos)
             partial == getPartial(value, pos)
             offered == getCompletions(context, unused, partial)
             near == getCorrections(partial, unused)
             names == Known(context.kind, context, columns)
             items == Suggestions(value, pos).items
  <1>1. context.kind \in Kinds
    BY KindOf
  <1>2. unused \in Seq(ToSet(columns))
    BY UnusedAreColumns
  <1>3. \/ items = << >>
        \/ items = offered
        \/ items = near /\ context.kind \in {"depvar", "indepvar", "option_value"}
    <2> DEFINE corrects == /\ offered = << >> /\ near # << >> /\ Len(partial) >= MinCorrected
                           /\ context.kind \in {"depvar", "indepvar", "option_value"}
               said == [items |-> IF corrects THEN near ELSE offered,
                        ghost |-> getGhostText(offered, partial),
                        correction |-> IF corrects THEN near[1] ELSE << >>]
    <2>1. Suggestions(value, pos) = IF AfterUnknown(value, pos) THEN Nothing ELSE said
      BY DEF Suggestions
    <2> HIDE DEF context, unused, partial, offered, near
    <2>2. said.items = IF corrects THEN near ELSE offered
      OBVIOUS
    <2>3. Nothing.items = << >>
      BY DEF Nothing
    <2> HIDE DEF said
    <2>4. QED
      BY <2>1, <2>2, <2>3
  <1> HIDE DEF context, unused, partial, items
  <1>4. offered \in Seq(names)
    BY <1>1, <1>2, OfferedAreKnown
  <1>5. near \in Seq(ToSet(NamesOf(columns)))
    BY <1>2, CorrectionsAreColumns
  <1> HIDE DEF offered, near
  <1>6. context.kind \in {"depvar", "indepvar", "option_value"} => ToSet(NamesOf(columns)) \subseteq names
    BY DEF Known
  <1> HIDE DEF names
  <1>7. CASE items = << >>
    BY <1>7 DEF items, names, context
  <1>8. CASE items = offered
    BY <1>4, <1>8 DEF items, names, context
  <1>9. CASE items = near /\ context.kind \in {"depvar", "indepvar", "option_value"}
    <2>1. near \in Seq(names)
      BY <1>5, <1>6, <1>9
    <2>2. QED
      BY <1>9, <2>1 DEF items, names, context
  <1>10. QED
    BY <1>3, <1>7, <1>8, <1>9

-----------------------------------------------------------------------------
(* TypeOK is inductive.                                                    *)

LEMMA ColumnsAre == columns \in {<< >>, AllColumns} => columns \in Seq(Columns)
  <1>1. << >> \in Seq(Columns) /\ AllColumns \in Seq(Columns)
    BY NamesAreWords
  <1>2. QED
    BY <1>1

LEMMA Named ==
  /\ \A x \in Columns : x.name \in Seq(Letters)
  /\ \A x \in OptionNodes : x.name \in Seq(Letters)
  BY DEF Columns, OptionNodes

LEMMA KnownAreNames ==
  ASSUME NEW cols \in Seq(Columns), NEW context, NEW kind \in Kinds
  PROVE  Known(kind, context, cols) \subseteq Seq(Letters)
  <1>1. ToSet(CommandList) \subseteq Seq(Letters)
    BY NamesAreWords, SetOf
  <1>2. ToSet(NamesOf(cols)) \subseteq Seq(Letters)
    BY Named, NamesAre
  <1>3. ToSet(NamesOf(Options(context))) \subseteq Seq(Letters)
    BY OptionsAre, Named, NamesAre
  <1>4. ToSet(ValuesOf(context)) \subseteq Seq(Letters)
    BY OptionsAre, SetOf
  <1>5. QED
    BY <1>1, <1>2, <1>3, <1>4 DEF Known, Kinds

LEMMA PartialIs ==
  ASSUME NEW t \in Texts, NEW pos \in 0..Len(t)
  PROVE  getPartial(t, pos) \in Texts
  <1> DEFINE b == Before(t, pos)
             n == LastIndexOf(b, Marks)
  <1>1. b \in Seq(Letters \cup Marks) /\ Len(b) \in Nat
    BY BeforeCaret, Lengths
  <1>2. n \in 0..Len(b)
    BY <1>1, LastFacts
  <1>3. getPartial(t, pos) = SubSeq(b, n + 1, Len(b))
    BY DEF getPartial, After
  <1> HIDE DEF b, n
  <1>4. n + 1 \in Nat /\ n + 1 >= 1 /\ Len(b) \in 0..Len(b)
    BY <1>1, <1>2
  <1>5. QED
    BY <1>1, <1>3, <1>4, PartOf DEF Texts

LEMMA SuggestionsAre ==
  ASSUME columns \in Seq(Columns), NEW value \in Texts, NEW pos \in 0..Len(value)
  PROVE  /\ Suggestions(value, pos).items \in Seq(Seq(Letters))
         /\ Suggestions(value, pos).ghost \in Seq(Letters)
         /\ Suggestions(value, pos).correction \in Seq(Letters)
  <1> DEFINE context == getContext(value, pos)
             unused == Unused(columns, value, pos)
             partial == getPartial(value, pos)
             offered == getCompletions(context, unused, partial)
             near == getCorrections(partial, unused)
             corrects == /\ offered = << >> /\ near # << >> /\ Len(partial) >= MinCorrected
                         /\ context.kind \in {"depvar", "indepvar", "option_value"}
             said == [items |-> IF corrects THEN near ELSE offered,
                      ghost |-> getGhostText(offered, partial),
                      correction |-> IF corrects THEN near[1] ELSE << >>]
  <1>1. Suggestions(value, pos) = IF AfterUnknown(value, pos) THEN Nothing ELSE said
    BY DEF Suggestions
  <1>2. context.kind \in Kinds /\ unused \in Seq(ToSet(columns)) /\ partial \in Texts
    BY KindOf, UnusedAreColumns, PartialIs
  <1> HIDE DEF context, unused, partial
  <1>3. offered \in Seq(Seq(Letters))
    <2>1. offered \in Seq(Known(context.kind, context, columns))
      BY <1>2, OfferedAreKnown
    <2>2. Known(context.kind, context, columns) \subseteq Seq(Letters)
      BY <1>2, KnownAreNames
    <2> HIDE DEF offered
    <2>3. QED
      BY <2>1, <2>2
  <1>4. near \in Seq(Seq(Letters))
    <2>1. near \in Seq(ToSet(NamesOf(columns)))
      BY <1>2, CorrectionsAreColumns
    <2>2. ToSet(NamesOf(columns)) \subseteq Seq(Letters)
      BY Named, NamesAre
    <2> HIDE DEF near
    <2>3. QED
      BY <2>1, <2>2
  <1>5. getGhostText(offered, partial) \in Seq(Letters)
    <2>1. Len(partial) + 1 \in Nat /\ Len(partial) + 1 >= 1
      BY <1>2, Lengths
    <2> HIDE DEF offered
    <2>2. CASE partial = << >> \/ offered = << >>
      BY <2>2 DEF getGhostText
    <2>3. CASE ~(partial = << >> \/ offered = << >>)
      <3>1. getGhostText(offered, partial) = SubSeq(offered[1], Len(partial) + 1, Len(offered[1]))
        BY <2>3 DEF getGhostText, After
      <3>2. offered[1] \in Seq(Letters)
        BY <1>3, <2>3
      <3>3. Len(offered[1]) \in 0..Len(offered[1])
        BY <3>2
      <3>4. QED
        BY <2>1, <3>1, <3>2, <3>3, PartOf
    <2>4. QED
      BY <2>2, <2>3
  <1> HIDE DEF offered, near
  <1>6. corrects => near[1] \in Seq(Letters)
    BY <1>4
  <1>7. /\ said.items \in Seq(Seq(Letters)) /\ said.ghost \in Seq(Letters)
        /\ said.correction \in Seq(Letters)
    BY <1>3, <1>4, <1>5, <1>6
  <1>8. /\ Nothing.items \in Seq(Seq(Letters)) /\ Nothing.ghost \in Seq(Letters)
        /\ Nothing.correction \in Seq(Letters)
    BY DEF Nothing
  <1> HIDE DEF said
  <1>9. QED
    BY <1>1, <1>7, <1>8

(* The menu after an edit.                                                 *)
MenuOK ==
  /\ completions \in Seq(Seq(Letters)) /\ show \in BOOLEAN
  /\ selected \in Nat /\ (show => selected < Len(completions))
  /\ ghost \in Seq(Letters) /\ correction \in Seq(Letters)
LEMMA EditTypes ==
  ASSUME TypeOK, NEW value \in Texts, NEW pos \in 0..Len(value), Edit(value, pos)
  PROVE  input' \in Texts /\ caret' \in 0..Len(input') /\ MenuOK'
  <1> DEFINE say == Suggestions(value, pos)
  <1>1. columns \in Seq(Columns)
    BY ColumnsAre DEF TypeOK
  <1>2. say.items \in Seq(Seq(Letters)) /\ say.ghost \in Seq(Letters) /\ say.correction \in Seq(Letters)
    BY <1>1, SuggestionsAre
  <1>3. /\ input' = value /\ caret' = pos
        /\ completions' = say.items /\ selected' = 0 /\ show' = (say.items # << >>)
        /\ ghost' = say.ghost /\ correction' = say.correction
    BY DEF Edit
  <1> HIDE DEF say
  <1>4. show' \in BOOLEAN
    BY <1>3
  <1>5. show' => 0 < Len(completions')
    <2> DEFINE items == say.items
    <2>1. items \in Seq(Seq(Letters)) /\ completions' = items /\ (show' => items # << >>)
      BY <1>2, <1>3
    <2> HIDE DEF items
    <2>2. items # << >> => Len(items) > 0
      BY <2>1
    <2>3. QED
      BY <2>1, <2>2
  <1>6. QED
    BY <1>2, <1>3, <1>4, <1>5 DEF MenuOK

LEMMA Cuts ==
  ASSUME NEW t \in Texts, NEW pos \in 0..Len(t)
  PROVE  /\ Before(t, pos) \in Texts /\ After(t, pos) \in Texts
         /\ Len(Before(t, pos)) = pos /\ Len(After(t, pos)) = Len(t) - pos
         /\ After(t, pos + 1) \in Texts
  <1>1. t \in Seq(Letters \cup Marks) /\ Len(t) \in Nat
    BY Lengths
  <1>2. Before(t, pos) \in Texts /\ Len(Before(t, pos)) = pos
    BY BeforeCaret
  <1>3. /\ pos + 1 \in Nat /\ pos + 1 >= 1 /\ Len(t) \in 0..Len(t)
        /\ pos + 1 + 1 \in Nat /\ pos + 1 + 1 >= 1
    BY <1>1
  <1>4. After(t, pos) \in Texts /\ After(t, pos + 1) \in Texts
    BY <1>1, <1>3, PartOf DEF After, Texts
  <1>5. Len(After(t, pos)) = IF pos + 1 <= Len(t) THEN Len(t) - (pos + 1) + 1 ELSE 0
    BY <1>1, <1>3, PartOf DEF After
  <1>6. Len(After(t, pos)) = Len(t) - pos
    BY <1>1, <1>5
  <1>7. QED
    BY <1>2, <1>4, <1>6

LEMMA Joined ==
  ASSUME NEW t \in Texts, NEW u \in Texts
  PROVE  t \o u \in Texts /\ Len(t \o u) = Len(t) + Len(u)
  BY DEF Texts

LEMMA WordIsText == Seq(Letters) \subseteq Texts
  BY DEF Texts

-----------------------------------------------------------------------------
(* Accepting puts the item where the word before the caret stood.          *)

LEMMA ConcatIs ==
  ASSUME NEW S, NEW s \in Seq(S), NEW t \in Seq(S)
  PROVE  /\ s \o t \in Seq(S) /\ Len(s \o t) = Len(s) + Len(t)
         /\ \A k \in 1..Len(s) : (s \o t)[k] = s[k]
         /\ \A k \in 1..Len(t) : (s \o t)[Len(s) + k] = t[k]
  OBVIOUS

LEMMA Accepting ==
  ASSUME NEW t \in Texts, NEW pos \in 0..Len(t), NEW item \in Seq(Letters)
  PROVE  LET s == PartialStart(t, pos) - 1
             new == Before(t, s) \o item \o After(t, pos)
             at == s + Len(item)
         IN /\ new \in Texts /\ at \in 0..Len(new) /\ s \in Nat
            /\ AgreeTo(Before(t, pos), Before(new, at), s)
            /\ Len(Before(new, at)) = at
            /\ After(Before(new, at), s) = item
  <1> DEFINE b == Before(t, pos)
             s == LastIndexOf(b, Marks)
             head == Before(t, s)
             tail == After(t, pos)
             word == head \o item
             new == word \o tail
             at == s + Len(item)
             c == Before(new, at)
  <1>1. /\ b \in Texts /\ b \in Seq(Letters \cup Marks) /\ Len(b) = pos
        /\ \A k \in 1..pos : b[k] = t[k]
        /\ Len(t) \in Nat /\ pos \in Nat /\ pos <= Len(t)
    BY BeforeCaret, Lengths
  <1>2. PartialStart(t, pos) - 1 = s
    <2>1. s \in 0..Len(b)
      BY <1>1, LastFacts
    <2>2. PartialStart(t, pos) = s + 1
      BY DEF PartialStart, Marks
    <2> HIDE DEF s
    <2>3. QED
      BY <1>1, <2>1, <2>2
  <1>3. /\ s \in 0..pos
        /\ s > 0 => b[s] \in Marks
        /\ \A i \in (s + 1)..pos : b[i] \notin Marks
    BY <1>1, LastFacts
  <1> HIDE DEF b, s
  <1>4. s \in Nat /\ s \in 0..Len(t) /\ s <= pos
    BY <1>1, <1>3
  <1>5. /\ head \in Texts /\ Len(head) = s /\ \A k \in 1..s : head[k] = t[k]
        /\ tail \in Texts
    BY <1>4, BeforeCaret, Cuts
  <1>6. item \in Texts /\ Len(item) \in Nat /\ \A k \in 1..Len(item) : item[k] \in Letters
    BY WordIsText
  <1> HIDE DEF head, tail
  <1>7. /\ word \in Seq(Letters \cup Marks) /\ Len(word) = at
        /\ \A k \in 1..s : word[k] = head[k]
        /\ \A k \in 1..Len(item) : word[s + k] = item[k]
    <2>1. head \in Seq(Letters \cup Marks) /\ item \in Seq(Letters \cup Marks)
      BY <1>5, <1>6, Lengths
    <2>2. /\ word \in Seq(Letters \cup Marks) /\ Len(word) = Len(head) + Len(item)
          /\ \A k \in 1..Len(head) : word[k] = head[k]
          /\ \A k \in 1..Len(item) : word[Len(head) + k] = item[k]
      BY <2>1, ConcatIs
    <2> HIDE DEF word
    <2>3. QED
      BY <1>5, <2>2
  <1> HIDE DEF word
  <1>8. at \in Nat /\ Len(tail) \in Nat /\ tail \in Seq(Letters \cup Marks)
    BY <1>4, <1>5, <1>6, Lengths
  <1>9. /\ new \in Seq(Letters \cup Marks) /\ Len(new) = at + Len(tail)
        /\ \A k \in 1..at : new[k] = word[k]
    <2>1. word \in Seq(Letters \cup Marks) /\ tail \in Seq(Letters \cup Marks)
      BY <1>7, <1>8
    <2>2. /\ new \in Seq(Letters \cup Marks) /\ Len(new) = Len(word) + Len(tail)
          /\ \A k \in 1..Len(word) : new[k] = word[k]
      BY <2>1, ConcatIs
    <2> HIDE DEF new
    <2>3. QED
      BY <1>7, <2>2
  <1> HIDE DEF new
  <1>10. new \in Texts /\ at \in 0..Len(new)
    BY <1>8, <1>9 DEF Texts
  <1>11. c \in Texts /\ Len(c) = at /\ \A k \in 1..at : c[k] = new[k]
    BY <1>10, BeforeCaret
  <1> HIDE DEF c
  <1>12. \A k \in 1..s : b[k] = c[k]
    <2>1. ASSUME NEW k \in 1..s PROVE b[k] = c[k]
      <3>1. k \in 1..at /\ k \in 1..pos
        BY <1>4, <1>6, <1>1
      <3>2. QED
        BY <1>1, <1>5, <1>7, <1>9, <1>11, <3>1
    <2>2. QED
      BY <2>1
  <1>13. \A k \in 1..Len(item) : c[s + k] = item[k]
    <2>1. ASSUME NEW k \in 1..Len(item) PROVE c[s + k] = item[k]
      <3>1. s + k \in 1..at
        BY <1>4, <1>6
      <3>2. QED
        BY <1>7, <1>9, <1>11, <3>1
    <2>2. QED
      BY <2>1
  <1>14. \A k \in (s + 1)..at : c[k] \notin Marks
    <2>1. ASSUME NEW k \in (s + 1)..at PROVE c[k] \notin Marks
      <3>1. k - s \in 1..Len(item) /\ s + (k - s) = k
        BY <1>4, <1>6
      <3>2. c[k] \in Letters
        BY <1>6, <1>13, <3>1
      <3>3. QED
        BY <3>2, MarksAre
    <2>2. QED
      BY <2>1
  <1>15. AgreeTo(b, c, s)
    <2>1. s \in 0..Len(b) /\ s <= Len(c)
      BY <1>1, <1>3, <1>4, <1>6, <1>11
    <2>2. QED
      BY <1>1, <1>3, <1>11, <1>12, <1>14, <2>1 DEF AgreeTo
  <1>16. After(c, s) = item
    <2> DEFINE rest == After(c, s)
    <2>1. c \in Seq(Letters \cup Marks) /\ s + 1 \in Nat /\ s + 1 >= 1 /\ at \in 0..Len(c)
      BY <1>4, <1>8, <1>11, Lengths
    <2>2. /\ rest \in Seq(Letters \cup Marks)
          /\ Len(rest) = IF s + 1 <= at THEN at - (s + 1) + 1 ELSE 0
          /\ \A k \in 1..Len(rest) : rest[k] = c[s + 1 + k - 1]
      BY <1>11, <2>1, PartOf, SMTT(30) DEF After
    <2> HIDE DEF rest
    <2>3. Len(rest) = Len(item)
      BY <1>4, <1>6, <2>2
    <2>4. \A k \in 1..Len(item) : rest[k] = item[k]
      <3>1. ASSUME NEW k \in 1..Len(item) PROVE rest[k] = item[k]
        <4>1. k \in 1..Len(rest) /\ s + 1 + k - 1 = s + k
          BY <1>4, <1>6, <2>3
        <4>2. rest[k] = c[s + 1 + k - 1]
          BY <2>2, <4>1
        <4>3. QED
          BY <1>13, <4>1, <4>2
      <3>2. QED
        BY <3>1
    <2>5. item \in Seq(Letters \cup Marks)
      BY <1>6, Lengths
    <2>6. rest = item
      BY <2>2, <2>3, <2>4, <2>5, SeqEqual
    <2>7. QED
      BY <2>6 DEF rest
  <1>17. Before(t, s) \o item \o After(t, pos) = new
    BY DEF new, word, head, tail
  <1>18. QED
    BY <1>2, <1>4, <1>10, <1>11, <1>15, <1>16, <1>17 DEF b, c

-----------------------------------------------------------------------------
(* Every step keeps the types.                                             *)

Rest == columns \in {<< >>, AllColumns}
Past == history \in Seq(Texts) /\ historyIdx \in -1..(Len(history) - 1)
Line == input \in Texts /\ caret \in 0..Len(input)
Running == running \in Seq(Texts)
LEMMA TypeParts == TypeOK <=> Line /\ Rest /\ MenuOK /\ Past /\ Running
  BY DEF TypeOK, Line, Rest, MenuOK, Past, Running

(* A menu with nothing in it.                                              *)
LEMMA MenuGone ==
  (/\ show' = FALSE /\ completions' = << >> /\ selected' = 0 /\ correction' = << >>
   /\ ghost' \in Seq(Letters))
  => MenuOK'
  <1> SUFFICES ASSUME show' = FALSE, completions' = << >>, selected' = 0, correction' = << >>,
                      ghost' \in Seq(Letters)
               PROVE  MenuOK'
    OBVIOUS
  <1>1. completions' \in Seq(Seq(Letters)) /\ correction' \in Seq(Letters)
    OBVIOUS
  <1>2. show' \in BOOLEAN /\ ~show' /\ selected' \in Nat
    OBVIOUS
  <1>3. QED
    BY <1>1, <1>2 DEF MenuOK
LEMMA HideTypes == MenuOK /\ Hide /\ (ghost' = ghost \/ ghost' = << >>) => MenuOK'
  <1> SUFFICES ASSUME MenuOK, Hide, ghost' = ghost \/ ghost' = << >> PROVE MenuOK'
    OBVIOUS
  <1>1. ghost \in Seq(Letters) /\ << >> \in Seq(Letters)
    BY DEF MenuOK
  <1>2. ghost' \in Seq(Letters)
    BY <1>1
  <1>3. show' = FALSE /\ completions' = << >> /\ selected' = 0 /\ correction' = << >>
    BY DEF Hide
  <1>4. QED
    BY <1>2, <1>3, MenuGone

LEMMA TrimTypes == \A t \in Texts : Trim(t) \in Texts
  <1> SUFFICES ASSUME NEW t \in Texts PROVE Trim(t) \in Texts
    OBVIOUS
  <1> DEFINE written == {i \in DOMAIN t : t[i] # Space}
  <1>1. t \in Seq(Letters \cup Marks) /\ Len(t) \in Nat /\ DOMAIN t = 1..Len(t)
    BY Lengths
  <1>2. CASE written = {}
    BY <1>2 DEF Trim, Texts
  <1>3. CASE written # {}
    <2>1. written \in SUBSET Nat /\ written \in SUBSET (0..Len(t))
      BY <1>1
    <2>2. written \subseteq 1..Len(t)
      BY <1>1
    <2>3. Trim(t) = SubSeq(t, Min(written), Max(written))
      BY <1>3 DEF Trim
    <2> HIDE DEF written
    <2>4. Min(written) \in written
      BY <1>3, <2>1, LeastOf
    <2>5. Max(written) \in written
      BY <1>1, <1>3, <2>1, GreatestOf
    <2>6. Min(written) \in 1..Len(t) /\ Max(written) \in 1..Len(t)
      BY <2>2, <2>4, <2>5
    <2>7. QED
      BY <1>1, <2>3, <2>6, PartOf DEF Texts
  <1>4. QED
    BY <1>2, <1>3

LEMMA SubmitTypes ==
  ASSUME TypeOK, NEW command \in Texts, finishSubmit(command)
  PROVE  Line' /\ Rest' /\ MenuOK' /\ Past'
  <1>1. history \in Seq(Texts) /\ Len(history) \in Nat
    BY DEF TypeOK
  <1> DEFINE all == <<command>> \o history
             kept == Min({MaxHistory, Len(history) + 1})
  <1>2. all \in Seq(Texts) /\ Len(all) = Len(history) + 1
    BY <1>1
  <1>3. kept \in 0..(Len(history) + 1)
    <2>1. {MaxHistory, Len(history) + 1} \in SUBSET Nat
      BY <1>1, BoundsAreNumbers
    <2>2. kept \in {MaxHistory, Len(history) + 1} /\ \A n \in {MaxHistory, Len(history) + 1} : kept <= n
      BY <2>1, LeastOf
    <2> HIDE DEF kept
    <2>3. QED
      BY <1>1, <2>1, <2>2
  <1>4. history' = SubSeq(all, 1, kept) /\ historyIdx' = -1
    BY DEF finishSubmit, Before
  <1> HIDE DEF all, kept
  <1>5. history' \in Seq(Texts)
    BY <1>2, <1>3, <1>4, PartOf
  <1>6. Past'
    <2>1. Len(history') \in Nat
      BY <1>5
    <2>2. QED
      BY <1>4, <1>5, <2>1 DEF Past
  <1>7. /\ input' = << >> /\ caret' = 0 /\ ghost' = << >>
        /\ completions' = << >> /\ selected' = 0 /\ show' = FALSE /\ correction' = << >>
        /\ columns' = columns
    BY DEF finishSubmit, clearInput
  <1>8. Line' /\ MenuOK'
    <2>1. ghost' \in Seq(Letters)
      BY <1>7
    <2>2. MenuOK'
      BY <1>7, <2>1, MenuGone
    <2>3. input' \in Texts
      BY <1>7 DEF Texts
    <2>4. Len(input') = 0
      BY <1>7
    <2>5. caret' \in 0..Len(input')
      BY <1>7, <2>4
    <2>6. QED
      BY <2>2, <2>3, <2>5 DEF Line
  <1>9. Rest'
    BY <1>7 DEF Rest, TypeOK
  <1>10. QED
    BY <1>6, <1>8, <1>9

LEMMA ApplyTypes ==
  ASSUME TypeOK, NEW item \in Seq(Letters), Apply(item)
  PROVE  TypeOK'
  <1> DEFINE s == PartialStart(input, caret) - 1
             new == Before(input, s) \o item \o After(input, caret)
             at == s + Len(item)
  <1>1. input \in Texts /\ caret \in 0..Len(input)
    BY DEF TypeOK
  <1>2. new \in Texts /\ at \in 0..Len(new)
    BY <1>1, Accepting
  <1>3. input' = new /\ caret' = at
    BY DEF Apply
  <1> HIDE DEF new, at
  <1>4. Line'
    BY <1>2, <1>3 DEF Line
  <1>5. MenuOK'
    BY TypeParts, HideTypes DEF Apply
  <1>6. Rest' /\ Past' /\ Running'
    BY TypeParts DEF Apply, Rest, Past, Running, past
  <1>7. QED
    BY <1>4, <1>5, <1>6, TypeParts DEF TypeOK, Line, Rest, MenuOK, Past, Running

LEMMA ItemsAre ==
  ASSUME TypeOK
  PROVE  /\ show => completions[selected + 1] \in Seq(Letters) /\ selected + 1 \in DOMAIN completions
         /\ \A i \in DOMAIN completions : completions[i] \in Seq(Letters)
  <1>1. completions \in Seq(Seq(Letters)) /\ selected \in Nat /\ (show => selected < Len(completions))
    BY DEF TypeOK
  <1>2. show => selected + 1 \in 1..Len(completions)
    BY <1>1
  <1>3. QED
    BY <1>1, <1>2

LEMMA EditStep ==
  ASSUME TypeOK, NEW value \in Texts, NEW pos \in 0..Len(value), Edit(value, pos),
         columns' = columns, running' = running, Past'
  PROVE  TypeOK'
  <1>1. Line' /\ MenuOK'
    BY EditTypes DEF Line
  <1>2. Rest' /\ Running'
    BY TypeParts DEF Rest, Running
  <1>3. QED
    BY <1>1, <1>2 DEF TypeOK, Line, Rest, MenuOK, Past, Running

LEMMA PastStays == TypeOK /\ past' = past => Past'
  BY DEF TypeOK, Past, past

LEMMA TypeOfType ==
  ASSUME TypeOK, NEW c \in Letters \cup Marks, Type(c)
  PROVE  TypeOK'
  <1> DEFINE head == Before(input, caret)
             tail == After(input, caret)
             front == head \o <<c>>
             value == front \o tail
  <1>1. input \in Texts /\ caret \in 0..Len(input)
    BY DEF TypeOK
  <1>2. head \in Texts /\ Len(head) = caret /\ tail \in Texts /\ caret \in Nat /\ Len(tail) \in Nat
    <2>1. head \in Texts /\ Len(head) = caret /\ tail \in Texts
      BY <1>1, Cuts
    <2> HIDE DEF tail
    <2>2. Len(tail) \in Nat
      BY <2>1, Lengths
    <2>3. QED
      BY <1>1, <2>1, <2>2
  <1>3. <<c>> \in Texts /\ Len(<<c>>) = 1
    BY DEF Texts
  <1>4. Type(c) => Edit(value, caret + 1) /\ columns' = columns /\ past' = past /\ running' = running
    BY DEF Type
  <1> HIDE DEF head, tail
  <1>5. front \in Texts /\ Len(front) = caret + 1
    BY <1>2, <1>3, Joined
  <1> HIDE DEF front
  <1>6. value \in Texts /\ Len(value) = caret + 1 + Len(tail)
    BY <1>2, <1>5, Joined
  <1> HIDE DEF value
  <1>7. caret + 1 \in 0..Len(value)
    BY <1>2, <1>6
  <1>8. QED
    BY <1>4, <1>6, <1>7, EditStep, PastStays

LEMMA ErasedTypes ==
  ASSUME NEW t \in Texts, NEW from \in 0..Len(t), NEW to \in Int, to = from \/ to = from + 1
  PROVE  /\ Before(t, from) \o After(t, to) \in Texts
         /\ from \in 0..Len(Before(t, from) \o After(t, to))
  <1> DEFINE head == Before(t, from)
             tail == After(t, to)
             value == head \o tail
  <1>1. head \in Texts /\ Len(head) = from /\ tail \in Texts
    BY Cuts
  <1> HIDE DEF head, tail
  <1>2. value \in Texts /\ Len(value) = from + Len(tail) /\ Len(tail) \in Nat
    BY <1>1, Joined, Lengths
  <1> HIDE DEF value
  <1>3. from \in 0..Len(value)
    BY <1>2
  <1>4. QED
    BY <1>2, <1>3 DEF value, head, tail

LEMMA TypeOfErasing ==
  ASSUME TypeOK, Backspace \/ Delete
  PROVE  TypeOK'
  <1>1. input \in Texts /\ caret \in 0..Len(input) /\ Len(input) \in Nat
    BY Lengths DEF TypeOK
  <1>2. columns' = columns /\ past' = past /\ running' = running
    BY DEF Backspace, Delete
  <1>3. CASE Backspace /\ caret > 0
    <2>1. caret - 1 \in 0..Len(input) /\ caret \in Int /\ caret = caret - 1 + 1
      BY <1>1, <1>3
    <2>2. /\ Before(input, caret - 1) \o After(input, caret) \in Texts
          /\ caret - 1 \in 0..Len(Before(input, caret - 1) \o After(input, caret))
      BY <1>1, <2>1, ErasedTypes
    <2>3. Edit(Before(input, caret - 1) \o After(input, caret), caret - 1)
      BY <1>3 DEF Backspace
    <2>4. QED
      BY <1>2, <2>2, <2>3, EditStep, PastStays
  <1>4. CASE Backspace /\ ~(caret > 0)
    <2>1. Edit(input, caret)
      BY <1>4 DEF Backspace
    <2>2. QED
      BY <1>1, <1>2, <2>1, EditStep, PastStays
  <1>5. CASE Delete
    <2>1. caret + 1 \in Int
      BY <1>1
    <2>2. /\ Before(input, caret) \o After(input, caret + 1) \in Texts
          /\ caret \in 0..Len(Before(input, caret) \o After(input, caret + 1))
      BY <1>1, <2>1, ErasedTypes
    <2>3. Edit(Before(input, caret) \o After(input, caret + 1), caret)
      BY <1>5 DEF Delete
    <2>4. QED
      BY <1>2, <2>2, <2>3, EditStep, PastStays
  <1>6. QED
    BY <1>3, <1>4, <1>5

LEMMA Wraps == \A a \in Int, n \in Nat : n > 0 => a % n \in Nat /\ a % n < n
  OBVIOUS

LEMMA TypeOfMenu ==
  ASSUME TypeOK, MoveCaret \/ Select \/ Escape \/ Blurred
  PROVE  TypeOK'
  <1>1. Line /\ Rest /\ MenuOK /\ Past /\ Running
    BY TypeParts
  <1>2. CASE MoveCaret
    <2>1. correction' = << >> /\ << >> \in Seq(Letters)
      BY <1>2 DEF MoveCaret
    <2>2. MenuOK'
      BY <1>1, <1>2, <2>1 DEF MenuOK, MoveCaret
    <2>3. Line'
      BY <1>1, <1>2 DEF Line, MoveCaret
    <2>4. Rest' /\ Past' /\ Running'
      BY <1>1, <1>2 DEF MoveCaret, Rest, Past, Running, past
    <2>5. QED
      BY <2>2, <2>3, <2>4 DEF TypeOK, Line, Rest, MenuOK, Past, Running
  <1>3. CASE Select
    <2> DEFINE n == Len(completions)
    <2>1. n \in Nat /\ n > 0 /\ selected \in Nat
      BY <1>1, <1>3 DEF MenuOK, Select
    <2>2. PICK step \in {1, -1} : selected' = (selected + step) % n
      BY <1>3 DEF Select
    <2>3. completions' = completions /\ show' = show /\ ghost' = ghost /\ correction' = correction
      BY <1>3 DEF Select
    <2> HIDE DEF n
    <2>4. selected + step \in Int
      BY <2>1
    <2>5. selected' \in Nat /\ selected' < n
      BY <2>1, <2>2, <2>4, Wraps
    <2>6. MenuOK'
      BY <1>1, <2>3, <2>5 DEF MenuOK, n
    <2>7. Line' /\ Rest' /\ Past' /\ Running'
      BY <1>1, <1>3 DEF Select, Line, Rest, Past, Running, past, text
    <2>8. QED
      BY <2>6, <2>7 DEF TypeOK, Line, Rest, MenuOK, Past, Running
  <1>4. CASE Escape \/ Blurred
    <2>1. Hide /\ ghost' = ghost /\ UNCHANGED <<text, columns, past, running>>
      BY <1>4 DEF Escape, Blurred
    <2>2. MenuOK'
      BY <1>1, <2>1, HideTypes
    <2>3. Line' /\ Rest' /\ Past' /\ Running'
      BY <1>1, <2>1 DEF Line, Rest, Past, Running, past, text
    <2>4. QED
      BY <2>2, <2>3 DEF TypeOK, Line, Rest, MenuOK, Past, Running
  <1>5. QED
    BY <1>2, <1>3, <1>4

LEMMA TypeOfGhost ==
  ASSUME TypeOK, AcceptGhost
  PROVE  TypeOK'
  <1> DEFINE value == input \o ghost
             pos == Len(input) + Len(ghost)
  <1>1. input \in Texts /\ ghost \in Texts
    BY WordIsText DEF TypeOK
  <1>2. value \in Texts /\ Len(value) = pos /\ Len(input) \in Nat /\ Len(ghost) \in Nat
    BY <1>1, Joined, Lengths
  <1>3. Edit(value, pos) /\ columns' = columns /\ past' = past /\ running' = running
    BY DEF AcceptGhost
  <1> HIDE DEF value
  <1>4. pos \in 0..Len(value)
    BY <1>2
  <1> HIDE DEF pos
  <1>5. QED
    BY <1>2, <1>3, <1>4, EditStep, PastStays

LEMMA RecallTypes ==
  ASSUME TypeOK, NEW command \in Texts, NEW idx \in -1..(Len(history) - 1), Recall(idx, command)
  PROVE  TypeOK'
  <1>1. Len(command) \in 0..Len(command)
    BY Lengths
  <1>2. Past'
    BY DEF TypeOK, Past, Recall
  <1>3. Edit(command, Len(command)) /\ columns' = columns /\ running' = running
    BY DEF Recall
  <1>4. QED
    BY <1>1, <1>2, <1>3, EditStep

LEMMA TypeOfHistory ==
  ASSUME TypeOK, HistoryUp \/ HistoryDown
  PROVE  TypeOK'
  <1>1. history \in Seq(Texts) /\ Len(history) \in Nat /\ historyIdx \in -1..(Len(history) - 1)
    BY DEF TypeOK
  <1>2. CASE HistoryUp
    <2>1. historyIdx + 1 \in -1..(Len(history) - 1) /\ historyIdx + 2 \in 1..Len(history)
      BY <1>1, <1>2 DEF HistoryUp
    <2>2. history[historyIdx + 2] \in Texts
      BY <1>1, <2>1
    <2>3. Recall(historyIdx + 1, history[historyIdx + 2])
      BY <1>2 DEF HistoryUp
    <2>4. QED
      BY <2>1, <2>2, <2>3, RecallTypes
  <1>3. CASE HistoryDown /\ historyIdx <= 0
    <2>1. Recall(-1, << >>)
      BY <1>3 DEF HistoryDown
    <2>2. << >> \in Texts /\ -1 \in -1..(Len(history) - 1)
      BY <1>1 DEF Texts
    <2>3. QED
      BY <2>1, <2>2, RecallTypes
  <1>4. CASE HistoryDown /\ ~(historyIdx <= 0)
    <2>1. historyIdx - 1 \in -1..(Len(history) - 1) /\ historyIdx \in 1..Len(history)
      BY <1>1, <1>4
    <2>2. history[historyIdx] \in Texts
      BY <1>1, <2>1
    <2>3. Recall(historyIdx - 1, history[historyIdx])
      BY <1>4 DEF HistoryDown
    <2>4. QED
      BY <2>1, <2>2, <2>3, RecallTypes
  <1>5. QED
    BY <1>2, <1>3, <1>4

LEMMA TypeOfCommands ==
  ASSUME TypeOK, Enter \/ EnterAndWait \/ Finish
  PROVE  TypeOK'
  <1>1. Line /\ Rest /\ MenuOK /\ Past /\ Running
    BY TypeParts
  <1>2. Trim(input) \in Texts
    BY <1>1, TrimTypes DEF Line
  <1>3. CASE Enter
    <2>1. finishSubmit(Trim(input)) /\ running' = running
      BY <1>3 DEF Enter
    <2>2. Line' /\ Rest' /\ MenuOK' /\ Past'
      BY <1>2, <2>1, SubmitTypes
    <2>3. Running'
      BY <1>1, <2>1 DEF Running
    <2>4. QED
      BY <2>2, <2>3 DEF TypeOK, Line, Rest, MenuOK, Past, Running
  <1>4. CASE EnterAndWait
    <2>1. running' = Append(running, Trim(input))
      BY <1>4 DEF EnterAndWait
    <2>2. Running'
      BY <1>1, <1>2, <2>1 DEF Running
    <2>3. Line' /\ Rest' /\ MenuOK' /\ Past'
      BY <1>1, <1>4 DEF EnterAndWait, Line, Rest, MenuOK, Past, past, text, menu
    <2>4. QED
      BY <2>2, <2>3 DEF TypeOK, Line, Rest, MenuOK, Past, Running
  <1>5. CASE Finish
    <2>1. PICK i \in DOMAIN running :
            /\ running' = RemoveAt(running, i)
            /\ finishSubmit(running[i]) \/ UNCHANGED <<text, columns, menu, past>>
      BY <1>5 DEF Finish
    <2>2. i \in 1..Len(running) /\ Len(running) \in Nat /\ running \in Seq(Texts)
      BY <1>1 DEF Running
    <2>3. running[i] \in Texts
      BY <2>2
    <2>4. Running'
      <3> DEFINE front == SubSeq(running, 1, i - 1)
                 back == SubSeq(running, i + 1, Len(running))
      <3>1. /\ i - 1 \in 0..Len(running) /\ i + 1 \in Nat /\ i + 1 >= 1
            /\ Len(running) \in 0..Len(running) /\ 1 \in Nat
        BY <2>2
      <3>2. front \in Seq(Texts) /\ back \in Seq(Texts)
        BY <2>2, <3>1, PartOf
      <3>3. running' = front \o back
        BY <2>1 DEF RemoveAt
      <3> HIDE DEF front, back
      <3>4. running' \in Seq(Texts)
        BY <3>2, <3>3, ConcatIs
      <3>5. QED
        BY <3>4 DEF Running
    <2>5. CASE finishSubmit(running[i])
      <3>1. Line' /\ Rest' /\ MenuOK' /\ Past'
        BY <2>3, <2>5, SubmitTypes
      <3>2. QED
        BY <2>4, <3>1 DEF TypeOK, Line, Rest, MenuOK, Past, Running
    <2>6. CASE UNCHANGED <<text, columns, menu, past>>
      <3>1. Line' /\ Rest' /\ MenuOK' /\ Past'
        BY <1>1, <2>6 DEF Line, Rest, MenuOK, Past, past, text, menu
      <3>2. QED
        BY <2>4, <3>1 DEF TypeOK, Line, Rest, MenuOK, Past, Running
    <2>7. QED
      BY <2>1, <2>5, <2>6
  <1>6. QED
    BY <1>3, <1>4, <1>5

LEMMA TypeStep == TypeOK /\ [Next]_vars => TypeOK'
  <1> SUFFICES ASSUME TypeOK, [Next]_vars PROVE TypeOK'
    OBVIOUS
  <1>1. ASSUME NEW c \in Letters \cup Marks, Type(c) PROVE TypeOK'
    BY <1>1, TypeOfType
  <1>2. CASE Backspace \/ Delete
    BY <1>2, TypeOfErasing
  <1>3. CASE MoveCaret \/ Select \/ Escape \/ Blurred
    BY <1>3, TypeOfMenu
  <1>4. CASE Accept
    <2>1. completions[selected + 1] \in Seq(Letters) /\ Apply(completions[selected + 1])
      BY <1>4, ItemsAre DEF Accept
    <2>2. QED
      BY <2>1, ApplyTypes
  <1>5. CASE ClickItem
    <2>1. PICK i \in DOMAIN completions : Apply(completions[i])
      BY <1>5 DEF ClickItem
    <2>2. completions[i] \in Seq(Letters)
      BY ItemsAre
    <2>3. QED
      BY <2>1, <2>2, ApplyTypes
  <1>6. CASE AcceptGhost
    BY <1>6, TypeOfGhost
  <1>7. CASE HistoryUp \/ HistoryDown
    BY <1>7, TypeOfHistory
  <1>8. CASE Enter \/ EnterAndWait \/ Finish
    BY <1>8, TypeOfCommands
  <1>9. CASE NewColumns
    BY <1>9 DEF NewColumns, TypeOK, text, menu, past
  <1>10. CASE UNCHANGED vars
    BY <1>10 DEF vars, TypeOK, text, menu, past
  <1>11. QED
    BY <1>1, <1>2, <1>3, <1>4, <1>5, <1>6, <1>7, <1>8, <1>9, <1>10 DEF Next

(* Whatever is typed, accepted, recalled or answered late, the caret stays *)
(* within the text, the history's place within the history, and an item    *)
(* that a shown menu selects is one of its items.                          *)
THEOREM TypeCorrect == Spec => []TypeOK
  <1>1. Init => TypeOK
    <2> SUFFICES ASSUME Init PROVE TypeOK
      OBVIOUS
    <2>1. /\ input = << >> /\ caret = 0 /\ columns = << >>
          /\ completions = << >> /\ selected = 0 /\ show = FALSE
          /\ ghost = << >> /\ correction = << >>
          /\ history = << >> /\ historyIdx = -1
          /\ running = << >>
      BY DEF Init
    <2>2. Line /\ Rest /\ Running
      BY <2>1 DEF Line, Rest, Running, Texts
    <2>3. Past
      BY <2>1 DEF Past
    <2>4. completions \in Seq(Seq(Letters)) /\ ghost \in Seq(Letters) /\ correction \in Seq(Letters)
      BY <2>1
    <2>5. MenuOK
      BY <2>1, <2>4 DEF MenuOK
    <2>6. QED
      BY <2>2, <2>3, <2>5, TypeParts
  <1>2. QED
    BY <1>1, TypeStep, PTL DEF Spec

-----------------------------------------------------------------------------
(* What was known where it was suggested is recognized where it is put.    *)

LEMMA SameValues ==
  ASSUME NEW x, NEW y, y.option = x.option, Options(y) = Options(x)
  PROVE  ValuesOf(y) = ValuesOf(x)
  <1>1. {o \in ToSet(Options(y)) : o.name = y.option} = {o \in ToSet(Options(x)) : o.name = x.option}
    OBVIOUS
  <1>2. OptionNode(y) = OptionNode(x)
    BY <1>1 DEF OptionNode
  <1>3. QED
    BY <1>2 DEF ValuesOf

LEMMA RecognizedIf ==
  ASSUME NEW value, NEW pos, NEW token, NEW y,
         y = getContext(value, pos),
         token = After(Before(value, pos), TokenStart(value, pos) - 1),
         \/ token = << >>
         \/ y.kind = "verb" /\ token \in ToSet(CommandList)
         \/ y.kind \in {"depvar", "indepvar", "option_value"} /\ token \in ColumnNames
         \/ y.kind = "option_value" /\ token \in ToSet(ValuesOf(y))
         \/ y.kind = "option" /\ token \in ToSet(NamesOf(Options(y)))
  PROVE  isRecognizedToken(value, pos)
  BY DEF isRecognizedToken

LEMMA Recognizes ==
  ASSUME NEW t \in Texts, NEW pos \in 0..Len(t), NEW item \in Seq(Letters),
         item \in Known(getContext(t, pos).kind, getContext(t, pos), columns)
  PROVE  LET s == PartialStart(t, pos) - 1
         IN isRecognizedToken(Before(t, s) \o item \o After(t, pos), s + Len(item))
  <1> DEFINE s == PartialStart(t, pos) - 1
             new == Before(t, s) \o item \o After(t, pos)
             at == s + Len(item)
             b == Before(t, pos)
             c == Before(new, at)
             x == getContext(t, pos)
             y == getContext(new, at)
  <1>1. /\ new \in Texts /\ at \in 0..Len(new) /\ s \in Nat
        /\ AgreeTo(b, c, s) /\ Len(c) = at /\ After(c, s) = item
    BY Accepting
  <1>2. item \in Known(x.kind, x, columns) /\ x.kind \in Kinds
    BY KindOf
  <1>3. LastIndexOf(c, Marks) = s
    BY <1>1, PartAtMark
  <1>4. TokenStart(new, at) - 1 = s
    BY <1>1, <1>3 DEF TokenStart
  <1>5. After(Before(new, at), TokenStart(new, at) - 1) = item
    BY <1>1, <1>4
  <1> SUFFICES isRecognizedToken(new, at)
    OBVIOUS
  <1> HIDE DEF s, new, at, x, c, b, y
  <1>6. CASE item = << >>
    BY <1>5, <1>6, RecognizedIf
  <1>7. CASE item # << >>
    <2>1. s < Len(c)
      <3>1. Len(item) \in Nat /\ Len(item) > 0
        BY <1>7
      <3>2. QED
        BY <1>1, <3>1 DEF at
    <2>2. Completes(b, c, s)
      BY <1>1, <2>1 DEF Completes
    <2>3. /\ x.kind = "verb" => y.kind = "verb"
          /\ x.kind \in {"depvar", "indepvar"} => y.kind \in {"depvar", "indepvar"}
          /\ x.kind \in {"option", "option_value"} =>
               y.kind = x.kind /\ y.option = x.option /\ Options(y) = Options(x)
      BY <1>1, <2>2, SameContext DEF b, c, x, y
    <2>4. CASE x.kind = "verb"
      <3>1. item \in ToSet(CommandList)
        BY <1>2, <2>4 DEF Known
      <3>2. QED
        BY <1>5, <2>3, <2>4, <3>1, RecognizedIf DEF y
    <2>5. CASE x.kind \in {"depvar", "indepvar"}
      <3>1. item \in ColumnNames
        BY <1>2, <2>5 DEF Known, ColumnNames
      <3>2. QED
        BY <1>5, <2>3, <2>5, <3>1, RecognizedIf DEF y
    <2>6. CASE x.kind = "option"
      <3>1. item \in ToSet(NamesOf(Options(x)))
        BY <1>2, <2>6 DEF Known
      <3>2. y.kind = "option" /\ item \in ToSet(NamesOf(Options(y)))
        BY <2>3, <2>6, <3>1
      <3>3. QED
        BY <1>5, <3>2, RecognizedIf DEF y
    <2>7. CASE x.kind = "option_value"
      <3>1. item \in ToSet(ValuesOf(x)) \cup ColumnNames
        BY <1>2, <2>7 DEF Known, ColumnNames
      <3>2. y.kind = "option_value" /\ ValuesOf(y) = ValuesOf(x)
        BY <2>3, <2>7, SameValues
      <3>3. item \in ToSet(ValuesOf(y)) \/ item \in ColumnNames
        BY <3>1, <3>2
      <3>4. QED
        BY <1>5, <3>2, <3>3, RecognizedIf DEF y
    <2>8. QED
      BY <1>2, <2>4, <2>5, <2>6, <2>7 DEF Kinds
  <1>8. QED
    BY <1>6, <1>7

LEMMA PutIsRecognized ==
  ASSUME TypeOK, completions = Suggestions(input, caret).items,
         NEW i \in DOMAIN completions, Apply(completions[i])
  PROVE  isRecognizedToken(input', caret')
  <1> DEFINE item == completions[i]
             s == PartialStart(input, caret) - 1
  <1>1. input \in Texts /\ caret \in 0..Len(input) /\ columns \in Seq(Columns)
    BY ColumnsAre DEF TypeOK
  <1>2. completions \in Seq(Known(getContext(input, caret).kind, getContext(input, caret), columns))
    BY <1>1, SuggestedAreKnown
  <1>3. item \in Known(getContext(input, caret).kind, getContext(input, caret), columns)
    BY <1>2
  <1>4. item \in Seq(Letters)
    BY ItemsAre
  <1> HIDE DEF item
  <1>5. isRecognizedToken(Before(input, s) \o item \o After(input, caret), s + Len(item))
    BY <1>1, <1>3, <1>4, Recognizes
  <1>6. input' = Before(input, s) \o item \o After(input, caret) /\ caret' = s + Len(item)
    BY DEF Apply, item
  <1>7. QED
    BY <1>5, <1>6

(* A completion that is up to date turns the word before the caret into a  *)
(* name of the line, wherever the caret is and whatever stands behind it:  *)
(* what the menu offers, where the accepted item is put and what is looked *)
(* up afterwards agree on where a word starts and on what is typed there.  *)
THEOREM WhatIsAcceptedIsKnown == Spec => AcceptedIsRecognized
  <1>1. TypeOK /\ [Next]_vars =>
          [(Accept \/ ClickItem) /\ completions = Suggestions(input, caret).items
             => isRecognizedToken(input', caret')]_vars
    <2> SUFFICES ASSUME TypeOK, Accept \/ ClickItem,
                        completions = Suggestions(input, caret).items
                 PROVE  isRecognizedToken(input', caret')
      OBVIOUS
    <2>1. PICK i \in DOMAIN completions : Apply(completions[i])
      BY ItemsAre DEF Accept, ClickItem
    <2>2. QED
      BY <2>1, PutIsRecognized
  <1>2. QED
    BY <1>1, TypeCorrect, PTL DEF Spec, AcceptedIsRecognized

=============================================================================
