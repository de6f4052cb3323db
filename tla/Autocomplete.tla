---------------------------- MODULE Autocomplete ----------------------------
(***************************************************************************)
(* services/autocomplete.ts: what completion makes of a text and a caret.  *)
(*                                                                         *)
(* Where a word starts and what it is a prefix of decides everything here, *)
(* so a text is a sequence of letters and of the marks " ", "," and "(".   *)
(* The mark ")" is left out: no option of the model is ever closed.        *)
(***************************************************************************)
EXTENDS Integers, Sequences, FiniteSets, SequencesExt

CONSTANTS
  CommandList,   \* the verbs, a sequence of names, shorter ones first
  Grammar,       \* verb -> [depvar, choices, options]: choices are the values
                 \* of its words, options a sequence of [name, required, values]
  Categorical    \* options for which categories are offered first

Space == " "
Comma == ","
Paren == "("
Marks == {Space, Comma, Paren}

-----------------------------------------------------------------------------
Before(text, pos) == SubSeq(text, 1, pos)
After(text, pos) == SubSeq(text, pos + 1, Len(text))
LastIndexOf(text, marks) == Max({0} \cup {i \in DOMAIN text : text[i] \in marks})
FirstIndexOf(text, marks) ==
  LET at == {i \in DOMAIN text : text[i] \in marks} IN IF at = {} THEN 0 ELSE Min(at)

(* The words of a text that spaces separate: where each begins, and the    *)
(* first one.                                                              *)
WordStarts(text) ==
  {i \in DOMAIN text : text[i] # Space /\ (i > 1 => text[i - 1] = Space)}
WordFrom(text, i) ==
  LET rest == After(text, i - 1)
      end == FirstIndexOf(rest, {Space})
  IN IF end = 0 THEN rest ELSE Before(rest, end - 1)
FirstWord(text) ==
  LET starts == WordStarts(text) IN IF starts = {} THEN << >> ELSE WordFrom(text, Min(starts))

HasGrammar(verb) == verb \in ToSet(CommandList)

(* Array.prototype.filter.                                                 *)
Among(items, wanted) ==
  LET kept[n \in 0..Len(items)] ==
        IF n = 0 THEN << >>
        ELSE IF items[n] \in wanted THEN Append(kept[n - 1], items[n]) ELSE kept[n - 1]
  IN kept[Len(items)]

(* getContext: what is being typed before the caret; option is the name    *)
(* before the first parenthesis after the comma.                           *)
Context(kind, verb, option) == [kind |-> kind, verb |-> verb, option |-> option]
OpenOption(text) ==   \* /(\w+)\(([^)]*)$/
  LET opened == {i \in DOMAIN text : text[i] = Paren /\ i > 1 /\ text[i - 1] \notin Marks}
      name == Before(text, Min(opened) - 1)
  IN IF opened = {} THEN << >> ELSE After(name, LastIndexOf(name, Marks))
getContext(text, pos) ==
  LET before == Before(text, pos)
      words == WordStarts(before)
      comma == FirstIndexOf(before, {Comma})
      verb == FirstWord(before)
      option == OpenOption(After(before, comma))
  IN IF \/ words = {}
        \/ comma = 0 /\ before[pos] # Space /\ Cardinality(words) = 1
     THEN Context("verb", << >>, << >>)
     ELSE IF comma > 0
     THEN IF option # << >> THEN Context("option_value", verb, option)
          ELSE Context("option", verb, << >>)
     ELSE IF ~HasGrammar(verb) THEN Context("verb", << >>, << >>)
     ELSE IF Grammar[verb].depvar /\ WordStarts(After(before, Len(verb))) = {}
     THEN Context("depvar", verb, << >>)
     ELSE Context("indepvar", verb, << >>)

(* getPartial: the word before the caret.                                  *)
getPartial(text, pos) == After(Before(text, pos), LastIndexOf(Before(text, pos), Marks))

(* getUsedVariableNames: the columns named before the caret, the word that *)
(* is being typed left out.                                                *)
IsWord(text, i, j) ==
  /\ i <= j /\ \A k \in i..j : text[k] \notin Marks
  /\ i > 1 => text[i - 1] \in Marks
  /\ j < Len(text) => text[j + 1] \in Marks
Identifiers(text) == {w \in (DOMAIN text) \X (DOMAIN text) : IsWord(text, w[1], w[2])}
Used(text, pos) ==
  {SubSeq(text, w[1], w[2]) : w \in {v \in Identifiers(Before(text, pos)) : v[2] # pos}}
Unused(columns, text, pos) ==
  LET used == Used(text, pos) IN Among(columns, {c \in ToSet(columns) : c.name \notin used})

-----------------------------------------------------------------------------
(* getCompletions: the names that go on from the word before the caret.    *)
NamesOf(items) == [i \in DOMAIN items |-> items[i].name]
NamesContinuing(names, partial) == Among(names, {n \in ToSet(names) : IsPrefix(partial, n)})
Continuing(items, partial) == Among(items, {i \in ToSet(items) : IsPrefix(partial, i.name)})
First(items, preferred) == Among(items, preferred) \o Among(items, ToSet(items) \ preferred)

Options(context) == IF HasGrammar(context.verb) THEN Grammar[context.verb].options ELSE << >>
OptionNode(context) ==
  Among(Options(context), {o \in ToSet(Options(context)) : o.name = context.option})
ValuesOf(context) == IF OptionNode(context) = << >> THEN << >> ELSE OptionNode(context)[1].values
getCompletions(context, columns, partial) ==
  LET matching == Continuing(columns, partial)
      offered == Continuing(Options(context), partial)
      discrete == IF context.option \in Categorical
                  THEN {c \in ToSet(matching) : ~c.continuous} ELSE {}
  IN CASE context.kind = "verb" -> NamesContinuing(CommandList, partial)
       [] context.kind = "depvar" ->
            NamesOf(First(matching, {c \in ToSet(matching) : c.continuous}))
       [] context.kind = "indepvar" -> NamesOf(matching)
       [] context.kind = "option" ->
            NamesOf(First(offered, {o \in ToSet(offered) : o.required}))
       [] context.kind = "option_value" ->
            IF ValuesOf(context) # << >> THEN NamesContinuing(ValuesOf(context), partial)
            ELSE NamesOf(First(matching, discrete))

(* levenshtein and getCorrections: at most three columns at most three     *)
(* edits away, the nearest first.                                          *)
Distance(a, b) ==
  LET d[p \in (0..Len(a)) \X (0..Len(b))] ==
        IF p[1] = 0 \/ p[2] = 0 THEN p[1] + p[2]
        ELSE IF a[p[1]] = b[p[2]] THEN d[<<p[1] - 1, p[2] - 1>>]
        ELSE 1 + Min({d[<<p[1] - 1, p[2]>>], d[<<p[1], p[2] - 1>>], d[<<p[1] - 1, p[2] - 1>>]})
  IN d[<<Len(a), Len(b)>>]
getCorrections(partial, columns) ==
  LET At(distance) ==
        Among(columns, {c \in ToSet(columns) :
                          Distance(partial, c.name) = distance /\ Len(c.name) >= 2})
      near == NamesOf(At(1) \o At(2) \o At(3))
  IN Before(near, Min({3, Len(near)}))

(* getGhostText: what is left of the first completion.                     *)
getGhostText(items, partial) ==
  IF partial = << >> \/ items = << >> THEN << >> ELSE After(items[1], Len(partial))

=============================================================================
