------------------------ MODULE CommandLanguageProofs ------------------------
(***************************************************************************)
(* Theorems about CommandLanguage for lines of any length with any number  *)
(* of options.                                                             *)
(***************************************************************************)
EXTENDS CommandLanguage, TLAPS

-----------------------------------------------------------------------------
(* Sequences.                                                              *)
LEMMA ElementIs ==
  ASSUME NEW S, NEW s \in Seq(S), NEW i \in 1..Len(s)
  PROVE  s[i] \in S
  OBVIOUS

(* Tables.                                                                 *)
LEMMA Merged ==
  ASSUME NEW f, NEW g
  PROVE  /\ DOMAIN (f @@ g) = DOMAIN f \cup DOMAIN g
         /\ \A x \in DOMAIN f : (f @@ g)[x] = f[x]
         /\ \A x \in DOMAIN g \ DOMAIN f : (f @@ g)[x] = g[x]
  <1> DEFINE tables == <<f, g>>
  <1>1. tables[1] = f /\ tables[2] = g
    OBVIOUS
  <1> HIDE DEF tables
  <1>2. /\ DOMAIN Layered(tables) = DOMAIN f \cup DOMAIN g
        /\ \A x \in DOMAIN f : Layered(tables)[x] = f[x]
        /\ \A x \in DOMAIN g \ DOMAIN f : Layered(tables)[x] = g[x]
    BY <1>1 DEF Layered
  <1>3. f @@ g = Layered(tables)
    BY DEF @@, tables
  <1>4. QED
    BY <1>2, <1>3

LEMMA Single ==
  ASSUME NEW key, NEW value
  PROVE  DOMAIN (key :> value) = {key} /\ (key :> value)[key] = value
  BY DEF :>

-----------------------------------------------------------------------------
(* What a line is, and what its outcome says of it.                        *)
Words == {"x", "(y x)", "=", "ols", "logit", "probit", "poisson", "long", "wide"} \cup Tests
ValueOk(verb, o, value) == value \in ValuesFor(verb, o) \cup {Bare}
LineInv ==
  /\ line = [verb |-> line.verb, words |-> line.words, options |-> line.options]
  /\ line.verb \in CommandList \cup {"import", "nonsense", ""} /\ line.words \in Seq(Words)
  /\ line.verb \notin CommandList => line.options = NoOptions
  /\ \A o \in DOMAIN line.options :
       o \in OptionsFor(line.verb) /\ ValueOk(line.verb, o, line.options[o])

Modelled ==
  Sent => /\ line.verb \in CommandList
          /\ ModelSpec(line).kind = "spec" /\ outcome.request = Request(ModelSpec(line))
          /\ outcome.verdict = Validated(outcome.request)
WithoutOption ==
  outcome = Refused("missing")
    => /\ line.verb \in CommandList
       /\ \/ ModelSpec(line) = Refused("missing")
          \/ DataOp(line) = Refused("missing")
Answers == LineInv /\ Modelled /\ WithoutOption

LEMMA SpecKinds ==
  ASSUME NEW c PROVE ModelSpec(c).kind \in {"spec", "refused", "thrown"}
  BY DEF ModelSpec, Sur, Reg3, Svy, Stcox, Spreg, Gwr, Spprobit, Bayesreg, Plain, Refused, Thrown, Fit

LEMMA OpKinds ==
  ASSUME NEW c PROVE DataOp(c).kind \in {"operation", "refused"}
  BY DEF DataOp, Refused

LEMMA DiagnosticKinds ==
  ASSUME NEW c
  PROVE  /\ DiagnosticSpec(c).kind \in {"diagnostic", "refused"}
         /\ DiagnosticSpec(c) # Refused("missing")
  BY DEF DiagnosticSpec, Refused

LEMMA CommandIsLine ==
  ASSUME LineInv, ToDefault PROVE Command = line /\ line.verb \in CommandList
  BY DEF LineInv, ToDefault, Routed, Command, Parsed, Verbs, OwnVerbs, Refused

(* A line that was not ended says nothing yet.                             *)
LEMMA StillTyping ==
  ASSUME LineInv', outcome' = Typing PROVE Answers'
  BY DEF Answers, Modelled, WithoutOption, Sent, Typing, Refused

(* What ends in anything but a fit or the want of an option says no more.  *)
LEMMA EndsOtherwise ==
  ASSUME Answers, UNCHANGED line, outcome'.kind # "request", outcome' # Refused("missing")
  PROVE  Answers'
  <1>1. LineInv'
    BY DEF Answers, LineInv, ValueOk
  <1>2. QED
    BY <1>1 DEF Answers, Modelled, WithoutOption, Sent, Refused

LEMMA WordsAre == << >> \in Seq(Words) /\ \A verb : WordsFor(verb) \subseteq Words
  <1>1. << >> \in Seq(Words)
    OBVIOUS
  <1>2. ASSUME NEW verb PROVE WordsFor(verb) \subseteq Words
    <2> DEFINE others == Tests
    <2> HIDE DEF others
    <2>1. WordsFor(verb) \subseteq {"x", "(y x)", "=", "ols", "logit", "probit", "poisson", "long", "wide"}
                                    \cup others
      BY DEF WordsFor, others
    <2>2. QED
      BY <2>1 DEF Words, others
  <1>3. QED
    BY <1>1, <1>2

LEMMA AnswersStep == Answers /\ [Next]_vars => Answers'
  <1> SUFFICES ASSUME Answers, [Next]_vars PROVE Answers'
    OBVIOUS
  <1>0. LineInv
    BY DEF Answers
  <1>1. CASE ChooseVerb
    <2>1. PICK verb \in CommandList \cup {"import", "nonsense"} : line' = [Blank EXCEPT !.verb = verb]
      BY <1>1 DEF ChooseVerb
    <2>2. line' = [verb |-> verb, words |-> << >>, options |-> NoOptions]
      BY <2>1 DEF Blank
    <2>3. DOMAIN NoOptions = {}
      BY DEF NoOptions, Free
    <2>4. LineInv'
      BY <2>2, <2>3, WordsAre DEF LineInv
    <2>5. QED
      BY <1>1, <2>4, StillTyping DEF ChooseVerb
  <1>2. CASE AddWord
    <2>1. PICK word \in Words : line' = [line EXCEPT !.words = Append(@, word)]
      BY <1>2, WordsAre DEF AddWord
    <2>2. /\ line'.verb = line.verb /\ line'.options = line.options
          /\ line'.words = Append(line.words, word)
          /\ line' = [verb |-> line'.verb, words |-> line'.words, options |-> line'.options]
      BY <2>1, <1>0 DEF LineInv
    <2>3. line'.words \in Seq(Words)
      <3> DEFINE words == line.words
                 all == Words
      <3>1. words \in Seq(all) /\ word \in all
        BY <1>0 DEF LineInv
      <3> HIDE DEF words, all
      <3>2. Append(words, word) \in Seq(all)
        BY <3>1
      <3>3. QED
        BY <2>2, <3>2 DEF words, all
    <2>4. LineInv'
      BY <1>0, <2>2, <2>3 DEF LineInv, ValueOk
    <2>5. QED
      BY <1>2, <2>4, StillTyping DEF AddWord
  <1>3. CASE AddOption
    <2>1. PICK o, value : /\ o \in OptionsFor(line.verb) /\ ValueOk(line.verb, o, value)
                          /\ line' = [line EXCEPT !.options = o :> value @@ @]
      BY <1>3 DEF AddOption, ValueOk
    <2> DEFINE given == line.options
               added == o :> value
    <2>2. /\ line'.verb = line.verb /\ line'.options = added @@ given /\ line'.words = line.words
          /\ line' = [verb |-> line'.verb, words |-> line'.words, options |-> line'.options]
      BY <2>1, <1>0 DEF LineInv
    <2>3. DOMAIN added = {o} /\ added[o] = value
      BY Single
    <2> HIDE DEF given, added
    <2>4. /\ DOMAIN line'.options = {o} \cup DOMAIN given /\ line'.options[o] = value
          /\ \A p \in DOMAIN given \ {o} : line'.options[p] = given[p]
      BY <2>2, <2>3, Merged DEF @@
    <2>5. line'.verb \in CommandList
      BY <1>3, <2>2 DEF AddOption
    <2>6. LineInv'
      BY <1>0, <2>1, <2>2, <2>4, <2>5 DEF LineInv, ValueOk, given
    <2>7. QED
      BY <1>3, <2>6, StillTyping DEF AddOption
  <1>4. CASE EnterUnknown
    BY <1>4, EndsOtherwise DEF EnterUnknown, Ends, Parsed, Refused
  <1>5. CASE EnterOwn
    BY <1>5, EndsOtherwise DEF EnterOwn, Ends, Refused
  <1>6. ASSUME NEW why, why # "missing", Ends(Refused(why)) PROVE Answers'
    BY <1>6, EndsOtherwise DEF Ends, Refused
  <1>7. CASE EnterWithoutData \/ handlePostest
    <2>1. Ends(Refused("no data")) \/ Ends(Refused("later"))
      BY <1>7 DEF EnterWithoutData, handlePostest
    <2>2. QED
      BY <2>1, <1>6
  <1>8. CASE handleDataView
    BY <1>8, EndsOtherwise DEF handleDataView, Ends, Refused
  <1>9. CASE handleDiagnostic
    <2>1. Ends(DiagnosticSpec(Command)) \/ Ends(Refused("no model"))
      BY <1>9 DEF handleDiagnostic
    <2>2. CASE Ends(DiagnosticSpec(Command))
      BY <2>2, DiagnosticKinds, EndsOtherwise DEF Ends
    <2>3. QED
      BY <2>1, <2>2, <1>6
  <1>10. CASE handleDataOp
    <2>1. outcome' = DataOp(line) /\ line' = line /\ line.verb \in CommandList
      BY <1>10, <1>0, CommandIsLine DEF handleDataOp, Ends
    <2>2. CASE outcome' # Refused("missing")
      BY <2>1, <2>2, OpKinds, EndsOtherwise
    <2>3. CASE outcome' = Refused("missing")
      <3>1. LineInv'
        BY <2>1, <1>0 DEF LineInv, ValueOk
      <3>2. Modelled'
        BY <2>3 DEF Modelled, Sent, Refused
      <3>3. WithoutOption'
        BY <2>1, <2>3 DEF WithoutOption
      <3>4. QED
        BY <3>1, <3>2, <3>3 DEF Answers
    <2>4. QED
      BY <2>2, <2>3
  <1>11. CASE handleModel
    <2> DEFINE spec == ModelSpec(line)
    <2>1. /\ line' = line /\ line.verb \in CommandList
          /\ outcome' = IF spec.kind # "spec" THEN spec
                        ELSE [kind |-> "request", request |-> Request(spec),
                              verdict |-> Validated(Request(spec))]
      BY <1>11, <1>0, CommandIsLine DEF handleModel, Ends
    <2>2. LineInv'
      BY <2>1, <1>0 DEF LineInv, ValueOk
    <2>3. CASE spec.kind = "spec"
      BY <2>1, <2>2, <2>3 DEF Answers, Modelled, WithoutOption, Sent, Refused
    <2>4. CASE spec.kind # "spec"
      BY <2>1, <2>2, <2>4, SpecKinds DEF Answers, Modelled, WithoutOption, Sent
    <2>5. QED
      BY <2>3, <2>4
  <1>12. CASE Clear
    <2>1. DOMAIN NoOptions = {}
      BY DEF NoOptions, Free
    <2>2. LineInv'
      BY <1>12, <2>1, WordsAre DEF Clear, Blank, LineInv
    <2>3. QED
      BY <1>12, <2>2, StillTyping DEF Clear
  <1>13. CASE UNCHANGED vars
    BY <1>13 DEF vars, Answers, LineInv, ValueOk, Modelled, WithoutOption, Sent
  <1>14. QED
    BY <1>1, <1>2, <1>3, <1>4, <1>5, <1>7, <1>8, <1>9, <1>10, <1>11, <1>12, <1>13 DEF Next

LEMMA AnswersInit == Init => Answers
  <1> SUFFICES ASSUME Init PROVE Answers
    OBVIOUS
  <1>1. DOMAIN NoOptions = {}
    BY DEF NoOptions, Free
  <1>2. QED
    BY <1>1, WordsAre DEF Init, Blank, Answers, LineInv, Modelled, WithoutOption, Sent, Typing, Refused

-----------------------------------------------------------------------------
(* The models a line can ask for.                                          *)
PlainVerbs == ModelVerbs \ {"sur", "reg3", "svy", "stcox", "spreg"}
PlainTypes ==
  {"ols", "iv", "gmm_linear", "quantile", "nls", "threshold", "gls", "panel", "panel_iv",
   "dynamic_panel_gmm", "logit", "probit", "poisson", "ordered_logit", "multinomial_logit",
   "negbin", "did", "event_study", "ipw", "psm", "aipw", "arima", "var", "unitroot",
   "cointegration", "garch", "arch"}

LEMMA TypesOfPlainVerbs ==
  ASSUME NEW verb \in PlainVerbs PROVE ModelType(verb) \in PlainTypes
  BY DEF PlainVerbs, ModelVerbs, ModelType, TypeTable, PlainTypes

LEMMA ByVerb ==
  ASSUME NEW c, c.verb \in ModelVerbs
  PROVE  \/ c.verb \in PlainVerbs /\ ModelSpec(c) = Plain(c)
         \/ c.verb = "sur" /\ ModelSpec(c) = Sur(c)
         \/ c.verb = "reg3" /\ ModelSpec(c) = Reg3(c)
         \/ c.verb = "svy" /\ ModelSpec(c) = Svy(c)
         \/ c.verb = "stcox" /\ ModelSpec(c) = Stcox(c)
         \/ c.verb = "spreg" /\ ModelSpec(c) = Spreg(c)
  <1>1. CASE c.verb \in PlainVerbs
    <2>1. c.verb \notin {"sur", "reg3", "svy", "stcox", "spreg", "gwr", "gtwr", "spprobit", "bayesreg"}
      BY <1>1 DEF PlainVerbs, ModelVerbs
    <2>2. ModelSpec(c) = Plain(c)
      BY <2>1 DEF ModelSpec
    <2>3. QED
      BY <1>1, <2>2
  <1>2. CASE c.verb \in {"sur", "reg3", "svy", "stcox", "spreg"}
    BY <1>2 DEF ModelSpec
  <1>3. QED
    BY <1>1, <1>2 DEF PlainVerbs

LEMMA ModelSpecCases ==
  ASSUME NEW c, ModelSpec(c).kind = "spec"
  PROVE  \/ c.verb \in PlainVerbs /\ ModelSpec(c) = Plain(c)
         \/ c.verb = "sur" /\ ModelSpec(c) = Sur(c)
         \/ c.verb = "reg3" /\ ModelSpec(c) = Reg3(c)
         \/ c.verb = "svy" /\ ModelSpec(c) = Svy(c)
         \/ c.verb = "stcox" /\ ModelSpec(c) = Stcox(c)
         \/ c.verb = "spreg" /\ ModelSpec(c) = Spreg(c)
  <1>1. c.verb \in ModelVerbs
    BY DEF ModelSpec, Refused
  <1>2. QED
    BY <1>1, ByVerb

LEMMA PlainSpec ==
  ASSUME NEW c, Plain(c).kind = "spec"
  PROVE  LET type == ModelType(c.verb)
             spec == Plain(c) IN
         /\ spec.type = type /\ spec.formula = Formula(c, c.words)
         /\ spec.params = OwnParams(c, type) @@ General(c, type)
         /\ spec.robust = (Has(c, "robust") /\ type \notin Unweighted)
         /\ spec.cluster = (Given(c, "cluster") /\ type \notin Unweighted)
         /\ spec.weights = (Given(c, "weights") /\ type \notin Unweighted)
         /\ ~SplitThrows(c) /\ Missing(c, type) = {} /\ ~LagsThrow(c, type) /\ ValuesOk(c, type)
  BY DEF Plain, Fit, Refused, Thrown

ModelTypes ==
  PlainTypes \cup Systems \cup {"duration_cox"} \cup Surveys \cup (Weighted \ {"spatial_probit"})

LEMMA TypesOfModels ==
  ASSUME NEW c, ModelSpec(c).kind = "spec" PROVE ModelSpec(c).type \in ModelTypes
  <1>1. CASE c.verb \in PlainVerbs /\ ModelSpec(c) = Plain(c)
    BY <1>1, PlainSpec, TypesOfPlainVerbs DEF ModelTypes
  <1>2. CASE ModelSpec(c) = Sur(c)
    BY <1>2 DEF Sur, Fit, Refused, ModelTypes, Systems
  <1>3. CASE ModelSpec(c) = Reg3(c)
    BY <1>3 DEF Reg3, Fit, Refused, ModelTypes, Systems
  <1>4. CASE ModelSpec(c) = Svy(c)
    <2>1. c.words[1] \in DOMAIN SurveyTypes /\ Svy(c).type = SurveyTypes[c.words[1]]
      BY <1>4 DEF Svy, Fit, Refused
    <2>2. QED
      BY <1>4, <2>1 DEF SurveyTypes, ModelTypes, Surveys
  <1>5. CASE ModelSpec(c) = Stcox(c)
    BY <1>5 DEF Stcox, Fit, Refused, ModelTypes
  <1>6. CASE ModelSpec(c) = Spreg(c)
    <2> DEFINE model == ValueOr(c, "model", "lag")
    <2>1. model \in DOMAIN SpatialType /\ Spreg(c).type = SpatialType[model]
      BY <1>6 DEF Spreg, Fit, Refused
    <2> HIDE DEF model
    <2>2. QED
      BY <1>6, <2>1 DEF SpatialType, ModelTypes, Weighted
  <1>7. QED
    BY <1>1, <1>2, <1>3, <1>4, <1>5, <1>6, ModelSpecCases

LEMMA SentParams ==
  ASSUME NEW type, NEW given
  PROVE  DOMAIN FamilyParams(type, given) \subseteq Copied(type) \cup DOMAIN FilledIn(type)
  <1> DEFINE copies == [p \in DOMAIN given \cap Copied(type) |-> given[p]]
             filled == FilledIn(type)
             all == copies @@ filled
  <1>1. DOMAIN FamilyParams(type, given) \subseteq DOMAIN all
    BY DEF FamilyParams
  <1>2. DOMAIN copies \subseteq Copied(type)
    OBVIOUS
  <1> HIDE DEF copies, filled
  <1>3. DOMAIN all = DOMAIN copies \cup DOMAIN filled
    BY Merged DEF @@
  <1>4. QED
    BY <1>1, <1>2, <1>3 DEF filled

(* types/protocol.ts has in a type's family what buildFamilyParams copies  *)
(* and fills in for it.                                                    *)
LEMMA FamiliesAgree ==
  ASSUME NEW type \in ModelTypes
  PROVE  Copied(type) \cup DOMAIN FilledIn(type) \subseteq SpecParams(type)
  <1> USE DEF Copied, FilledIn, SpecParams, Panels, Events, Surveys, Weighted, Locals, Durations,
      Bayesian, Asymmetric, Discrete, Systems, IvParams, Causal, TimeSeries, NoParams, SurveyCopied, TimeCopied
  <1>1. CASE type \in {"ols", "gls", "iv", "gmm_linear"}
    BY <1>1 DEF LinearSpec
  <1>2. CASE type \in Panels \cup Events
    BY <1>2 DEF PanelSpec
  <1>3. CASE type = "dynamic_panel_gmm"
    BY <1>3 DEF PanelSpec
  <1>4. CASE type \in Causal
    BY <1>4 DEF CausalSpec
  <1>5. CASE type \in Discrete
    BY <1>5
  <1>6. CASE type \in TimeSeries
    BY <1>6 DEF TimeSeriesSpec
  <1>7. CASE type \in Surveys
    BY <1>7 DEF SurveySpec
  <1>8. CASE type \in Systems
    BY <1>8 DEF SystemSpec
  <1>9. CASE type \in {"nls", "threshold"}
    BY <1>9 DEF NonlinearSpec
  <1>10. CASE type = "quantile"
    BY <1>10 DEF QuantileSpec
  <1>11. CASE type \in Weighted
    BY <1>11 DEF SpatialSpec
  <1>12. CASE type = "duration_cox"
    BY <1>12 DEF DurationSpec
  <1>13. QED
    BY <1>1, <1>2, <1>3, <1>4, <1>5, <1>6, <1>7, <1>8, <1>9, <1>10, <1>11, <1>12
    DEF ModelTypes, PlainTypes

-----------------------------------------------------------------------------
(* A request carries no parameter of another family of models, whatever    *)
(* the line it was made from: the families of types/protocol.ts hold what  *)
(* buildFamilyParams copies and fills in.                                  *)
THEOREM ParamsOfOwnFamily == Spec => []OnlyFamilyParams
  <1>1. Answers => OnlyFamilyParams
    <2> SUFFICES ASSUME Answers, Sent PROVE OnlyFamilyParams
      BY DEF OnlyFamilyParams
    <2> DEFINE spec == ModelSpec(line)
    <2>1. spec.kind = "spec" /\ outcome.request = Request(spec)
      BY DEF Answers, Modelled
    <2>2. spec.type \in ModelTypes
      BY <2>1, TypesOfModels
    <2> HIDE DEF spec
    <2>3. /\ outcome.request.type = spec.type
          /\ outcome.request.params = FamilyParams(spec.type, HandedOn(spec))
      BY <2>1 DEF Request
    <2>4. DOMAIN outcome.request.params \subseteq SpecParams(outcome.request.type)
      BY <2>2, <2>3, SentParams, FamiliesAgree
    <2>5. QED
      BY <2>4 DEF OnlyFamilyParams
  <1>2. QED
    BY <1>1, AnswersInit, AnswersStep, PTL DEF Spec

-----------------------------------------------------------------------------
(* The numbers of a value: one at least.                                   *)
Read1 == Int
IsNumbers(s) == s \in Seq(Read1) /\ Len(s) >= 1

LEMMA NumbersAre ==
  ASSUME NEW value PROVE IsNumbers(Numbers(value))
  <1> DEFINE texts == {"0", "0.5", "1", "2", "4", "13", "2 4", "5 4", "0 1 5",
                      "1 0 5", "c c", "3000000000", "1e16 10000000000000002 5", "-1e308 1e308 5"}
  <1>0. LargestI32 \in Int /\ OnesApart \in Int /\ LargestDouble \in Int
    BY DEF LargestI32, OnesApart, LargestDouble
  <1>1. CASE value = "0"
    <2>1. Numbers("0") = <<0>>
      BY DEF Numbers
    <2>2. Numbers(value) = <<0>>
      BY <1>1, <2>1
    <2>3. QED
      BY <2>2 DEF IsNumbers, Read1, NaN
  <1>2. CASE value = "0.5"
    <2>1. Numbers("0.5") = <<50>>
      BY DEF Numbers
    <2>2. Numbers(value) = <<50>>
      BY <1>2, <2>1
    <2>3. QED
      BY <2>2 DEF IsNumbers, Read1, NaN
  <1>3. CASE value = "1"
    <2>1. Numbers("1") = <<100>>
      BY DEF Numbers
    <2>2. Numbers(value) = <<100>>
      BY <1>3, <2>1
    <2>3. QED
      BY <2>2 DEF IsNumbers, Read1, NaN
  <1>4. CASE value = "2"
    <2>1. Numbers("2") = <<200>>
      BY DEF Numbers
    <2>2. Numbers(value) = <<200>>
      BY <1>4, <2>1
    <2>3. QED
      BY <2>2 DEF IsNumbers, Read1, NaN
  <1>5. CASE value = "4"
    <2>1. Numbers("4") = <<400>>
      BY DEF Numbers
    <2>2. Numbers(value) = <<400>>
      BY <1>5, <2>1
    <2>3. QED
      BY <2>2 DEF IsNumbers, Read1, NaN
  <1>6. CASE value = "13"
    <2>1. Numbers("13") = <<1300>>
      BY DEF Numbers
    <2>2. Numbers(value) = <<1300>>
      BY <1>6, <2>1
    <2>3. QED
      BY <2>2 DEF IsNumbers, Read1, NaN
  <1>7. CASE value = "2 4"
    <2>1. Numbers("2 4") = <<200, 400>>
      BY DEF Numbers
    <2>2. Numbers(value) = <<200, 400>>
      BY <1>7, <2>1
    <2>3. QED
      BY <2>2 DEF IsNumbers, Read1, NaN
  <1>8. CASE value = "5 4"
    <2>1. Numbers("5 4") = <<500, 400>>
      BY DEF Numbers
    <2>2. Numbers(value) = <<500, 400>>
      BY <1>8, <2>1
    <2>3. QED
      BY <2>2 DEF IsNumbers, Read1, NaN
  <1>9. CASE value = "0 1 5"
    <2>1. Numbers("0 1 5") = <<0, 100, 500>>
      BY DEF Numbers
    <2>2. Numbers(value) = <<0, 100, 500>>
      BY <1>9, <2>1
    <2>3. QED
      BY <2>2 DEF IsNumbers, Read1, NaN
  <1>10. CASE value = "1 0 5"
    <2>1. Numbers("1 0 5") = <<100, 0, 500>>
      BY DEF Numbers
    <2>2. Numbers(value) = <<100, 0, 500>>
      BY <1>10, <2>1
    <2>3. QED
      BY <2>2 DEF IsNumbers, Read1, NaN
  <1>11. CASE value = "c c"
    <2>1. Numbers("c c") = <<NaN, NaN>>
      BY DEF Numbers
    <2>2. Numbers(value) = <<NaN, NaN>>
      BY <1>11, <2>1
    <2>3. QED
      BY <2>2 DEF IsNumbers, Read1, NaN
  <1>12. CASE value = "3000000000"
    <2>1. Numbers("3000000000") = <<100 * (LargestI32 + 1)>>
      BY DEF Numbers
    <2>2. Numbers(value) = <<100 * (LargestI32 + 1)>>
      BY <1>12, <2>1
    <2>3. QED
      BY <1>0, <2>2 DEF IsNumbers, Read1, NaN
  <1>13. CASE value = "1e16 10000000000000002 5"
    <2>1. Numbers("1e16 10000000000000002 5") = <<OnesApart, OnesApart + 1, 500>>
      BY DEF Numbers
    <2>2. Numbers(value) = <<OnesApart, OnesApart + 1, 500>>
      BY <1>13, <2>1
    <2>3. QED
      BY <1>0, <2>2 DEF IsNumbers, Read1, NaN
  <1>14. CASE value = "-1e308 1e308 5"
    <2>1. Numbers("-1e308 1e308 5") = <<-LargestDouble, LargestDouble, 500>>
      BY DEF Numbers
    <2>2. Numbers(value) = <<-LargestDouble, LargestDouble, 500>>
      BY <1>14, <2>1
    <2>3. QED
      BY <1>0, <2>2 DEF IsNumbers, Read1, NaN
  <1>15. CASE value \notin texts
    <2>1. Numbers(value) = <<NaN>>
      <3>1. /\ value # "0" /\ value # "0.5" /\ value # "1" /\ value # "2" /\ value # "4"
            /\ value # "13" /\ value # "2 4" /\ value # "5 4" /\ value # "0 1 5" /\ value # "1 0 5"
            /\ value # "c c" /\ value # "3000000000"
            /\ value # "1e16 10000000000000002 5" /\ value # "-1e308 1e308 5"
        BY <1>15
      <3> HIDE DEF texts
      <3>2. QED
        BY <3>1, ZenonT(60) DEF Numbers
    <2>2. QED
      BY <2>1 DEF IsNumbers, Read1, NaN
  <1>16. QED
    BY <1>1, <1>2, <1>3, <1>4, <1>5, <1>6, <1>7, <1>8, <1>9, <1>10, <1>11, <1>12, <1>13, <1>14, <1>15

LEMMA FloatIs ==
  ASSUME NEW value
  PROVE  Float(value) = Numbers(value)[1] /\ Float(value) \in Read1
  BY NumbersAre DEF Float, IsNumbers, Read1, NaN

LEMMA IntsAre ==
  ASSUME NEW value
  PROVE  /\ Ints(value) \in Seq(Read1) /\ Len(Ints(value)) = Len(Numbers(value))
         /\ \A i \in 1..Len(Numbers(value)) : Ints(value)[i] = TruncInt(Numbers(value)[i])
  <1> DEFINE n == Numbers(value)
  <1>1. n \in Seq(Read1)
    BY NumbersAre DEF IsNumbers
  <1>2. \A x \in Read1 : TruncInt(x) \in Read1
    BY DEF TruncInt, Read1, NaN
  <1> HIDE DEF n
  <1>3. DOMAIN n = 1..Len(n) /\ Len(n) \in Nat /\ \A i \in 1..Len(n) : n[i] \in Read1
    BY <1>1
  <1>4. Ints(value) = [i \in 1..Len(n) |-> TruncInt(n[i])]
    BY <1>3 DEF Ints, n
  <1>5. QED
    BY <1>2, <1>3, <1>4 DEF n

-----------------------------------------------------------------------------
(* Where a parameter of a request comes from.                              *)
Same(f, g, p) == (p \in DOMAIN f <=> p \in DOMAIN g) /\ (p \in DOMAIN f => f[p] = g[p])

LEMMA Upper ==
  ASSUME NEW f, NEW g, NEW p, p \in DOMAIN f \/ p \notin DOMAIN g PROVE Same(f @@ g, f, p)
  <1> DEFINE both == f @@ g
  <1>1. /\ DOMAIN both = DOMAIN f \cup DOMAIN g
        /\ \A x \in DOMAIN f : both[x] = f[x]
    BY Merged DEF @@
  <1> HIDE DEF both
  <1>2. Same(both, f, p)
    BY <1>1 DEF Same
  <1>3. QED
    BY <1>2 DEF both

LEMMA Lower ==
  ASSUME NEW f, NEW g, NEW p, p \notin DOMAIN f PROVE Same(f @@ g, g, p)
  <1> DEFINE both == f @@ g
  <1>1. /\ DOMAIN both = DOMAIN f \cup DOMAIN g
        /\ \A x \in DOMAIN g \ DOMAIN f : both[x] = g[x]
    BY Merged DEF @@
  <1> HIDE DEF both
  <1>2. Same(both, g, p)
    BY <1>1 DEF Same
  <1>3. QED
    BY <1>2 DEF both

LEMMA ReadOf ==
  ASSUME NEW c, NEW table, NEW p
  PROVE  /\ p \in DOMAIN Read(c, table) <=> p \in DOMAIN table /\ Given(c, table[p])
         /\ p \in DOMAIN Read(c, table) => Read(c, table)[p] = From(c, table[p])
  BY DEF Read

LEMMA WhenOf ==
  ASSUME NEW condition, NEW params
  PROVE  /\ condition => When(condition, params) = params
         /\ ~condition => DOMAIN When(condition, params) = {}
         /\ DOMAIN When(condition, params) \subseteq DOMAIN params
  BY DEF When, NoParams

(* What is neither left out nor filled in of a type's own parameters.      *)
LEMMA Handed ==
  ASSUME NEW spec, NEW p \in Copied(spec.type) \ (NotHandedOn \cup {"lags", "deterministic"}),
         p \in DOMAIN spec.params \/ p \notin DOMAIN FilledIn(spec.type)
  PROVE  Same(Request(spec).params, spec.params, p)
  <1> DEFINE type == spec.type
             handed == HandedOn(spec)
             copies == [q \in DOMAIN handed \cap Copied(type) |-> handed[q]]
             filled == FilledIn(type)
             all == copies @@ filled
  <1>1. Request(spec).params = FamilyParams(type, handed)
    BY DEF Request
  <1>2. Same(handed, spec.params, p)
    BY DEF HandedOn, Same
  <1> HIDE DEF handed
  <1>3. Same(copies, handed, p)
    BY DEF Same
  <1>4. Same(FamilyParams(type, handed), all, p)
    BY DEF FamilyParams, Same
  <1>5. p \in DOMAIN copies \/ p \notin DOMAIN filled
    BY <1>2, <1>3 DEF Same
  <1> HIDE DEF copies, filled
  <1>6. Same(all, copies, p)
    BY <1>5, Upper
  <1>7. QED
    BY <1>1, <1>2, <1>3, <1>4, <1>6 DEF Same

LEMMA NotSent ==
  ASSUME NEW spec, NEW p, p \notin Copied(spec.type) \cup DOMAIN FilledIn(spec.type)
  PROVE  p \notin DOMAIN Request(spec).params
  BY SentParams DEF Request

Shared == {"panel_id", "panel_time", "endog_columns", "instruments", "panel_method", "gmm_weight"}
LEMMA SharedOnly ==
  ASSUME NEW c, NEW type PROVE DOMAIN General(c, type) \subseteq Shared
  <1> DEFINE a == Read(c, [panel_id |-> "id", panel_time |-> "time", endog_columns |-> "endogenous",
                           instruments |-> "instruments"])
             b == When(UsesMethod(type), Read(c, [panel_method |-> "method"]))
             d == When(type = "gmm_linear", Read(c, [gmm_weight |-> "weight"]))
             ab == a @@ b
  <1>1. DOMAIN a \subseteq Shared
    BY DEF Read, Shared
  <1>2. DOMAIN b \subseteq Shared /\ DOMAIN d \subseteq Shared
    BY DEF When, Read, NoParams, Shared
  <1>3. General(c, type) = (a @@ b) @@ d
    BY DEF General
  <1> HIDE DEF a, b, d
  <1>4. DOMAIN ab = DOMAIN a \cup DOMAIN b
    BY Merged DEF @@
  <1> HIDE DEF ab
  <1>5. DOMAIN (ab @@ d) \subseteq Shared
    <2>1. DOMAIN (ab @@ d) = DOMAIN ab \cup DOMAIN d
      BY Merged DEF @@
    <2>2. QED
      BY <1>1, <1>2, <1>4, <2>1
  <1>6. QED
    BY <1>3, <1>5 DEF ab

(* Of what a type reads for itself, nothing is covered by what all share.  *)
LEMMA OwnFirst ==
  ASSUME NEW c, Plain(c).kind = "spec", NEW p, p \notin Shared
  PROVE  Same(Plain(c).params, OwnParams(c, ModelType(c.verb)), p)
  <1> DEFINE own == OwnParams(c, ModelType(c.verb))
             general == General(c, ModelType(c.verb))
  <1>1. Plain(c).params = own @@ general
    BY PlainSpec
  <1>2. p \notin DOMAIN general
    BY SharedOnly
  <1> HIDE DEF own, general
  <1>3. QED
    BY <1>1, <1>2, Upper DEF own

-----------------------------------------------------------------------------
(* Type by type, the parser refuses what the runtime would.                *)
LEMMA PlainByType ==
  ASSUME NEW c, ModelSpec(c).kind = "spec", ModelSpec(c).type \in PlainTypes
  PROVE  /\ ModelSpec(c) = Plain(c) /\ Plain(c).kind = "spec"
         /\ Plain(c).type = ModelType(c.verb) /\ ModelSpec(c).type = ModelType(c.verb)
  <1>1. CASE ModelSpec(c) = Plain(c)
    BY <1>1, PlainSpec
  <1>2. CASE ModelSpec(c) = Sur(c)
    BY <1>2 DEF Sur, Fit, Refused, PlainTypes
  <1>3. CASE ModelSpec(c) = Reg3(c)
    BY <1>3 DEF Reg3, Fit, Refused, PlainTypes
  <1>4. CASE ModelSpec(c) = Svy(c)
    <2>1. c.words[1] \in DOMAIN SurveyTypes /\ Svy(c).type = SurveyTypes[c.words[1]]
      BY <1>4 DEF Svy, Fit, Refused
    <2>2. QED
      BY <1>4, <2>1 DEF SurveyTypes, PlainTypes
  <1>5. CASE ModelSpec(c) = Stcox(c)
    BY <1>5 DEF Stcox, Fit, Refused, PlainTypes
  <1>6. CASE ModelSpec(c) = Spreg(c)
    <2> DEFINE model == ValueOr(c, "model", "lag")
    <2>1. model \in DOMAIN SpatialType /\ Spreg(c).type = SpatialType[model]
      BY <1>6 DEF Spreg, Fit, Refused
    <2> HIDE DEF model
    <2>2. QED
      BY <1>6, <2>1 DEF SpatialType, PlainTypes
  <1>7. QED
    BY <1>1, <1>2, <1>3, <1>4, <1>5, <1>6, ModelSpecCases

LEMMA OwnHanded ==
  ASSUME NEW c, ModelSpec(c).kind = "spec", NEW type \in PlainTypes, ModelSpec(c).type = type,
         NEW p \in Copied(type) \ (NotHandedOn \cup {"lags", "deterministic"} \cup Shared),
         p \in DOMAIN OwnParams(c, type) \/ p \notin DOMAIN FilledIn(type)
  PROVE  Same(Request(ModelSpec(c)).params, OwnParams(c, type), p)
  <1>1. ModelSpec(c) = Plain(c) /\ Plain(c).kind = "spec" /\ ModelType(c.verb) = type
    BY PlainByType
  <1>2. Same(Plain(c).params, OwnParams(c, type), p)
    BY <1>1, OwnFirst
  <1>3. p \in DOMAIN Plain(c).params \/ p \notin DOMAIN FilledIn(type)
    BY <1>2 DEF Same
  <1>4. Same(Request(Plain(c)).params, Plain(c).params, p)
    BY <1>1, <1>3, Handed
  <1>5. QED
    BY <1>1, <1>2, <1>4 DEF Same

LEMMA QuantileAgrees ==
  ASSUME NEW c, ModelSpec(c).kind = "spec", ModelSpec(c).type = "quantile"
  PROVE  QuantileRules(Request(ModelSpec(c)).params) = {}
  <1> DEFINE params == Request(ModelSpec(c)).params
             own == OwnParams(c, "quantile")
             asked == When(Has(c, "quantile"), [quantile_tau |-> From(c, "quantile")])
             default == [quantile_tau |-> Default("0.5")]
             all == asked @@ default
  <1>1. Has(c, "quantile") => TauOk(c.options["quantile"])
    <2>1. ModelType(c.verb) = "quantile" /\ ValuesOk(c, "quantile")
      BY PlainByType, PlainSpec DEF PlainTypes
    <2>2. QED
      BY <2>1 DEF ValuesOk, Checks
  <1>2. own = all
    BY DEF OwnParams, TimeSeries, @@
  <1>3. /\ "quantile_tau" \in DOMAIN default /\ default["quantile_tau"].text = "0.5"
        /\ Has(c, "quantile") => /\ "quantile_tau" \in DOMAIN asked
                                 /\ asked["quantile_tau"].text = c.options["quantile"]
        /\ ~Has(c, "quantile") => DOMAIN asked = {}
    BY DEF When, NoParams, From, Default
  <1> HIDE DEF asked, default
  <1>4. "quantile_tau" \in DOMAIN all
    BY <1>3, Upper, Lower DEF Same
  <1>5. all["quantile_tau"].text = IF Has(c, "quantile") THEN c.options["quantile"] ELSE "0.5"
    BY <1>3, Upper, Lower DEF Same
  <1> HIDE DEF all
  <1>6. Same(params, own, "quantile_tau")
    <2>1. "quantile_tau" \in Copied("quantile") \ (NotHandedOn \cup {"lags", "deterministic"} \cup Shared)
      BY DEF Copied, Panels, Events, Causal, TimeSeries, Asymmetric, Surveys, Systems, Weighted,
             Locals, Durations, NotHandedOn, Shared
    <2>2. "quantile" \in PlainTypes
      BY DEF PlainTypes
    <2>3. QED
      BY <1>2, <1>4, <2>1, <2>2, OwnHanded
  <1>7. Float("0.5") = 50
    <2>1. Numbers("0.5") = <<50>>
      BY DEF Numbers
    <2>2. QED
      BY <2>1 DEF Float
  <1>8. \A value : TauOk(value) => Float(value) \in 1..99
    BY FloatIs DEF TauOk, Read1, NaN
  <1>9. Float(params["quantile_tau"].text) \in 1..99
    BY <1>1, <1>2, <1>4, <1>5, <1>6, <1>7, <1>8 DEF Same
  <1> HIDE DEF params
  <1>10. QED
    BY <1>9 DEF QuantileRules, Within, params

LEMMA NlsAgrees ==
  ASSUME NEW c, ModelSpec(c).kind = "spec", ModelSpec(c).type = "nls"
  PROVE  NonlinearRules("nls", Request(ModelSpec(c)).params) = {}
  <1> DEFINE params == Request(ModelSpec(c)).params
             own == OwnParams(c, "nls")
             table == [nls_family |-> "family", nls_start |-> "start",
                       nls_max_iter |-> "maxiter", nls_tol |-> "tol"]
             read == Read(c, table)
             default == [nls_family |-> Default("exp_growth")]
             all == read @@ default
  <1>0. "nls" \in PlainTypes
    BY DEF PlainTypes
  <1>1. FamilyOk(c) /\ Has(c, "start") /\ StartOk(c.options["start"])
    <2>1. ModelType(c.verb) = "nls" /\ ValuesOk(c, "nls") /\ Missing(c, "nls") = {}
      BY <1>0, PlainByType, PlainSpec
    <2>2. FamilyOk(c) /\ (Has(c, "start") => StartOk(c.options["start"]))
      BY <2>1 DEF ValuesOk, Checks
    <2>3. Has(c, "start")
      BY <2>1, <2>2 DEF Missing
    <2>4. QED
      BY <2>2, <2>3
  <1>2. Given(c, "start")
    <2>1. Numbers(Bare) = <<NaN>>
      BY DEF Numbers, Bare
    <2>2. ~StartOk(Bare)
      BY <2>1 DEF StartOk
    <2>3. QED
      BY <1>1, <2>2 DEF Given
  <1>3. own = all
    BY DEF OwnParams, TimeSeries, @@
  <1>4. /\ "nls_start" \in DOMAIN read /\ read["nls_start"].text = c.options["start"]
        /\ "nls_family" \in DOMAIN read <=> Given(c, "family")
        /\ "nls_family" \in DOMAIN read => read["nls_family"].text = c.options["family"]
    <2>1. /\ {"nls_family", "nls_start"} \subseteq DOMAIN table
          /\ table["nls_family"] = "family" /\ table["nls_start"] = "start"
      OBVIOUS
    <2> HIDE DEF table
    <2>2. /\ "nls_start" \in DOMAIN read /\ read["nls_start"] = From(c, "start")
          /\ "nls_family" \in DOMAIN read <=> Given(c, "family")
          /\ "nls_family" \in DOMAIN read => read["nls_family"] = From(c, "family")
      BY <1>2, <2>1, ReadOf
    <2> HIDE DEF read
    <2>3. QED
      BY <2>2 DEF From
  <1>5. DOMAIN default = {"nls_family"} /\ default["nls_family"].text = "exp_growth"
    BY DEF Default
  <1> HIDE DEF read, default
  <1>6. "nls_start" \in DOMAIN all /\ all["nls_start"].text = c.options["start"]
    BY <1>4, Upper DEF Same
  <1>7. "nls_family" \in DOMAIN all /\ all["nls_family"].text = "exp_growth"
    <2>1. CASE Given(c, "family")
      BY <1>1, <1>4, <2>1, Upper DEF Same, FamilyOk, Given
    <2>2. CASE ~Given(c, "family")
      BY <1>4, <1>5, <2>2, Lower DEF Same
    <2>3. QED
      BY <2>1, <2>2
  <1> HIDE DEF all
  <1>8. Same(params, own, "nls_start") /\ Same(params, own, "nls_family")
    <2>1. {"nls_start", "nls_family"}
            \subseteq Copied("nls") \ (NotHandedOn \cup {"lags", "deterministic"} \cup Shared)
      BY DEF Copied, Panels, Events, Causal, TimeSeries, Asymmetric, Surveys, Systems, Weighted,
             Locals, Durations, NotHandedOn, Shared
    <2>2. QED
      BY <1>0, <1>3, <1>6, <1>7, <2>1, OwnHanded
  <1>9. /\ "nls_start" \in DOMAIN params /\ StartOk(params["nls_start"].text)
        /\ params["nls_family"].text = "exp_growth"
    BY <1>1, <1>3, <1>6, <1>7, <1>8 DEF Same
  <1> HIDE DEF params
  <1>10. Len(Numbers(params["nls_start"].text)) = 3
         /\ NaN \notin {Numbers(params["nls_start"].text)[i] : i \in DOMAIN Numbers(params["nls_start"].text)}
    BY <1>9, NumbersAre DEF StartOk, IsNumbers
  <1>11. QED
    BY <1>9, <1>10 DEF NonlinearRules, Within, params

LEMMA ThresholdAgrees ==
  ASSUME NEW c, ModelSpec(c).kind = "spec", ModelSpec(c).type = "threshold"
  PROVE  NonlinearRules("threshold", Request(ModelSpec(c)).params)
           \subseteq LostInExpansion(Request(ModelSpec(c)).params)
  <1> DEFINE params == Request(ModelSpec(c)).params
             own == OwnParams(c, "threshold")
             both == [threshold_variable |-> From(c, "qvar"), threshold_grid |-> From(c, "grid")]
             table == [threshold_trim_frac |-> "trim"]
             read == Read(c, table)
             all == both @@ read
             grid == c.options["grid"]
             LostGrid(value) == Overflows(Numbers(value)) \/ TooFine(Numbers(value))
  <1>0. "threshold" \in PlainTypes
    BY DEF PlainTypes
  <1>1. GridOk(grid) /\ (Has(c, "trim") => TrimOk(c.options["trim"]))
    <2>1. ModelType(c.verb) = "threshold" /\ ValuesOk(c, "threshold") /\ Missing(c, "threshold") = {}
      BY <1>0, PlainByType, PlainSpec
    <2>2. Has(c, "grid")
      BY <2>1 DEF Missing
    <2>3. QED
      BY <2>1, <2>2 DEF ValuesOk, Checks
  <1>2. own = all
    BY DEF OwnParams, TimeSeries, @@
  <1>3. /\ DOMAIN both = {"threshold_variable", "threshold_grid"}
        /\ both["threshold_grid"].text = grid /\ both["threshold_grid"].is = Ints(grid)
    BY DEF From
  <1>4. /\ DOMAIN read \subseteq {"threshold_trim_frac"}
        /\ "threshold_trim_frac" \in DOMAIN read
             => Has(c, "trim") /\ read["threshold_trim_frac"].text = c.options["trim"]
    <2>1. DOMAIN table = {"threshold_trim_frac"} /\ table["threshold_trim_frac"] = "trim"
      OBVIOUS
    <2> HIDE DEF table
    <2>2. /\ DOMAIN read \subseteq {"threshold_trim_frac"}
          /\ "threshold_trim_frac" \in DOMAIN read
               => Given(c, "trim") /\ read["threshold_trim_frac"] = From(c, "trim")
      BY <2>1, ReadOf
    <2> HIDE DEF read
    <2>3. QED
      BY <2>2 DEF From, Given
  <1> HIDE DEF both, read, grid
  <1>5. /\ "threshold_variable" \in DOMAIN all /\ "threshold_grid" \in DOMAIN all
        /\ all["threshold_grid"].text = grid /\ all["threshold_grid"].is = Ints(grid)
    BY <1>3, Upper DEF Same
  <1>6. "threshold_trim_frac" \in DOMAIN all
          => Has(c, "trim") /\ all["threshold_trim_frac"].text = c.options["trim"]
    BY <1>3, <1>4, Lower DEF Same
  <1> HIDE DEF all
  <1>7. \A p \in {"threshold_variable", "threshold_grid", "threshold_trim_frac"} : Same(params, own, p)
    <2>1. {"threshold_variable", "threshold_grid", "threshold_trim_frac"}
            \subseteq Copied("threshold") \ (NotHandedOn \cup {"lags", "deterministic"} \cup Shared)
      BY DEF Copied, Panels, Events, Causal, TimeSeries, Asymmetric, Surveys, Systems, Weighted,
             Locals, Durations, NotHandedOn, Shared
    <2>2. DOMAIN FilledIn("threshold") = {}
      BY DEF FilledIn, TimeSeries, Asymmetric, NoParams
    <2>3. QED
      BY <1>0, <2>1, <2>2, OwnHanded
  <1>8. \A value :
           GridOk(value) => /\ Ints(value)[3] \in 2..500
                            /\ (Expanded(value) = "increasing" \/ LostGrid(value))
    <2> SUFFICES ASSUME NEW value, GridOk(value)
                 PROVE  /\ Ints(value)[3] \in 2..500
                        /\ (Expanded(value) = "increasing" \/ LostGrid(value))
      OBVIOUS
    <2>1. /\ Len(Numbers(value)) = 3 /\ TruncInt(Numbers(value)[3]) \in 2..500
          /\ Numbers(value)[2] > Numbers(value)[1]
      BY DEF GridOk
    <2>2. Numbers(value)[1] \in Int /\ Numbers(value)[2] \in Int
      <3> DEFINE numbers == Numbers(value)
      <3>1. numbers \in Seq(Read1) /\ Len(numbers) = 3
        BY <2>1, NumbersAre DEF IsNumbers
      <3> HIDE DEF numbers
      <3>2. numbers[1] \in Read1 /\ numbers[2] \in Read1
        <4>1. 1 \in 1..Len(numbers) /\ 2 \in 1..Len(numbers)
          BY <3>1
        <4>2. QED
          BY <3>1, <4>1, ElementIs
      <3>3. numbers[1] \in Int /\ numbers[2] \in Int
        BY <3>2 DEF Read1, NaN
      <3>4. QED
        BY <3>3 DEF numbers
    <2>3. Ints(value)[3] = TruncInt(Numbers(value)[3])
      BY <2>1, IntsAre
    <2>4. ~(Numbers(value)[2] <= Numbers(value)[1])
      BY <2>1, <2>2
    <2>5. Expanded(value) = "increasing" \/ LostGrid(value)
      BY <2>4 DEF Expanded
    <2>6. QED
      BY <2>1, <2>3, <2>5
  <1>9. \A value : TrimOk(value) => Float(value) \in 0..44
    BY DEF TrimOk
  <1>10. /\ "threshold_variable" \in DOMAIN params /\ "threshold_grid" \in DOMAIN params
         /\ params["threshold_grid"].is[3] \in 2..500
         /\ \/ Expanded(params["threshold_grid"].text) = "increasing"
            \/ LostGrid(params["threshold_grid"].text)
    <2>1. Same(params, all, "threshold_variable") /\ Same(params, all, "threshold_grid")
      BY <1>2, <1>7
    <2>2. /\ "threshold_variable" \in DOMAIN params /\ "threshold_grid" \in DOMAIN params
          /\ params["threshold_grid"] = all["threshold_grid"]
      BY <1>5, <2>1 DEF Same
    <2>3. params["threshold_grid"].text = grid /\ params["threshold_grid"].is = Ints(grid)
      BY <1>5, <2>2
    <2>4. GridOk(grid)
      BY <1>1
    <2> HIDE DEF params, LostGrid
    <2>5. QED
      BY <1>8, <2>2, <2>3, <2>4
  <1>11. "threshold_trim_frac" \in DOMAIN params => Float(params["threshold_trim_frac"].text) \in 0..44
    BY <1>1, <1>2, <1>6, <1>7, <1>9 DEF Same
  <1> HIDE DEF params
  <1>12. QED
    <2>1. {p \in {"threshold_variable"} : p \notin DOMAIN params} = {}
      BY <1>10
    <2>2. {p \in {"threshold_grid"} :
             p \notin DOMAIN params \/ params[p].is[3] \notin 2..500
               \/ Expanded(params[p].text) # "increasing"} \subseteq LostInExpansion(params)
      BY <1>10 DEF LostInExpansion
    <2>3. {p \in {"threshold_trim_frac"} : ~Within(params, p, LAMBDA v : Float(v.text) \in 0..44)} = {}
      BY <1>11 DEF Within
    <2>4. QED
      BY <2>1, <2>2, <2>3 DEF NonlinearRules, params

(* Four tables on top of each other: what only one of them has.            *)
LEMMA Four ==
  ASSUME NEW p1, NEW p2, NEW p3, NEW p4, NEW p
  PROVE  /\ p \notin DOMAIN p2 \cup DOMAIN p3 \cup DOMAIN p4 => Same(((p1 @@ p2) @@ p3) @@ p4, p1, p)
         /\ p \notin DOMAIN p1 \cup DOMAIN p3 \cup DOMAIN p4 => Same(((p1 @@ p2) @@ p3) @@ p4, p2, p)
         /\ p \notin DOMAIN p1 \cup DOMAIN p2 \cup DOMAIN p4 => Same(((p1 @@ p2) @@ p3) @@ p4, p3, p)
         /\ p \notin DOMAIN p1 \cup DOMAIN p2 \cup DOMAIN p3 => Same(((p1 @@ p2) @@ p3) @@ p4, p4, p)
  <1> DEFINE two == p1 @@ p2
             three == two @@ p3
             all == three @@ p4
  <1>1. /\ p \notin DOMAIN p2 => Same(two, p1, p)
        /\ p \notin DOMAIN p1 => Same(two, p2, p)
    BY Upper, Lower
  <1> HIDE DEF two
  <1>2. /\ p \notin DOMAIN p3 => Same(three, two, p)
        /\ p \notin DOMAIN two => Same(three, p3, p)
    BY Upper, Lower
  <1> HIDE DEF three
  <1>3. /\ p \notin DOMAIN p4 => Same(all, three, p)
        /\ p \notin DOMAIN three => Same(all, p4, p)
    BY Upper, Lower
  <1> HIDE DEF all
  <1>4. /\ p \notin DOMAIN p2 \cup DOMAIN p3 \cup DOMAIN p4 => Same(all, p1, p)
        /\ p \notin DOMAIN p1 \cup DOMAIN p3 \cup DOMAIN p4 => Same(all, p2, p)
        /\ p \notin DOMAIN p1 \cup DOMAIN p2 \cup DOMAIN p4 => Same(all, p3, p)
        /\ p \notin DOMAIN p1 \cup DOMAIN p2 \cup DOMAIN p3 => Same(all, p4, p)
    BY <1>1, <1>2, <1>3 DEF Same
  <1>5. all = ((p1 @@ p2) @@ p3) @@ p4
    BY DEF all, three, two
  <1>6. QED
    BY <1>4, <1>5

(* The parts of what a volatility model and a time series are read with.   *)
GarchP1(c) == When(Has(c, "arch") \/ Has(c, "garch"),
                   [garch_p |-> [of |-> IF Has(c, "arch") THEN "arch" ELSE "garch", text |-> "",
                                 is |-> <<GarchP(c)>>]])
GarchP2(c) == When(Has(c, "garch"), [garch_q |-> [of |-> "garch", text |-> "", is |-> <<GarchQ(c)>>]])
GarchP3(c) == When(Given(c, "maxiter") /\ FirstInt(c.options["maxiter"]) >= 1,
                   [garch_max_iter |-> From(c, "maxiter")])
GarchP4(c) == When(Given(c, "tol") /\ Float(c.options["tol"]) > 0, [garch_tol |-> From(c, "tol")])

TimeP1(c) == Read(c, [time_column |-> "time", deterministic |-> "deterministic"])
TimeP2(c) == When(Has(c, "lags"), [lags |-> From(c, "lags")])
TimeP3(c, type) == When(type = "cointegration", Read(c, [ts_method |-> "method"]))
TimeP4(c, type) == When(type = "arima" /\ \E o \in {"ar", "i", "ma"} : Has(c, o),
                        [order |-> [of |-> "ar i ma", text |-> "",
                                    is |-> <<IntOf(c, "ar", 1), IntOf(c, "i", 0), IntOf(c, "ma", 0)>>]])
TimeP5(c, type) == When(c.words # << >>, IF type \in {"var", "cointegration"} THEN [variables |-> OfWords]
                                         ELSE [variable |-> OfWords])
TimeP6(c, type) == When(type = "arch", [arch_order |-> From(c, "arch")])
TimeP7(c, type) == When(type = "garch", GarchParams(c))

LEMMA GarchParts ==
  ASSUME NEW c
  PROVE  /\ Same(GarchParams(c), GarchP1(c), "garch_p")
         /\ Same(GarchParams(c), GarchP2(c), "garch_q")
         /\ Same(GarchParams(c), GarchP3(c), "garch_max_iter")
         /\ Same(GarchParams(c), GarchP4(c), "garch_tol")
         /\ DOMAIN GarchParams(c) \subseteq {"garch_p", "garch_q", "garch_max_iter", "garch_tol"}
  <1> DEFINE Names == {"garch_p", "garch_q", "garch_max_iter", "garch_tol"}
             all == ((GarchP1(c) @@ GarchP2(c)) @@ GarchP3(c)) @@ GarchP4(c)
  <1>1. GarchParams(c) = all
    BY DEF GarchParams, GarchP1, GarchP2, GarchP3, GarchP4
  <1>2. /\ DOMAIN GarchP1(c) \subseteq {"garch_p"} /\ DOMAIN GarchP2(c) \subseteq {"garch_q"}
        /\ DOMAIN GarchP3(c) \subseteq {"garch_max_iter"} /\ DOMAIN GarchP4(c) \subseteq {"garch_tol"}
    BY DEF GarchP1, GarchP2, GarchP3, GarchP4, When, NoParams
  <1>3. Same(all, GarchP1(c), "garch_p") /\ Same(all, GarchP2(c), "garch_q")
    BY <1>2, Four
  <1>4. Same(all, GarchP3(c), "garch_max_iter") /\ Same(all, GarchP4(c), "garch_tol")
    BY <1>2, Four
  <1>5. ASSUME NEW p, p \notin Names PROVE p \notin DOMAIN all
    <2>1. Same(all, GarchP1(c), p) /\ p \notin DOMAIN GarchP1(c)
      BY <1>2, <1>5, Four
    <2>2. QED
      BY <2>1 DEF Same
  <1> HIDE DEF all
  <1>6. QED
    BY <1>1, <1>3, <1>4, <1>5

LEMMA TimeParts ==
  ASSUME NEW c, NEW type, NEW p
  PROVE  /\ p \in {"time_column", "deterministic"} => Same(TimeParams(c, type), TimeP1(c), p)
         /\ p = "lags" => Same(TimeParams(c, type), TimeP2(c), p)
         /\ p = "ts_method" => Same(TimeParams(c, type), TimeP3(c, type), p)
         /\ p = "order" => Same(TimeParams(c, type), TimeP4(c, type), p)
         /\ p = "arch_order" => Same(TimeParams(c, type), TimeP6(c, type), p)
         /\ p \in {"garch_p", "garch_q", "garch_max_iter", "garch_tol"}
              => Same(TimeParams(c, type), TimeP7(c, type), p)
  <1> DEFINE four == ((TimeP1(c) @@ TimeP2(c)) @@ TimeP3(c, type)) @@ TimeP4(c, type)
             all == ((four @@ TimeP5(c, type)) @@ TimeP6(c, type)) @@ TimeP7(c, type)
             One4 == {"time_column", "deterministic", "lags", "ts_method", "order"}
             Garch == {"garch_p", "garch_q", "garch_max_iter", "garch_tol"}
  <1>1. TimeParams(c, type) = all
    BY DEF TimeParams, TimeP1, TimeP2, TimeP3, TimeP4, TimeP5, TimeP6, TimeP7
  <1>2. /\ DOMAIN TimeP1(c) \subseteq {"time_column", "deterministic"}
        /\ DOMAIN TimeP2(c) \subseteq {"lags"} /\ DOMAIN TimeP3(c, type) \subseteq {"ts_method"}
        /\ DOMAIN TimeP4(c, type) \subseteq {"order"}
    BY DEF TimeP1, TimeP2, TimeP3, TimeP4, When, Read, NoParams
  <1>3. /\ DOMAIN TimeP5(c, type) \subseteq {"variable", "variables"}
        /\ DOMAIN TimeP6(c, type) \subseteq {"arch_order"}
        /\ DOMAIN TimeP7(c, type) \subseteq Garch
    BY GarchParts DEF TimeP5, TimeP6, TimeP7, When, NoParams
  <1>4. /\ p \in {"time_column", "deterministic"} => Same(four, TimeP1(c), p)
        /\ p = "lags" => Same(four, TimeP2(c), p)
        /\ p = "ts_method" => Same(four, TimeP3(c, type), p)
        /\ p = "order" => Same(four, TimeP4(c, type), p)
    BY <1>2, Four
  <1>5. p \notin One4 => p \notin DOMAIN four
    <2>1. p \notin One4 => Same(four, TimeP1(c), p) /\ p \notin DOMAIN TimeP1(c)
      BY <1>2, Four
    <2>2. QED
      BY <2>1 DEF Same
  <1> HIDE DEF four
  <1>6. /\ p \in One4 => Same(all, four, p)
        /\ p = "arch_order" => Same(all, TimeP6(c, type), p)
        /\ p \in Garch => Same(all, TimeP7(c, type), p)
    BY <1>3, <1>5, Four
  <1> HIDE DEF all
  <1>7. QED
    BY <1>1, <1>4, <1>6 DEF Same

(* The orders of the volatility models lie under everything else a time    *)
(* series is read with.                                                    *)
LEMMA OrdersLast ==
  ASSUME NEW c, NEW type \in {"arch", "garch"}, NEW p \in {"arch_order", "garch_p", "garch_q"}
  PROVE  /\ type = "arch" => Same(OwnParams(c, type), [arch_order |-> From(c, "arch")], p)
         /\ type = "garch" => Same(OwnParams(c, type), GarchParams(c), p)
  <1>1. OwnParams(c, type) = TimeParams(c, type)
    BY DEF OwnParams, TimeSeries
  <1>2. /\ type = "arch" => TimeP6(c, type) = [arch_order |-> From(c, "arch")] /\ TimeP7(c, type) = NoParams
        /\ type = "garch" => TimeP6(c, type) = NoParams /\ TimeP7(c, type) = GarchParams(c)
    BY DEF When, TimeP6, TimeP7
  <1>3. DOMAIN NoParams = {} /\ DOMAIN [arch_order |-> From(c, "arch")] = {"arch_order"}
    BY DEF NoParams
  <1>4. "arch_order" \notin DOMAIN GarchParams(c)
    BY GarchParts
  <1>5. CASE p = "arch_order"
    BY <1>1, <1>2, <1>3, <1>4, <1>5, TimeParts DEF Same
  <1>6. CASE p \in {"garch_p", "garch_q"}
    BY <1>1, <1>2, <1>3, <1>6, TimeParts DEF Same
  <1>7. QED
    BY <1>5, <1>6

Orders == {"arch_order", "garch_p", "garch_q"}
LEMMA NotTooWide ==
  ASSUME NEW params, \A p \in Orders : p \in DOMAIN params => params[p].is[1] \in 1..12
  PROVE  Orders \cap TooWide(params) = {}
  <1> SUFFICES ASSUME NEW p \in Orders, p \in DOMAIN params
               PROVE  IntegersOf(params, p) \subseteq (-LargestI32 - 1)..LargestI32
    BY DEF TooWide
  <1>1. p \notin IntegerLists
    BY DEF Orders, IntegerLists
  <1>2. IntegersOf(params, p) = {params[p].is[1]}
    BY <1>1 DEF IntegersOf
  <1>3. 1..12 \subseteq (-LargestI32 - 1)..LargestI32
    BY DEF LargestI32
  <1>4. QED
    BY <1>2, <1>3

LEMMA ArchAgrees ==
  ASSUME NEW c, ModelSpec(c).kind = "spec", ModelSpec(c).type = "arch"
  PROVE  /\ ArchGarchRules("arch", Request(ModelSpec(c)).params) = {}
         /\ Orders \cap TooWide(Request(ModelSpec(c)).params) = {}
  <1> DEFINE params == Request(ModelSpec(c)).params
             own == OwnParams(c, "arch")
             arch == c.options["arch"]
             asked == [arch_order |-> From(c, "arch")]
  <1> USE DEF Panels, Events, Causal, TimeSeries, Asymmetric, Surveys, Systems, Weighted, Locals,
      Durations, TimeCopied
  <1>0. "arch" \in PlainTypes
    BY DEF PlainTypes
  <1>1. FirstInt(arch) \in 1..12
    <2>1. ModelType(c.verb) = "arch" /\ ValuesOk(c, "arch") /\ Missing(c, "arch") = {}
      BY <1>0, PlainByType, PlainSpec
    <2>2. Has(c, "arch")
      BY <2>1 DEF Missing
    <2>3. QED
      BY <2>1, <2>2 DEF ValuesOk, Checks, ArchOk
  <1>2. Same(own, asked, "arch_order")
    BY OrdersLast
  <1>3. DOMAIN FilledIn("arch") = {}
    BY DEF FilledIn, NoParams
  <1>4. Same(params, own, "arch_order")
    <2>1. "arch_order" \in Copied("arch") \ (NotHandedOn \cup {"lags", "deterministic"} \cup Shared)
      BY DEF Copied, NotHandedOn, Shared
    <2>2. QED
      BY <1>0, <1>3, <2>1, OwnHanded
  <1>5. "garch_p" \notin DOMAIN params /\ "garch_q" \notin DOMAIN params
    <2>1. "garch_p" \notin Copied("arch") /\ "garch_q" \notin Copied("arch")
      BY DEF Copied
    <2>2. QED
      BY <1>3, <2>1, NotSent
  <1>6. Ints(arch)[1] = FirstInt(arch)
    BY IntsAre, NumbersAre, FloatIs DEF FirstInt, IsNumbers
  <1>7. "arch_order" \in DOMAIN params /\ params["arch_order"].is[1] \in 1..12
    BY <1>1, <1>2, <1>4, <1>6 DEF Same, From
  <1> HIDE DEF params
  <1>8. ArchGarchRules("arch", params) = {}
    BY <1>5, <1>7 DEF ArchGarchRules, OrderOf
  <1>9. \A p \in Orders : p \in DOMAIN params => params[p].is[1] \in 1..12
    BY <1>5, <1>7 DEF Orders
  <1>10. Orders \cap TooWide(params) = {}
    BY <1>9, NotTooWide
  <1>11. QED
    BY <1>8, <1>10 DEF params

LEMMA GarchAgrees ==
  ASSUME NEW c, ModelSpec(c).kind = "spec", ModelSpec(c).type = "garch"
  PROVE  /\ ArchGarchRules("garch", Request(ModelSpec(c)).params) = {}
         /\ Orders \cap TooWide(Request(ModelSpec(c)).params) = {}
  <1> DEFINE params == Request(ModelSpec(c)).params
             own == OwnParams(c, "garch")
             q1 == GarchP1(c)
             q2 == GarchP2(c)
             orders == {"garch_p", "garch_q"}
  <1> USE DEF Panels, Events, Causal, TimeSeries, Asymmetric, Surveys, Systems, Weighted, Locals,
      Durations, TimeCopied
  <1>0. "garch" \in PlainTypes
    BY DEF PlainTypes
  <1>1. GarchOk(c)
    <2>1. ModelType(c.verb) = "garch" /\ ValuesOk(c, "garch")
      BY <1>0, PlainByType, PlainSpec
    <2>2. QED
      BY <2>1 DEF ValuesOk
  <1>2. /\ "garch_p" \in DOMAIN q1 <=> Has(c, "arch") \/ Has(c, "garch")
        /\ "garch_p" \in DOMAIN q1 => q1["garch_p"].is[1] = GarchP(c)
    BY DEF GarchP1, When, NoParams
  <1>3. /\ "garch_q" \in DOMAIN q2 <=> Has(c, "garch")
        /\ "garch_q" \in DOMAIN q2 => q2["garch_q"].is[1] = GarchQ(c)
    BY DEF GarchP2, When, NoParams
  <1>4. Same(GarchParams(c), q1, "garch_p") /\ Same(GarchParams(c), q2, "garch_q")
    BY GarchParts
  <1> HIDE DEF q1, q2
  <1>5. \A p \in orders : Same(own, GarchParams(c), p)
    BY OrdersLast
  <1>6. DOMAIN FilledIn("garch") = {}
    BY DEF FilledIn, NoParams
  <1>7. \A p \in orders : Same(params, own, p)
    <2>1. orders \subseteq Copied("garch") \ (NotHandedOn \cup {"lags", "deterministic"} \cup Shared)
      BY DEF Copied, NotHandedOn, Shared
    <2>2. QED
      BY <1>0, <1>6, <2>1, OwnHanded
  <1>8. Same(params, q1, "garch_p") /\ Same(params, q2, "garch_q")
    BY <1>4, <1>5, <1>7 DEF Same
  <1>9. "arch_order" \notin DOMAIN params
    <2>1. "arch_order" \notin Copied("garch")
      BY DEF Copied
    <2>2. QED
      BY <1>6, <2>1, NotSent
  <1> HIDE DEF params
  <1>10. OrderOf(params, "garch_p", 1) = GarchP(c)
    BY <1>2, <1>8 DEF Same, OrderOf, GarchP
  <1>11. OrderOf(params, "garch_q", 1) = GarchQ(c)
    BY <1>3, <1>8 DEF Same, OrderOf, GarchQ
  <1>12. GarchP(c) \in 1..5 /\ GarchQ(c) \in 1..5 /\ ~(GarchP(c) + GarchQ(c) > 8)
    BY <1>1 DEF GarchOk
  <1>13. ArchGarchRules("garch", params) = {}
    BY <1>9, <1>10, <1>11, <1>12 DEF ArchGarchRules
  <1>14. \A p \in Orders : p \in DOMAIN params => params[p].is[1] \in 1..12
    <2>1. /\ "garch_p" \in DOMAIN params => params["garch_p"].is[1] = GarchP(c)
          /\ "garch_q" \in DOMAIN params => params["garch_q"].is[1] = GarchQ(c)
      BY <1>2, <1>3, <1>8 DEF Same
    <2>2. QED
      BY <1>9, <1>12, <2>1 DEF Orders
  <1>15. Orders \cap TooWide(params) = {}
    BY <1>14, NotTooWide
  <1>16. QED
    BY <1>13, <1>15 DEF params

LEMMA SystemsAgree ==
  ASSUME NEW c, ModelSpec(c).kind = "spec", ModelSpec(c).type \in {"system_2sls", "system_3sls"}
  PROVE  SystemRules(ModelSpec(c).type, Request(ModelSpec(c)).params) \subseteq {"equations"}
  <1> DEFINE type == ModelSpec(c).type
             params == Request(ModelSpec(c)).params
             equations == [equations |-> Equations(c)]
             table == [system_endogenous |-> "endogenous", system_instruments |-> "instruments"]
             read == Read(c, table)
             all == equations @@ read
             names == {"equations", "system_endogenous", "system_instruments"}
  <1>1. ModelSpec(c) = Reg3(c) /\ Reg3(c).kind = "spec"
    <2>1. type \notin PlainTypes /\ type # "sur" /\ type # "duration_cox"
      BY DEF PlainTypes
    <2>2. CASE ModelSpec(c) = Plain(c) /\ c.verb \in PlainVerbs
      BY <2>1, <2>2, PlainSpec, TypesOfPlainVerbs
    <2>3. CASE ModelSpec(c) = Sur(c)
      BY <2>1, <2>3 DEF Sur, Fit, Refused
    <2>4. CASE ModelSpec(c) = Svy(c)
      <3>1. c.words[1] \in DOMAIN SurveyTypes /\ Svy(c).type = SurveyTypes[c.words[1]]
        BY <2>4 DEF Svy, Fit, Refused
      <3>2. QED
        BY <2>4, <3>1 DEF SurveyTypes
    <2>5. CASE ModelSpec(c) = Stcox(c)
      BY <2>1, <2>5 DEF Stcox, Fit, Refused
    <2>6. CASE ModelSpec(c) = Spreg(c)
      <3> DEFINE model == ValueOr(c, "model", "lag")
      <3>1. model \in DOMAIN SpatialType /\ Spreg(c).type = SpatialType[model]
        BY <2>6 DEF Spreg, Fit, Refused
      <3> HIDE DEF model
      <3>2. QED
        BY <2>6, <3>1 DEF SpatialType
    <2>7. QED
      BY <2>2, <2>3, <2>4, <2>5, <2>6, ModelSpecCases
  <1>2. /\ Given(c, "endogenous") /\ Given(c, "instruments")
        /\ BlocksOf(c.words) # {}
        /\ {Segments(c.options["endogenous"]), Segments(c.options["instruments"])} = BlocksOf(c.words)
        /\ Reg3(c).params = all
    BY <1>1 DEF Reg3, Fit, Refused
  <1>3. /\ Segments(c.options["endogenous"]) = Len(c.words)
        /\ Segments(c.options["instruments"]) = Len(c.words)
    BY <1>2 DEF BlocksOf
  <1>4. DOMAIN equations = {"equations"} /\ equations["equations"].is[1] = Len(c.words)
    BY DEF Equations
  <1>5. /\ {"system_endogenous", "system_instruments"} \subseteq DOMAIN read
        /\ read["system_endogenous"].text = c.options["endogenous"]
        /\ read["system_instruments"].text = c.options["instruments"]
    <2>1. /\ DOMAIN table = {"system_endogenous", "system_instruments"}
          /\ table["system_endogenous"] = "endogenous" /\ table["system_instruments"] = "instruments"
      OBVIOUS
    <2> HIDE DEF table
    <2>2. /\ {"system_endogenous", "system_instruments"} \subseteq DOMAIN read
          /\ read["system_endogenous"] = From(c, "endogenous")
          /\ read["system_instruments"] = From(c, "instruments")
      BY <1>2, <2>1, ReadOf
    <2> HIDE DEF read
    <2>3. QED
      BY <2>2 DEF From
  <1> HIDE DEF equations, read
  <1>6. /\ Same(all, equations, "equations") /\ Same(all, read, "system_endogenous")
        /\ Same(all, read, "system_instruments")
    BY <1>4, Upper, Lower
  <1>7. \A p \in names : Same(params, all, p)
    <2>1. names \subseteq Copied(type) \ (NotHandedOn \cup {"lags", "deterministic"})
      BY DEF Copied, Panels, Events, Causal, TimeSeries, Asymmetric, Surveys, Systems, Weighted,
             Locals, Durations, NotHandedOn
    <2>2. DOMAIN FilledIn(type) = {}
      BY DEF FilledIn, TimeSeries, Asymmetric, NoParams
    <2>3. \A p \in names : Same(params, ModelSpec(c).params, p)
      BY <2>1, <2>2, Handed
    <2>4. ModelSpec(c).params = all
      BY <1>1, <1>2
    <2> HIDE DEF all, params
    <2>5. QED
      BY <2>3, <2>4
  <1> HIDE DEF all
  <1>8. /\ params["equations"].is[1] = Len(c.words)
        /\ Segments(params["system_endogenous"].text) = Len(c.words)
        /\ Segments(params["system_instruments"].text) = Len(c.words)
    BY <1>3, <1>4, <1>5, <1>6, <1>7 DEF Same
  <1> HIDE DEF params
  <1>9. QED
    BY <1>8 DEF SystemRules, Within, params

(* The orders of the volatility models are i32 whenever they are sent, so  *)
(* of the integers only those the parser has no bound for are too wide.    *)
LEMMA OrdersElsewhere ==
  ASSUME NEW type \in ModelTypes \ {"arch", "garch"}
  PROVE  Orders \cap (Copied(type) \cup DOMAIN FilledIn(type)) = {}
  <1>1. CASE type \in TimeSeries
    <2>1. type \in {"arima", "var", "unitroot", "cointegration"}
      BY <1>1 DEF TimeSeries
    <2>2. Orders \cap Copied(type) = {}
      BY <2>1 DEF Orders, Copied, TimeCopied, Panels, Events, Causal, TimeSeries, Asymmetric, Surveys,
         Systems, Weighted, Locals, Durations, IvParams
    <2>3. DOMAIN FilledIn(type) \subseteq {"order", "lags"}
      BY <2>1 DEF FilledIn, TimeSeries, Asymmetric
    <2>4. QED
      BY <2>2, <2>3 DEF Orders
  <1>2. CASE type \notin TimeSeries
    <2>1. Orders \cap SpecParams(type) = {}
      BY <1>2 DEF Orders, SpecParams, ModelTypes, PlainTypes, LinearSpec, IvParams, PanelSpec, CausalSpec,
         SystemSpec, SurveySpec, SpatialSpec, DurationSpec, NonlinearSpec, QuantileSpec, Panels,
         Events, Discrete, Causal, Systems, TimeSeries, Asymmetric, Surveys, Weighted, Locals,
         Durations, Bayesian, BayesSpec
    <2>2. QED
      BY <2>1, FamiliesAgree
  <1>3. QED
    BY <1>1, <1>2

LEMMA OrdersAreNarrow ==
  ASSUME NEW c, ModelSpec(c).kind = "spec"
  PROVE  Orders \cap TooWide(Request(ModelSpec(c)).params) = {}
  <1> DEFINE type == ModelSpec(c).type
             params == Request(ModelSpec(c)).params
  <1>1. CASE type \in {"arch", "garch"}
    BY <1>1, ArchAgrees, GarchAgrees
  <1>2. CASE type \notin {"arch", "garch"}
    <2>1. Orders \cap (Copied(type) \cup DOMAIN FilledIn(type)) = {}
      BY <1>2, OrdersElsewhere, TypesOfModels
    <2>2. Orders \cap DOMAIN params = {}
      BY <2>1, NotSent
    <2> HIDE DEF params
    <2>3. Orders \cap TooWide(params) = {}
      BY <2>2 DEF TooWide
    <2>4. QED
      BY <2>3 DEF params
  <1>3. QED
    BY <1>1, <1>2

LEMMA UnreadableIs ==
  ASSUME NEW c, ModelSpec(c).kind = "spec"
  PROVE  LET params == Request(ModelSpec(c)).params
         IN  Unreadable(params)
               \subseteq LeftToTheRuntime \cup (TooWide(params) \cap Unbounded) \cup LostInExpansion(params)
  <1> DEFINE params == Request(ModelSpec(c)).params
  <1>1. Orders \cap TooWide(params) = {}
    BY OrdersAreNarrow
  <1> HIDE DEF params
  <1>2. TooWide(params) \subseteq LeftToTheRuntime \cup (TooWide(params) \cap Unbounded)
    BY <1>1 DEF TooWide, IntegerFields, IntegerLists, LeftToTheRuntime, Unbounded, Orders
  <1>3. \A value : Expanded(value) = "not finite" => Overflows(Numbers(value))
    BY DEF Expanded
  <1>4. {p \in DOMAIN params \cap {"threshold_grid"} : Expanded(params[p].text) = "not finite"}
          \subseteq LostInExpansion(params)
    BY <1>3 DEF LostInExpansion
  <1>5. IntegerLists \subseteq LeftToTheRuntime
    BY DEF IntegerLists, LeftToTheRuntime
  <1>6. QED
    BY <1>2, <1>4, <1>5 DEF Unreadable, params

(* Whatever was typed, with as many words and options as one likes: of     *)
(* what the parser lets through the runtime refuses the parameters the     *)
(* parser leaves to it, an integer the parser does not bound that is no    *)
(* i32, and a grid lost in its expansion, and no other.  Shares, starting  *)
(* values and orders are inside what validate_model_specific_rules takes.  *)
THEOREM ParserAndRuntimeAgree == Spec => []RuntimeAgrees
  <1>1. Answers => RuntimeAgrees
    <2> SUFFICES ASSUME Answers, Sent, outcome.verdict.kind \in {"unreadable", "invalid"}
                 PROVE  outcome.verdict.fields
                          \subseteq LeftToTheRuntime \cup (TooWide(outcome.request.params) \cap Unbounded)
                                   \cup LostInExpansion(outcome.request.params)
      BY DEF RuntimeAgrees
    <2> DEFINE spec == ModelSpec(line)
               params == Request(spec).params
               type == spec.type
               excepted == LeftToTheRuntime \cup (TooWide(params) \cap Unbounded)
                             \cup LostInExpansion(params)
    <2>1. /\ spec.kind = "spec" /\ outcome.request.params = params
          /\ outcome.verdict = Validated(Request(spec))
      BY DEF Answers, Modelled
    <2>2. Request(spec).type = type /\ type \in ModelTypes
      BY <2>1, TypesOfModels DEF Request
    <2>3. \/ outcome.verdict.fields = Unreadable(params)
          \/ outcome.verdict.fields = RefusedValues(type, params)
      BY <2>1, <2>2 DEF Validated
    <2>4. Unreadable(params) \subseteq excepted
      BY <2>1, UnreadableIs
    <2>5. LeftToTheRuntime \subseteq excepted /\ LostInExpansion(params) \subseteq excepted
      OBVIOUS
    <2> HIDE DEF excepted
    <2>6. RefusedValues(type, params) \subseteq excepted
      <3>1. CASE type \in {"gmm_linear", "dynamic_panel_gmm"}
        <4>1. RefusedValues(type, params) \subseteq LeftToTheRuntime
          BY <3>1 DEF RefusedValues, GmmPanelRules, LeftToTheRuntime, Systems
        <4>2. QED
          BY <2>5, <4>1
      <3>2. CASE type = "sur"
        <4>1. RefusedValues(type, params) \subseteq LeftToTheRuntime
          BY <3>2 DEF RefusedValues, SystemRules, LeftToTheRuntime, Systems
        <4>2. QED
          BY <2>5, <4>1
      <3>3. CASE type \in {"system_2sls", "system_3sls"}
        <4>1. RefusedValues(type, params) \subseteq LeftToTheRuntime
          BY <2>1, <3>3, SystemsAgree DEF RefusedValues, LeftToTheRuntime, Systems
        <4>2. QED
          BY <2>5, <4>1
      <3>4. CASE type = "quantile"
        BY <2>1, <3>4, QuantileAgrees DEF RefusedValues, Systems
      <3>5. CASE type = "nls"
        BY <2>1, <3>5, NlsAgrees DEF RefusedValues, Systems
      <3>6. CASE type = "threshold"
        <4>1. RefusedValues(type, params) \subseteq LostInExpansion(params)
          BY <2>1, <3>6, ThresholdAgrees DEF RefusedValues, Systems
        <4>2. QED
          BY <2>5, <4>1
      <3>7. CASE type \in {"arch", "garch"}
        BY <2>1, <3>7, ArchAgrees, GarchAgrees DEF RefusedValues, Systems
      <3>8. CASE type \notin {"gmm_linear", "dynamic_panel_gmm", "sur", "system_2sls", "system_3sls",
                             "quantile", "nls", "threshold", "arch", "garch"}
        BY <3>8 DEF RefusedValues, Systems
      <3>9. QED
        BY <3>1, <3>2, <3>3, <3>4, <3>5, <3>6, <3>7, <3>8
    <2>7. outcome.verdict.fields \subseteq excepted
      BY <2>3, <2>4, <2>6
    <2>8. QED
      BY <2>1, <2>7 DEF excepted
  <1>2. QED
    BY <1>1, AnswersInit, AnswersStep, PTL DEF Spec

-----------------------------------------------------------------------------
(* Where a verb is found.                                                  *)
LEMMA VerbsOfTables ==
  /\ DOMAIN LookVerbs = {"use", "describe", "browse", "summarize", "tabulate"}
  /\ DOMAIN TransformVerbs = {"filter", "impute_missing", "generate", "replace", "drop", "keep",
                              "rename", "sort", "merge", "reshape", "collapse"}
  /\ DOMAIN SingleVerbs = {"regress", "qreg", "nls", "threg", "ivregress", "gmm"}
  /\ DOMAIN SystemVerbs = {"sur", "reg3"}
  /\ DOMAIN PanelVerbs = {"gls", "xtreg", "xtivreg", "xtabond"}
  /\ DOMAIN DiscreteVerbs = {"logit", "probit", "poisson", "ologit", "mlogit", "nbreg"}
  /\ DOMAIN CausalVerbs = {"did", "eventstudy", "ipw", "psm", "aipw"}
  /\ DOMAIN TimeVerbs = {"arima", "var", "dfuller", "arch", "garch", "coint"}
  /\ DOMAIN SpatialVerbs = {"spreg", "gwr", "gtwr", "spprobit"}
  /\ DOMAIN OtherModels = {"bayesreg", "stcox", "svy"}
  <1>1. DOMAIN LookVerbs = {"use", "describe", "browse", "summarize", "tabulate"}
    BY DEF LookVerbs
  <1>2. DOMAIN TransformVerbs = {"filter", "impute_missing", "generate", "replace", "drop", "keep",
                                 "rename", "sort", "merge", "reshape", "collapse"}
    BY DEF TransformVerbs, @@
  <1>3. DOMAIN SingleVerbs = {"regress", "qreg", "nls", "threg", "ivregress", "gmm"}
    BY DEF SingleVerbs, @@
  <1>4. DOMAIN SystemVerbs = {"sur", "reg3"}
    BY DEF SystemVerbs, @@
  <1>5. DOMAIN PanelVerbs = {"gls", "xtreg", "xtivreg", "xtabond"}
    BY DEF PanelVerbs, @@
  <1>6. DOMAIN DiscreteVerbs = {"logit", "probit", "poisson", "ologit", "mlogit", "nbreg"}
    BY DEF DiscreteVerbs
  <1>7. DOMAIN CausalVerbs = {"did", "eventstudy", "ipw", "psm", "aipw"}
    BY DEF CausalVerbs, @@
  <1>8. DOMAIN TimeVerbs = {"arima", "var", "dfuller", "arch", "garch", "coint"}
    BY DEF TimeVerbs, @@
  <1>9. DOMAIN SpatialVerbs = {"spreg", "gwr", "gtwr", "spprobit"}
    BY DEF SpatialVerbs, @@
  <1>10. DOMAIN OtherModels = {"bayesreg", "stcox", "svy"}
    BY DEF OtherModels
  <1>11. QED
    BY <1>1, <1>2, <1>3, <1>4, <1>5, <1>6, <1>7, <1>8, <1>9, <1>10

LEMMA Beside ==
  ASSUME NEW f, NEW g, DOMAIN f \cap DOMAIN g = {}
  PROVE  /\ DOMAIN (f @@ g) = DOMAIN f \cup DOMAIN g
         /\ \A x \in DOMAIN f : (f @@ g)[x] = f[x]
         /\ \A x \in DOMAIN g : (f @@ g)[x] = g[x]
  BY Merged DEF @@

Holds(table, part) == \A v \in DOMAIN part : v \in DOMAIN table /\ table[v] = part[v]

LEMMA Added ==
  ASSUME NEW f, NEW g
  PROVE  /\ \A part : Holds(f, part) => Holds(f @@ g, part)
         /\ DOMAIN f \cap DOMAIN g = {} => Holds(f @@ g, g)
         /\ DOMAIN (f @@ g) = DOMAIN f \cup DOMAIN g
  <1> DEFINE both == f @@ g
  <1>1. /\ DOMAIN both = DOMAIN f \cup DOMAIN g
        /\ \A x \in DOMAIN f : both[x] = f[x]
        /\ \A x \in DOMAIN g \ DOMAIN f : both[x] = g[x]
    BY Merged DEF @@
  <1> HIDE DEF both
  <1>2. /\ \A part : Holds(f, part) => Holds(both, part)
        /\ DOMAIN f \cap DOMAIN g = {} => Holds(both, g)
        /\ DOMAIN both = DOMAIN f \cup DOMAIN g
    BY <1>1 DEF Holds
  <1>3. QED
    BY <1>2 DEF both

LEMMA GrammarRows ==
  /\ Holds(Grammars, TransformVerbs)
  /\ Holds(Grammars, SingleVerbs)
  /\ Holds(Grammars, SystemVerbs)
  /\ Holds(Grammars, PanelVerbs)
  /\ Holds(Grammars, DiscreteVerbs)
  /\ Holds(Grammars, CausalVerbs)
  /\ Holds(Grammars, TimeVerbs)
  /\ Holds(Grammars, SpatialVerbs)
  /\ Holds(Grammars, OtherModels)
  <1> DEFINE g1 == LookVerbs @@ TransformVerbs
             g2 == g1 @@ SingleVerbs
             g3 == g2 @@ SystemVerbs
             g4 == g3 @@ PanelVerbs
             g5 == g4 @@ DiscreteVerbs
             g6 == g5 @@ CausalVerbs
             g7 == g6 @@ TimeVerbs
             g8 == g7 @@ SpatialVerbs
             g9 == g8 @@ OtherModels
             g10 == g9 @@ DiagnosticVerbs
             g11 == g10 @@ PostestVerbs
             g12 == g11 @@ ProjectVerbs
  <1>0. Grammars = g12 @@ ExportVerbs
    BY DEF Grammars
  <1>1. Holds(g1, TransformVerbs) /\ DOMAIN g1 = DOMAIN LookVerbs \cup DOMAIN TransformVerbs
    BY Added, VerbsOfTables DEF @@
  <1> HIDE DEF g1
  <1>2. /\ DOMAIN g2 = DOMAIN g1 \cup DOMAIN SingleVerbs
        /\ Holds(g2, TransformVerbs)
        /\ Holds(g2, SingleVerbs)
    <2>1. DOMAIN g1 \cap DOMAIN SingleVerbs = {}
      BY <1>1, VerbsOfTables
    <2>2. QED
      BY <1>1, <2>1, Added DEF @@
  <1> HIDE DEF g2
  <1>3. /\ DOMAIN g3 = DOMAIN g2 \cup DOMAIN SystemVerbs
        /\ Holds(g3, TransformVerbs)
        /\ Holds(g3, SingleVerbs)
        /\ Holds(g3, SystemVerbs)
    <2>1. DOMAIN g2 \cap DOMAIN SystemVerbs = {}
      BY <1>1, <1>2, VerbsOfTables
    <2>2. QED
      BY <1>2, <2>1, Added DEF @@
  <1> HIDE DEF g3
  <1>4. /\ DOMAIN g4 = DOMAIN g3 \cup DOMAIN PanelVerbs
        /\ Holds(g4, TransformVerbs)
        /\ Holds(g4, SingleVerbs)
        /\ Holds(g4, SystemVerbs)
        /\ Holds(g4, PanelVerbs)
    <2>1. DOMAIN g3 \cap DOMAIN PanelVerbs = {}
      BY <1>1, <1>2, <1>3, VerbsOfTables
    <2>2. QED
      BY <1>3, <2>1, Added DEF @@
  <1> HIDE DEF g4
  <1>5. /\ DOMAIN g5 = DOMAIN g4 \cup DOMAIN DiscreteVerbs
        /\ Holds(g5, TransformVerbs)
        /\ Holds(g5, SingleVerbs)
        /\ Holds(g5, SystemVerbs)
        /\ Holds(g5, PanelVerbs)
        /\ Holds(g5, DiscreteVerbs)
    <2>1. DOMAIN g4 \cap DOMAIN DiscreteVerbs = {}
      BY <1>1, <1>2, <1>3, <1>4, VerbsOfTables
    <2>2. QED
      BY <1>4, <2>1, Added DEF @@
  <1> HIDE DEF g5
  <1>6. /\ DOMAIN g6 = DOMAIN g5 \cup DOMAIN CausalVerbs
        /\ Holds(g6, TransformVerbs)
        /\ Holds(g6, SingleVerbs)
        /\ Holds(g6, SystemVerbs)
        /\ Holds(g6, PanelVerbs)
        /\ Holds(g6, DiscreteVerbs)
        /\ Holds(g6, CausalVerbs)
    <2>1. DOMAIN g5 \cap DOMAIN CausalVerbs = {}
      BY <1>1, <1>2, <1>3, <1>4, <1>5, VerbsOfTables
    <2>2. QED
      BY <1>5, <2>1, Added DEF @@
  <1> HIDE DEF g6
  <1>7. /\ DOMAIN g7 = DOMAIN g6 \cup DOMAIN TimeVerbs
        /\ Holds(g7, TransformVerbs)
        /\ Holds(g7, SingleVerbs)
        /\ Holds(g7, SystemVerbs)
        /\ Holds(g7, PanelVerbs)
        /\ Holds(g7, DiscreteVerbs)
        /\ Holds(g7, CausalVerbs)
        /\ Holds(g7, TimeVerbs)
    <2>1. DOMAIN g6 \cap DOMAIN TimeVerbs = {}
      BY <1>1, <1>2, <1>3, <1>4, <1>5, <1>6, VerbsOfTables
    <2>2. QED
      BY <1>6, <2>1, Added DEF @@
  <1> HIDE DEF g7
  <1>8. /\ DOMAIN g8 = DOMAIN g7 \cup DOMAIN SpatialVerbs
        /\ Holds(g8, TransformVerbs)
        /\ Holds(g8, SingleVerbs)
        /\ Holds(g8, SystemVerbs)
        /\ Holds(g8, PanelVerbs)
        /\ Holds(g8, DiscreteVerbs)
        /\ Holds(g8, CausalVerbs)
        /\ Holds(g8, TimeVerbs)
        /\ Holds(g8, SpatialVerbs)
    <2>1. DOMAIN g7 \cap DOMAIN SpatialVerbs = {}
      BY <1>1, <1>2, <1>3, <1>4, <1>5, <1>6, <1>7, VerbsOfTables
    <2>2. QED
      BY <1>7, <2>1, Added DEF @@
  <1> HIDE DEF g8
  <1>9. /\ DOMAIN g9 = DOMAIN g8 \cup DOMAIN OtherModels
        /\ Holds(g9, TransformVerbs)
        /\ Holds(g9, SingleVerbs)
        /\ Holds(g9, SystemVerbs)
        /\ Holds(g9, PanelVerbs)
        /\ Holds(g9, DiscreteVerbs)
        /\ Holds(g9, CausalVerbs)
        /\ Holds(g9, TimeVerbs)
        /\ Holds(g9, SpatialVerbs)
        /\ Holds(g9, OtherModels)
    <2>1. DOMAIN g8 \cap DOMAIN OtherModels = {}
      BY <1>1, <1>2, <1>3, <1>4, <1>5, <1>6, <1>7, <1>8, VerbsOfTables
    <2>2. QED
      BY <1>8, <2>1, Added DEF @@
  <1> HIDE DEF g9
  <1>10. /\ Holds(g10, TransformVerbs)
        /\ Holds(g10, SingleVerbs)
        /\ Holds(g10, SystemVerbs)
        /\ Holds(g10, PanelVerbs)
        /\ Holds(g10, DiscreteVerbs)
        /\ Holds(g10, CausalVerbs)
        /\ Holds(g10, TimeVerbs)
        /\ Holds(g10, SpatialVerbs)
        /\ Holds(g10, OtherModels)
    BY <1>9, Added DEF @@
  <1> HIDE DEF g10
  <1>11. /\ Holds(g11, TransformVerbs)
        /\ Holds(g11, SingleVerbs)
        /\ Holds(g11, SystemVerbs)
        /\ Holds(g11, PanelVerbs)
        /\ Holds(g11, DiscreteVerbs)
        /\ Holds(g11, CausalVerbs)
        /\ Holds(g11, TimeVerbs)
        /\ Holds(g11, SpatialVerbs)
        /\ Holds(g11, OtherModels)
    BY <1>10, Added DEF @@
  <1> HIDE DEF g11
  <1>12. /\ Holds(g12, TransformVerbs)
        /\ Holds(g12, SingleVerbs)
        /\ Holds(g12, SystemVerbs)
        /\ Holds(g12, PanelVerbs)
        /\ Holds(g12, DiscreteVerbs)
        /\ Holds(g12, CausalVerbs)
        /\ Holds(g12, TimeVerbs)
        /\ Holds(g12, SpatialVerbs)
        /\ Holds(g12, OtherModels)
    BY <1>11, Added DEF @@
  <1> HIDE DEF g12
  <1>13. QED
    BY <1>0, <1>12, Added DEF @@

-----------------------------------------------------------------------------
(* The options of a verb: their names, the required ones, and the values   *)
(* they are limited to.                                                    *)
Choices ==
  {"true", "false", "inner", "left", "right", "outer", "mean", "sum", "sd", "min", "max", "count",
   "one_step", "two_step", "exp_growth", "3sls", "twostep", "fe", "re", "fd", "between", "hdfe",
   "cre", "difference", "system", "constant", "trend", "none", "engle_granger", "johansen", "lag",
   "error", "sar", "sem", "slx", "sdm", "sdem", "sac"}
Offers(table, names, required) ==
  /\ DOMAIN table = names
  /\ \A o \in names : /\ table[o].required <=> o \in required
                      /\ table[o].values \subseteq Choices

LEMMA Leaves ==
  /\ \A names : Offers(Free(names), names, {})
  /\ \A names : Offers(Must(names), names, names)
  /\ \A o : \A vals \in SUBSET Choices : /\ Offers(OneOf(o, vals), {o}, {})
                                       /\ Offers(MustBeOneOf(o, vals), {o}, {o})
  /\ \A o : Offers(Flag(o), {o}, {})
  <1>1. /\ \A names : Offers(Free(names), names, {})
        /\ \A names : Offers(Must(names), names, names)
    BY DEF Offers, Free, Must, Option
  <1>2. \A o : \A vals \in SUBSET Choices : /\ Offers(OneOf(o, vals), {o}, {})
                                         /\ Offers(MustBeOneOf(o, vals), {o}, {o})
    BY Single DEF Offers, OneOf, MustBeOneOf, Option, :>
  <1>3. \A o : Offers(Flag(o), {o}, {})
    BY <1>2 DEF Flag, Choices
  <1>4. QED
    BY <1>1, <1>2, <1>3

LEMMA Both ==
  ASSUME NEW f, NEW g, NEW names, NEW others, NEW required, NEW alsoRequired,
         Offers(f, names, required), Offers(g, others, alsoRequired), names \cap others = {},
         required \subseteq names, alsoRequired \subseteq others
  PROVE  Offers(f @@ g, names \cup others, required \cup alsoRequired)
  <1>1. /\ DOMAIN (f @@ g) = names \cup others
        /\ \A x \in names : (f @@ g)[x] = f[x]
        /\ \A x \in others : (f @@ g)[x] = g[x]
    BY Beside DEF @@, Offers
  <1> DEFINE both == f @@ g
  <1> HIDE DEF both
  <1>2. Offers(both, names \cup others, required \cup alsoRequired)
    BY <1>1 DEF Offers, both
  <1>3. QED
    BY <1>2 DEF both

LEMMA ModelOffers ==
  ASSUME NEW extra, NEW names, NEW required, Offers(extra, names, required),
         required \subseteq names, "robust" \notin names, "cluster" \notin names
  PROVE  Offers(Model(extra).options, names \cup {"robust", "cluster"}, required)
  <1> DEFINE shared == Flag("robust") @@ Free({"cluster"})
  <1>1. Offers(shared, {"robust"} \cup {"cluster"}, {} \cup {})
    BY Leaves, Both DEF @@
  <1>2. Model(extra).options = shared @@ extra
    BY DEF Model, Verb, @@
  <1> HIDE DEF shared
  <1>3. Offers(shared @@ extra, ({"robust"} \cup {"cluster"}) \cup names, ({} \cup {}) \cup required)
    BY <1>1, Both DEF @@
  <1>4. QED
    BY <1>2, <1>3 DEF @@, Offers

LEMMA OptionsOf ==
  /\ Offers(Grammars["replace"].options, {"value", "if"}, {"value", "if"})
  /\ Offers(Grammars["merge"].options, {"on", "how"}, {"on"})
  /\ Offers(Grammars["reshape"].options, {"id", "time"}, {"id", "time"})
  /\ Offers(Grammars["collapse"].options, {"by", "stats"}, {"by", "stats"})
  /\ Offers(Grammars["regress"].options, {"noconstant", "weights", "robust", "cluster"}, {})
  /\ Offers(Grammars["qreg"].options, {"quantile", "noconstant", "robust", "cluster"}, {})
  /\ Offers(Grammars["nls"].options,
            {"family", "start", "maxiter", "tol", "noconstant", "robust", "cluster"}, {"start"})
  /\ Offers(Grammars["threg"].options,
            {"qvar", "grid", "trim", "noconstant", "robust", "cluster"}, {"qvar", "grid"})
  /\ Offers(Grammars["ivregress"].options,
            {"endogenous", "instruments", "robust", "cluster"}, {})
  /\ Offers(Grammars["gmm"].options,
            {"endogenous", "instruments", "weight", "robust", "cluster"}, {})
  /\ Offers(Grammars["sur"].options, {"robust", "cluster", "maxiter", "tol"}, {})
  /\ Offers(Grammars["reg3"].options,
            {"endogenous", "instruments", "method"}, {"endogenous", "instruments"})
  /\ Offers(Grammars["gls"].options, {"weights", "robust", "cluster"}, {})
  /\ Offers(Grammars["xtreg"].options,
            {"id", "time", "method", "robust", "cluster"}, {"id", "time", "method"})
  /\ Offers(Grammars["xtivreg"].options,
            {"id", "time", "method", "endogenous", "instruments", "robust", "cluster"},
            {"id", "time", "method"})
  /\ Offers(Grammars["xtabond"].options,
            {"id", "time", "lags", "weight", "style", "collapse", "robust", "cluster"},
            {"id", "time", "lags"})
  /\ Offers(Grammars["did"].options,
            {"id", "time", "treat", "post", "robust", "cluster"},
            {"id", "time", "treat", "post"})
  /\ Offers(Grammars["eventstudy"].options,
            {"id", "time", "treat", "eventtime", "robust", "cluster"},
            {"id", "time", "treat", "eventtime"})
  /\ Offers(Grammars["ipw"].options,
            {"treat", "outcome", "propensity", "robust", "cluster"}, {"treat"})
  /\ Offers(Grammars["psm"].options,
            {"treat", "outcome", "propensity", "robust", "cluster"}, {"treat"})
  /\ Offers(Grammars["aipw"].options,
            {"treat", "outcome", "propensity", "outcome_model", "robust", "cluster"}, {"treat"})
  /\ Offers(Grammars["arima"].options, {"time", "ar", "i", "ma", "robust", "cluster"}, {})
  /\ Offers(Grammars["var"].options, {"time", "lags", "robust", "cluster"}, {"lags"})
  /\ Offers(Grammars["dfuller"].options, {"time", "deterministic", "robust", "cluster"}, {})
  /\ Offers(Grammars["arch"].options,
            {"time", "maxiter", "tol", "arch", "robust", "cluster"}, {"arch"})
  /\ Offers(Grammars["garch"].options,
            {"time", "arch", "garch", "maxiter", "tol", "robust", "cluster"}, {})
  /\ Offers(Grammars["coint"].options,
            {"time", "lags", "deterministic", "method", "robust", "cluster"}, {})
  /\ Offers(Grammars["spreg"].options,
            {"spatial_weights", "id", "weights", "spatial_id", "rowstd", "model", "robust", "cluster"},
            {"spatial_weights", "id"})
  /\ Offers(Grammars["svy"].options, {"strata", "psu", "weights"}, {})
  <1>1. Offers(Grammars["replace"].options, {"value", "if"}, {"value", "if"})
    <2>1. Offers(Must({"value", "if"}), {"value", "if"}, {"value", "if"})
      BY Leaves DEF Choices
    <2>2. Grammars["replace"].options = Must({"value", "if"})
      BY GrammarRows, VerbsOfTables DEF Holds, TransformVerbs, Data, Verb, @@
    <2>3. QED
      BY <2>1, <2>2 DEF @@
  <1>2. Offers(Grammars["merge"].options, {"on", "how"}, {"on"})
    <2>1. Offers(Must({"on"}), {"on"}, {"on"})
      BY Leaves DEF Choices
    <2>2. Offers(OneOf("how", {"inner", "left", "right", "outer"}), {"how"}, {})
      BY Leaves DEF Choices
    <2>3. Offers(Must({"on"}) @@ OneOf("how", {"inner", "left", "right", "outer"}),
                 {"on"} \cup {"how"}, {"on"} \cup {})
      BY <2>1, <2>2, Both DEF @@
    <2>4. Offers(Must({"on"}) @@ OneOf("how", {"inner", "left", "right", "outer"}),
                 {"on", "how"}, {"on"})
      BY <2>3 DEF Offers
    <2>5. Grammars["merge"].options = Must({"on"})
                @@ OneOf("how", {"inner", "left", "right", "outer"})
      BY GrammarRows, VerbsOfTables DEF Holds, TransformVerbs, Data, Verb, @@
    <2>6. QED
      BY <2>4, <2>5 DEF @@
  <1>3. Offers(Grammars["reshape"].options, {"id", "time"}, {"id", "time"})
    <2>1. Offers(Must({"id", "time"}), {"id", "time"}, {"id", "time"})
      BY Leaves DEF Choices
    <2>2. Grammars["reshape"].options = Must({"id", "time"})
      BY GrammarRows, VerbsOfTables DEF Holds, TransformVerbs, Data, Verb, @@
    <2>3. QED
      BY <2>1, <2>2 DEF @@
  <1>4. Offers(Grammars["collapse"].options, {"by", "stats"}, {"by", "stats"})
    <2>1. Offers(Must({"by"}), {"by"}, {"by"})
      BY Leaves DEF Choices
    <2>2. Offers(MustBeOneOf("stats", {"mean", "sum", "sd", "min", "max", "count"}),
                 {"stats"}, {"stats"})
      BY Leaves DEF Choices
    <2>3. Offers(Must({"by"})
                   @@ MustBeOneOf("stats", {"mean", "sum", "sd", "min", "max", "count"}),
                 {"by"} \cup {"stats"}, {"by"} \cup {"stats"})
      BY <2>1, <2>2, Both DEF @@
    <2>4. Offers(Must({"by"})
                   @@ MustBeOneOf("stats", {"mean", "sum", "sd", "min", "max", "count"}),
                 {"by", "stats"}, {"by", "stats"})
      BY <2>3 DEF Offers
    <2>5. Grammars["collapse"].options = Must({"by"})
                @@ MustBeOneOf("stats", {"mean", "sum", "sd", "min", "max", "count"})
      BY GrammarRows, VerbsOfTables DEF Holds, TransformVerbs, Data, Verb, @@
    <2>6. QED
      BY <2>4, <2>5 DEF @@
  <1>5. Offers(Grammars["regress"].options, {"noconstant", "weights", "robust", "cluster"}, {})
    <2>1. Offers(Flag("noconstant"), {"noconstant"}, {})
      BY Leaves DEF Choices
    <2>2. Offers(Free({"weights"}), {"weights"}, {})
      BY Leaves DEF Choices
    <2>3. Offers(Flag("noconstant") @@ Free({"weights"}),
                 {"noconstant"} \cup {"weights"}, {} \cup {})
      BY <2>1, <2>2, Both DEF @@
    <2>4. Offers(Flag("noconstant") @@ Free({"weights"}), {"noconstant", "weights"}, {})
      BY <2>3 DEF Offers
    <2>5. Grammars["regress"] = Model(Flag("noconstant") @@ Free({"weights"}))
      BY GrammarRows, VerbsOfTables DEF Holds, SingleVerbs, @@
    <2>6. Offers(Model(Flag("noconstant") @@ Free({"weights"})).options,
                {"noconstant", "weights"} \cup {"robust", "cluster"}, {})
      BY <2>4, ModelOffers DEF @@
    <2>7. QED
      BY <2>5, <2>6 DEF Offers, @@
  <1>6. Offers(Grammars["qreg"].options, {"quantile", "noconstant", "robust", "cluster"}, {})
    <2>1. Offers(Free({"quantile"}), {"quantile"}, {})
      BY Leaves DEF Choices
    <2>2. Offers(Flag("noconstant"), {"noconstant"}, {})
      BY Leaves DEF Choices
    <2>3. Offers(Free({"quantile"}) @@ Flag("noconstant"),
                 {"quantile"} \cup {"noconstant"}, {} \cup {})
      BY <2>1, <2>2, Both DEF @@
    <2>4. Offers(Free({"quantile"}) @@ Flag("noconstant"), {"quantile", "noconstant"}, {})
      BY <2>3 DEF Offers
    <2>5. Grammars["qreg"] = Model(Free({"quantile"}) @@ Flag("noconstant"))
      BY GrammarRows, VerbsOfTables DEF Holds, SingleVerbs, @@
    <2>6. Offers(Model(Free({"quantile"}) @@ Flag("noconstant")).options,
                {"quantile", "noconstant"} \cup {"robust", "cluster"}, {})
      BY <2>4, ModelOffers DEF @@
    <2>7. QED
      BY <2>5, <2>6 DEF Offers, @@
  <1>7. Offers(Grammars["nls"].options,
               {"family", "start", "maxiter", "tol", "noconstant", "robust", "cluster"},
               {"start"})
    <2>1. Offers(OneOf("family", {"exp_growth"}), {"family"}, {})
      BY Leaves DEF Choices
    <2>2. Offers(Must({"start"}), {"start"}, {"start"})
      BY Leaves DEF Choices
    <2>3. Offers(OneOf("family", {"exp_growth"}) @@ Must({"start"}),
                 {"family"} \cup {"start"}, {} \cup {"start"})
      BY <2>1, <2>2, Both DEF @@
    <2>4. Offers(Free({"maxiter", "tol"}), {"maxiter", "tol"}, {})
      BY Leaves DEF Choices
    <2>5. Offers(OneOf("family", {"exp_growth"}) @@ Must({"start"}) @@ Free({"maxiter", "tol"}),
                 {"family"} \cup {"start"} \cup {"maxiter", "tol"}, {} \cup {"start"} \cup {})
      BY <2>3, <2>4, Both DEF @@
    <2>6. Offers(Flag("noconstant"), {"noconstant"}, {})
      BY Leaves DEF Choices
    <2>7. Offers(OneOf("family", {"exp_growth"}) @@ Must({"start"}) @@ Free({"maxiter", "tol"})
                   @@ Flag("noconstant"),
                 {"family"} \cup {"start"} \cup {"maxiter", "tol"} \cup {"noconstant"},
                 {} \cup {"start"} \cup {} \cup {})
      BY <2>5, <2>6, Both DEF @@
    <2>8. Offers(OneOf("family", {"exp_growth"}) @@ Must({"start"}) @@ Free({"maxiter", "tol"})
                   @@ Flag("noconstant"),
                 {"family", "start", "maxiter", "tol", "noconstant"}, {"start"})
      BY <2>7 DEF Offers
    <2>9. Grammars["nls"] = Model(OneOf("family", {"exp_growth"}) @@ Must({"start"})
                @@ Free({"maxiter", "tol"}) @@ Flag("noconstant"))
      BY GrammarRows, VerbsOfTables DEF Holds, SingleVerbs, @@
    <2>10. Offers(Model(OneOf("family", {"exp_growth"}) @@ Must({"start"})
                @@ Free({"maxiter", "tol"}) @@ Flag("noconstant")).options,
                {"family", "start", "maxiter", "tol", "noconstant"} \cup {"robust", "cluster"}, {"start"})
      BY <2>8, ModelOffers DEF @@
    <2>11. QED
      BY <2>9, <2>10 DEF Offers, @@
  <1>8. Offers(Grammars["threg"].options,
               {"qvar", "grid", "trim", "noconstant", "robust", "cluster"}, {"qvar", "grid"})
    <2>1. Offers(Must({"qvar", "grid"}), {"qvar", "grid"}, {"qvar", "grid"})
      BY Leaves DEF Choices
    <2>2. Offers(Free({"trim"}), {"trim"}, {})
      BY Leaves DEF Choices
    <2>3. Offers(Must({"qvar", "grid"}) @@ Free({"trim"}),
                 {"qvar", "grid"} \cup {"trim"}, {"qvar", "grid"} \cup {})
      BY <2>1, <2>2, Both DEF @@
    <2>4. Offers(Flag("noconstant"), {"noconstant"}, {})
      BY Leaves DEF Choices
    <2>5. Offers(Must({"qvar", "grid"}) @@ Free({"trim"}) @@ Flag("noconstant"),
                 {"qvar", "grid"} \cup {"trim"} \cup {"noconstant"},
                 {"qvar", "grid"} \cup {} \cup {})
      BY <2>3, <2>4, Both DEF @@
    <2>6. Offers(Must({"qvar", "grid"}) @@ Free({"trim"}) @@ Flag("noconstant"),
                 {"qvar", "grid", "trim", "noconstant"}, {"qvar", "grid"})
      BY <2>5 DEF Offers
    <2>7. Grammars["threg"] = Model(Must({"qvar", "grid"}) @@ Free({"trim"})
                @@ Flag("noconstant"))
      BY GrammarRows, VerbsOfTables DEF Holds, SingleVerbs, @@
    <2>8. Offers(Model(Must({"qvar", "grid"}) @@ Free({"trim"})
                @@ Flag("noconstant")).options,
                {"qvar", "grid", "trim", "noconstant"} \cup {"robust", "cluster"}, {"qvar", "grid"})
      BY <2>6, ModelOffers DEF @@
    <2>9. QED
      BY <2>7, <2>8 DEF Offers, @@
  <1>9. Offers(Grammars["ivregress"].options,
               {"endogenous", "instruments", "robust", "cluster"}, {})
    <2>1. Offers(Instrumented, {"endogenous", "instruments"}, {})
      BY Leaves DEF Choices, Instrumented
    <2>2. Offers(Instrumented, {"endogenous", "instruments"}, {})
      BY <2>1 DEF Offers
    <2>3. Grammars["ivregress"] = Model(Instrumented)
      BY GrammarRows, VerbsOfTables DEF Holds, SingleVerbs, @@
    <2>4. Offers(Model(Instrumented).options,
                {"endogenous", "instruments"} \cup {"robust", "cluster"}, {})
      BY <2>2, ModelOffers DEF @@
    <2>5. QED
      BY <2>3, <2>4 DEF Offers, @@
  <1>10. Offers(Grammars["gmm"].options,
                {"endogenous", "instruments", "weight", "robust", "cluster"}, {})
    <2>1. Offers(Instrumented, {"endogenous", "instruments"}, {})
      BY Leaves DEF Choices, Instrumented, Weighting
    <2>2. Offers(Weighting, {"weight"}, {})
      BY Leaves DEF Choices, Instrumented, Weighting
    <2>3. Offers(Instrumented @@ Weighting,
                 {"endogenous", "instruments"} \cup {"weight"}, {} \cup {})
      BY <2>1, <2>2, Both DEF @@
    <2>4. Offers(Instrumented @@ Weighting, {"endogenous", "instruments", "weight"}, {})
      BY <2>3 DEF Offers
    <2>5. Grammars["gmm"] = Model(Instrumented @@ Weighting)
      BY GrammarRows, VerbsOfTables DEF Holds, SingleVerbs, @@
    <2>6. Offers(Model(Instrumented @@ Weighting).options,
                {"endogenous", "instruments", "weight"} \cup {"robust", "cluster"}, {})
      BY <2>4, ModelOffers DEF @@
    <2>7. QED
      BY <2>5, <2>6 DEF Offers, @@
  <1>11. Offers(Grammars["sur"].options, {"robust", "cluster", "maxiter", "tol"}, {})
    <2>1. Offers(Flag("robust"), {"robust"}, {})
      BY Leaves DEF Choices
    <2>2. Offers(Free({"cluster", "maxiter", "tol"}), {"cluster", "maxiter", "tol"}, {})
      BY Leaves DEF Choices
    <2>3. Offers(Flag("robust") @@ Free({"cluster", "maxiter", "tol"}),
                 {"robust"} \cup {"cluster", "maxiter", "tol"}, {} \cup {})
      BY <2>1, <2>2, Both DEF @@
    <2>4. Offers(Flag("robust") @@ Free({"cluster", "maxiter", "tol"}),
                 {"robust", "cluster", "maxiter", "tol"}, {})
      BY <2>3 DEF Offers
    <2>5. Grammars["sur"].options = Flag("robust") @@ Free({"cluster", "maxiter", "tol"})
      BY GrammarRows, VerbsOfTables DEF Holds, SystemVerbs, Data, Verb, @@
    <2>6. QED
      BY <2>4, <2>5 DEF @@
  <1>12. Offers(Grammars["reg3"].options,
                {"endogenous", "instruments", "method"}, {"endogenous", "instruments"})
    <2>1. Offers(Must({"endogenous", "instruments"}),
                 {"endogenous", "instruments"}, {"endogenous", "instruments"})
      BY Leaves DEF Choices
    <2>2. Offers(OneOf("method", {"3sls", "twostep"}), {"method"}, {})
      BY Leaves DEF Choices
    <2>3. Offers(Must({"endogenous", "instruments"}) @@ OneOf("method", {"3sls", "twostep"}),
                 {"endogenous", "instruments"} \cup {"method"},
                 {"endogenous", "instruments"} \cup {})
      BY <2>1, <2>2, Both DEF @@
    <2>4. Offers(Must({"endogenous", "instruments"}) @@ OneOf("method", {"3sls", "twostep"}),
                 {"endogenous", "instruments", "method"}, {"endogenous", "instruments"})
      BY <2>3 DEF Offers
    <2>5. Grammars["reg3"].options = Must({"endogenous", "instruments"})
                @@ OneOf("method", {"3sls", "twostep"})
      BY GrammarRows, VerbsOfTables DEF Holds, SystemVerbs, Data, Verb, @@
    <2>6. QED
      BY <2>4, <2>5 DEF @@
  <1>13. Offers(Grammars["gls"].options, {"weights", "robust", "cluster"}, {})
    <2>1. Offers(Free({"weights"}), {"weights"}, {})
      BY Leaves DEF Choices
    <2>2. Offers(Free({"weights"}), {"weights"}, {})
      BY <2>1 DEF Offers
    <2>3. Grammars["gls"] = Model(Free({"weights"}))
      BY GrammarRows, VerbsOfTables DEF Holds, PanelVerbs, @@
    <2>4. Offers(Model(Free({"weights"})).options,
                {"weights"} \cup {"robust", "cluster"}, {})
      BY <2>2, ModelOffers DEF @@
    <2>5. QED
      BY <2>3, <2>4 DEF Offers, @@
  <1>14. Offers(Grammars["xtreg"].options,
                {"id", "time", "method", "robust", "cluster"}, {"id", "time", "method"})
    <2>1. Offers(Must({"id", "time"}), {"id", "time"}, {"id", "time"})
      BY Leaves DEF Choices
    <2>2. Offers(MustBeOneOf("method", {"fe", "re", "fd", "between", "hdfe", "cre"}),
                 {"method"}, {"method"})
      BY Leaves DEF Choices
    <2>3. Offers(Must({"id", "time"})
                   @@ MustBeOneOf("method", {"fe", "re", "fd", "between", "hdfe", "cre"}),
                 {"id", "time"} \cup {"method"}, {"id", "time"} \cup {"method"})
      BY <2>1, <2>2, Both DEF @@
    <2>4. Offers(Must({"id", "time"})
                   @@ MustBeOneOf("method", {"fe", "re", "fd", "between", "hdfe", "cre"}),
                 {"id", "time", "method"}, {"id", "time", "method"})
      BY <2>3 DEF Offers
    <2>5. Grammars["xtreg"] = Model(Must({"id", "time"})
                @@ MustBeOneOf("method", {"fe", "re", "fd", "between", "hdfe", "cre"}))
      BY GrammarRows, VerbsOfTables DEF Holds, PanelVerbs, @@
    <2>6. Offers(Model(Must({"id", "time"})
                @@ MustBeOneOf("method", {"fe", "re", "fd", "between", "hdfe", "cre"})).options,
                {"id", "time", "method"} \cup {"robust", "cluster"}, {"id", "time", "method"})
      BY <2>4, ModelOffers DEF @@
    <2>7. QED
      BY <2>5, <2>6 DEF Offers, @@
  <1>15. Offers(Grammars["xtivreg"].options,
                {"id", "time", "method", "endogenous", "instruments", "robust", "cluster"},
                {"id", "time", "method"})
    <2>1. Offers(Must({"id", "time"}), {"id", "time"}, {"id", "time"})
      BY Leaves DEF Choices, Instrumented
    <2>2. Offers(MustBeOneOf("method", {"fe"}), {"method"}, {"method"})
      BY Leaves DEF Choices, Instrumented
    <2>3. Offers(Must({"id", "time"}) @@ MustBeOneOf("method", {"fe"}),
                 {"id", "time"} \cup {"method"}, {"id", "time"} \cup {"method"})
      BY <2>1, <2>2, Both DEF @@
    <2>4. Offers(Instrumented, {"endogenous", "instruments"}, {})
      BY Leaves DEF Choices, Instrumented
    <2>5. Offers(Must({"id", "time"}) @@ MustBeOneOf("method", {"fe"}) @@ Instrumented,
                 {"id", "time"} \cup {"method"} \cup {"endogenous", "instruments"},
                 {"id", "time"} \cup {"method"} \cup {})
      BY <2>3, <2>4, Both DEF @@
    <2>6. Offers(Must({"id", "time"}) @@ MustBeOneOf("method", {"fe"}) @@ Instrumented,
                 {"id", "time", "method", "endogenous", "instruments"},
                 {"id", "time", "method"})
      BY <2>5 DEF Offers
    <2>7. Grammars["xtivreg"] = Model(Must({"id", "time"}) @@ MustBeOneOf("method", {"fe"})
                @@ Instrumented)
      BY GrammarRows, VerbsOfTables DEF Holds, PanelVerbs, @@
    <2>8. Offers(Model(Must({"id", "time"}) @@ MustBeOneOf("method", {"fe"})
                @@ Instrumented).options,
                {"id", "time", "method", "endogenous", "instruments"} \cup {"robust", "cluster"}, {"id", "time", "method"})
      BY <2>6, ModelOffers DEF @@
    <2>9. QED
      BY <2>7, <2>8 DEF Offers, @@
  <1>16. Offers(Grammars["xtabond"].options,
                {"id", "time", "lags", "weight", "style", "collapse", "robust", "cluster"},
                {"id", "time", "lags"})
    <2>1. Offers(Must({"id", "time", "lags"}), {"id", "time", "lags"}, {"id", "time", "lags"})
      BY Leaves DEF Choices, Weighting
    <2>2. Offers(Weighting, {"weight"}, {})
      BY Leaves DEF Choices, Weighting
    <2>3. Offers(Must({"id", "time", "lags"}) @@ Weighting,
                 {"id", "time", "lags"} \cup {"weight"}, {"id", "time", "lags"} \cup {})
      BY <2>1, <2>2, Both DEF @@
    <2>4. Offers(OneOf("style", {"difference", "system"}), {"style"}, {})
      BY Leaves DEF Choices, Weighting
    <2>5. Offers(Must({"id", "time", "lags"}) @@ Weighting
                   @@ OneOf("style", {"difference", "system"}),
                 {"id", "time", "lags"} \cup {"weight"} \cup {"style"},
                 {"id", "time", "lags"} \cup {} \cup {})
      BY <2>3, <2>4, Both DEF @@
    <2>6. Offers(OneOf("collapse", {"true", "false"}), {"collapse"}, {})
      BY Leaves DEF Choices, Weighting
    <2>7. Offers(Must({"id", "time", "lags"}) @@ Weighting
                   @@ OneOf("style", {"difference", "system"})
                   @@ OneOf("collapse", {"true", "false"}),
                 {"id", "time", "lags"} \cup {"weight"} \cup {"style"} \cup {"collapse"},
                 {"id", "time", "lags"} \cup {} \cup {} \cup {})
      BY <2>5, <2>6, Both DEF @@
    <2>8. Offers(Must({"id", "time", "lags"}) @@ Weighting
                   @@ OneOf("style", {"difference", "system"})
                   @@ OneOf("collapse", {"true", "false"}),
                 {"id", "time", "lags", "weight", "style", "collapse"}, {"id", "time", "lags"})
      BY <2>7 DEF Offers
    <2>9. Grammars["xtabond"] = Model(Must({"id", "time", "lags"}) @@ Weighting
                @@ OneOf("style", {"difference", "system"})
                @@ OneOf("collapse", {"true", "false"}))
      BY GrammarRows, VerbsOfTables DEF Holds, PanelVerbs, @@
    <2>10. Offers(Model(Must({"id", "time", "lags"}) @@ Weighting
                @@ OneOf("style", {"difference", "system"})
                @@ OneOf("collapse", {"true", "false"})).options,
                {"id", "time", "lags", "weight", "style", "collapse"} \cup {"robust", "cluster"}, {"id", "time", "lags"})
      BY <2>8, ModelOffers DEF @@
    <2>11. QED
      BY <2>9, <2>10 DEF Offers, @@
  <1>17. Offers(Grammars["did"].options,
                {"id", "time", "treat", "post", "robust", "cluster"},
                {"id", "time", "treat", "post"})
    <2>1. Offers(Must({"id", "time", "treat", "post"}),
                 {"id", "time", "treat", "post"}, {"id", "time", "treat", "post"})
      BY Leaves DEF Choices
    <2>2. Offers(Must({"id", "time", "treat", "post"}),
                 {"id", "time", "treat", "post"}, {"id", "time", "treat", "post"})
      BY <2>1 DEF Offers
    <2>3. Grammars["did"] = Model(Must({"id", "time", "treat", "post"}))
      BY GrammarRows, VerbsOfTables DEF Holds, CausalVerbs, @@
    <2>4. Offers(Model(Must({"id", "time", "treat", "post"})).options,
                {"id", "time", "treat", "post"} \cup {"robust", "cluster"}, {"id", "time", "treat", "post"})
      BY <2>2, ModelOffers DEF @@
    <2>5. QED
      BY <2>3, <2>4 DEF Offers, @@
  <1>18. Offers(Grammars["eventstudy"].options,
                {"id", "time", "treat", "eventtime", "robust", "cluster"},
                {"id", "time", "treat", "eventtime"})
    <2>1. Offers(Must({"id", "time", "treat", "eventtime"}),
                 {"id", "time", "treat", "eventtime"}, {"id", "time", "treat", "eventtime"})
      BY Leaves DEF Choices
    <2>2. Offers(Must({"id", "time", "treat", "eventtime"}),
                 {"id", "time", "treat", "eventtime"}, {"id", "time", "treat", "eventtime"})
      BY <2>1 DEF Offers
    <2>3. Grammars["eventstudy"] = Model(Must({"id", "time", "treat", "eventtime"}))
      BY GrammarRows, VerbsOfTables DEF Holds, CausalVerbs, @@
    <2>4. Offers(Model(Must({"id", "time", "treat", "eventtime"})).options,
                {"id", "time", "treat", "eventtime"} \cup {"robust", "cluster"}, {"id", "time", "treat", "eventtime"})
      BY <2>2, ModelOffers DEF @@
    <2>5. QED
      BY <2>3, <2>4 DEF Offers, @@
  <1>19. Offers(Grammars["ipw"].options,
                {"treat", "outcome", "propensity", "robust", "cluster"}, {"treat"})
    <2>1. Offers(Must({"treat"}), {"treat"}, {"treat"})
      BY Leaves DEF Choices
    <2>2. Offers(Free({"outcome", "propensity"}), {"outcome", "propensity"}, {})
      BY Leaves DEF Choices
    <2>3. Offers(Must({"treat"}) @@ Free({"outcome", "propensity"}),
                 {"treat"} \cup {"outcome", "propensity"}, {"treat"} \cup {})
      BY <2>1, <2>2, Both DEF @@
    <2>4. Offers(Must({"treat"}) @@ Free({"outcome", "propensity"}),
                 {"treat", "outcome", "propensity"}, {"treat"})
      BY <2>3 DEF Offers
    <2>5. Grammars["ipw"] = Model(Must({"treat"}) @@ Free({"outcome", "propensity"}))
      BY GrammarRows, VerbsOfTables DEF Holds, CausalVerbs, @@
    <2>6. Offers(Model(Must({"treat"}) @@ Free({"outcome", "propensity"})).options,
                {"treat", "outcome", "propensity"} \cup {"robust", "cluster"}, {"treat"})
      BY <2>4, ModelOffers DEF @@
    <2>7. QED
      BY <2>5, <2>6 DEF Offers, @@
  <1>20. Offers(Grammars["psm"].options,
                {"treat", "outcome", "propensity", "robust", "cluster"}, {"treat"})
    <2>1. Offers(Must({"treat"}), {"treat"}, {"treat"})
      BY Leaves DEF Choices
    <2>2. Offers(Free({"outcome", "propensity"}), {"outcome", "propensity"}, {})
      BY Leaves DEF Choices
    <2>3. Offers(Must({"treat"}) @@ Free({"outcome", "propensity"}),
                 {"treat"} \cup {"outcome", "propensity"}, {"treat"} \cup {})
      BY <2>1, <2>2, Both DEF @@
    <2>4. Offers(Must({"treat"}) @@ Free({"outcome", "propensity"}),
                 {"treat", "outcome", "propensity"}, {"treat"})
      BY <2>3 DEF Offers
    <2>5. Grammars["psm"] = Model(Must({"treat"}) @@ Free({"outcome", "propensity"}))
      BY GrammarRows, VerbsOfTables DEF Holds, CausalVerbs, @@
    <2>6. Offers(Model(Must({"treat"}) @@ Free({"outcome", "propensity"})).options,
                {"treat", "outcome", "propensity"} \cup {"robust", "cluster"}, {"treat"})
      BY <2>4, ModelOffers DEF @@
    <2>7. QED
      BY <2>5, <2>6 DEF Offers, @@
  <1>21. Offers(Grammars["aipw"].options,
                {"treat", "outcome", "propensity", "outcome_model", "robust", "cluster"},
                {"treat"})
    <2>1. Offers(Must({"treat"}), {"treat"}, {"treat"})
      BY Leaves DEF Choices
    <2>2. Offers(Free({"outcome", "propensity", "outcome_model"}),
                 {"outcome", "propensity", "outcome_model"}, {})
      BY Leaves DEF Choices
    <2>3. Offers(Must({"treat"}) @@ Free({"outcome", "propensity", "outcome_model"}),
                 {"treat"} \cup {"outcome", "propensity", "outcome_model"}, {"treat"} \cup {})
      BY <2>1, <2>2, Both DEF @@
    <2>4. Offers(Must({"treat"}) @@ Free({"outcome", "propensity", "outcome_model"}),
                 {"treat", "outcome", "propensity", "outcome_model"}, {"treat"})
      BY <2>3 DEF Offers
    <2>5. Grammars["aipw"] = Model(Must({"treat"})
                @@ Free({"outcome", "propensity", "outcome_model"}))
      BY GrammarRows, VerbsOfTables DEF Holds, CausalVerbs, @@
    <2>6. Offers(Model(Must({"treat"})
                @@ Free({"outcome", "propensity", "outcome_model"})).options,
                {"treat", "outcome", "propensity", "outcome_model"} \cup {"robust", "cluster"}, {"treat"})
      BY <2>4, ModelOffers DEF @@
    <2>7. QED
      BY <2>5, <2>6 DEF Offers, @@
  <1>22. Offers(Grammars["arima"].options, {"time", "ar", "i", "ma", "robust", "cluster"}, {})
    <2>1. Offers(Free({"time", "ar", "i", "ma"}), {"time", "ar", "i", "ma"}, {})
      BY Leaves DEF Choices
    <2>2. Offers(Free({"time", "ar", "i", "ma"}), {"time", "ar", "i", "ma"}, {})
      BY <2>1 DEF Offers
    <2>3. Grammars["arima"] = Model(Free({"time", "ar", "i", "ma"}))
      BY GrammarRows, VerbsOfTables DEF Holds, TimeVerbs, @@
    <2>4. Offers(Model(Free({"time", "ar", "i", "ma"})).options,
                {"time", "ar", "i", "ma"} \cup {"robust", "cluster"}, {})
      BY <2>2, ModelOffers DEF @@
    <2>5. QED
      BY <2>3, <2>4 DEF Offers, @@
  <1>23. Offers(Grammars["var"].options, {"time", "lags", "robust", "cluster"}, {"lags"})
    <2>1. Offers(Free({"time"}), {"time"}, {})
      BY Leaves DEF Choices
    <2>2. Offers(Must({"lags"}), {"lags"}, {"lags"})
      BY Leaves DEF Choices
    <2>3. Offers(Free({"time"}) @@ Must({"lags"}), {"time"} \cup {"lags"}, {} \cup {"lags"})
      BY <2>1, <2>2, Both DEF @@
    <2>4. Offers(Free({"time"}) @@ Must({"lags"}), {"time", "lags"}, {"lags"})
      BY <2>3 DEF Offers
    <2>5. Grammars["var"] = Model(Free({"time"}) @@ Must({"lags"}))
      BY GrammarRows, VerbsOfTables DEF Holds, TimeVerbs, @@
    <2>6. Offers(Model(Free({"time"}) @@ Must({"lags"})).options,
                {"time", "lags"} \cup {"robust", "cluster"}, {"lags"})
      BY <2>4, ModelOffers DEF @@
    <2>7. QED
      BY <2>5, <2>6 DEF Offers, @@
  <1>24. Offers(Grammars["dfuller"].options, {"time", "deterministic", "robust", "cluster"}, {})
    <2>1. Offers(Free({"time"}), {"time"}, {})
      BY Leaves DEF Choices, Deterministic
    <2>2. Offers(Deterministic, {"deterministic"}, {})
      BY Leaves DEF Choices, Deterministic
    <2>3. Offers(Free({"time"}) @@ Deterministic, {"time"} \cup {"deterministic"}, {} \cup {})
      BY <2>1, <2>2, Both DEF @@
    <2>4. Offers(Free({"time"}) @@ Deterministic, {"time", "deterministic"}, {})
      BY <2>3 DEF Offers
    <2>5. Grammars["dfuller"] = Model(Free({"time"}) @@ Deterministic)
      BY GrammarRows, VerbsOfTables DEF Holds, TimeVerbs, @@
    <2>6. Offers(Model(Free({"time"}) @@ Deterministic).options,
                {"time", "deterministic"} \cup {"robust", "cluster"}, {})
      BY <2>4, ModelOffers DEF @@
    <2>7. QED
      BY <2>5, <2>6 DEF Offers, @@
  <1>25. Offers(Grammars["arch"].options,
                {"time", "maxiter", "tol", "arch", "robust", "cluster"}, {"arch"})
    <2>1. Offers(Free({"time", "maxiter", "tol"}), {"time", "maxiter", "tol"}, {})
      BY Leaves DEF Choices
    <2>2. Offers(Must({"arch"}), {"arch"}, {"arch"})
      BY Leaves DEF Choices
    <2>3. Offers(Free({"time", "maxiter", "tol"}) @@ Must({"arch"}),
                 {"time", "maxiter", "tol"} \cup {"arch"}, {} \cup {"arch"})
      BY <2>1, <2>2, Both DEF @@
    <2>4. Offers(Free({"time", "maxiter", "tol"}) @@ Must({"arch"}),
                 {"time", "maxiter", "tol", "arch"}, {"arch"})
      BY <2>3 DEF Offers
    <2>5. Grammars["arch"] = Model(Free({"time", "maxiter", "tol"}) @@ Must({"arch"}))
      BY GrammarRows, VerbsOfTables DEF Holds, TimeVerbs, @@
    <2>6. Offers(Model(Free({"time", "maxiter", "tol"}) @@ Must({"arch"})).options,
                {"time", "maxiter", "tol", "arch"} \cup {"robust", "cluster"}, {"arch"})
      BY <2>4, ModelOffers DEF @@
    <2>7. QED
      BY <2>5, <2>6 DEF Offers, @@
  <1>26. Offers(Grammars["garch"].options,
                {"time", "arch", "garch", "maxiter", "tol", "robust", "cluster"}, {})
    <2>1. Offers(Free({"time", "arch", "garch", "maxiter", "tol"}),
                 {"time", "arch", "garch", "maxiter", "tol"}, {})
      BY Leaves DEF Choices
    <2>2. Offers(Free({"time", "arch", "garch", "maxiter", "tol"}),
                 {"time", "arch", "garch", "maxiter", "tol"}, {})
      BY <2>1 DEF Offers
    <2>3. Grammars["garch"] = Model(Free({"time", "arch", "garch", "maxiter", "tol"}))
      BY GrammarRows, VerbsOfTables DEF Holds, TimeVerbs, @@
    <2>4. Offers(Model(Free({"time", "arch", "garch", "maxiter", "tol"})).options,
                {"time", "arch", "garch", "maxiter", "tol"} \cup {"robust", "cluster"}, {})
      BY <2>2, ModelOffers DEF @@
    <2>5. QED
      BY <2>3, <2>4 DEF Offers, @@
  <1>27. Offers(Grammars["coint"].options,
                {"time", "lags", "deterministic", "method", "robust", "cluster"}, {})
    <2>1. Offers(Free({"time", "lags"}), {"time", "lags"}, {})
      BY Leaves DEF Choices, Deterministic
    <2>2. Offers(Deterministic, {"deterministic"}, {})
      BY Leaves DEF Choices, Deterministic
    <2>3. Offers(Free({"time", "lags"}) @@ Deterministic,
                 {"time", "lags"} \cup {"deterministic"}, {} \cup {})
      BY <2>1, <2>2, Both DEF @@
    <2>4. Offers(OneOf("method", {"engle_granger", "johansen"}), {"method"}, {})
      BY Leaves DEF Choices, Deterministic
    <2>5. Offers(Free({"time", "lags"}) @@ Deterministic
                   @@ OneOf("method", {"engle_granger", "johansen"}),
                 {"time", "lags"} \cup {"deterministic"} \cup {"method"}, {} \cup {} \cup {})
      BY <2>3, <2>4, Both DEF @@
    <2>6. Offers(Free({"time", "lags"}) @@ Deterministic
                   @@ OneOf("method", {"engle_granger", "johansen"}),
                 {"time", "lags", "deterministic", "method"}, {})
      BY <2>5 DEF Offers
    <2>7. Grammars["coint"] = Model(Free({"time", "lags"}) @@ Deterministic
                @@ OneOf("method", {"engle_granger", "johansen"}))
      BY GrammarRows, VerbsOfTables DEF Holds, TimeVerbs, @@
    <2>8. Offers(Model(Free({"time", "lags"}) @@ Deterministic
                @@ OneOf("method", {"engle_granger", "johansen"})).options,
                {"time", "lags", "deterministic", "method"} \cup {"robust", "cluster"}, {})
      BY <2>6, ModelOffers DEF @@
    <2>9. QED
      BY <2>7, <2>8 DEF Offers, @@
  <1>28. Offers(Grammars["spreg"].options,
                {"spatial_weights", "id", "weights", "spatial_id", "rowstd", "model", "robust", "cluster"},
                {"spatial_weights", "id"})
    <2>1. Offers(Must({"spatial_weights", "id"}),
                 {"spatial_weights", "id"}, {"spatial_weights", "id"})
      BY Leaves DEF Choices
    <2>2. Offers(Free({"weights", "spatial_id", "rowstd"}),
                 {"weights", "spatial_id", "rowstd"}, {})
      BY Leaves DEF Choices
    <2>3. Offers(Must({"spatial_weights", "id"}) @@ Free({"weights", "spatial_id", "rowstd"}),
                 {"spatial_weights", "id"} \cup {"weights", "spatial_id", "rowstd"},
                 {"spatial_weights", "id"} \cup {})
      BY <2>1, <2>2, Both DEF @@
    <2>4. Offers(OneOf("model", {"lag", "error", "sar", "sem", "slx", "sdm", "sdem", "sac"}),
                 {"model"}, {})
      BY Leaves DEF Choices
    <2>5. Offers(Must({"spatial_weights", "id"}) @@ Free({"weights", "spatial_id", "rowstd"})
                   @@ OneOf("model", {"lag", "error", "sar", "sem", "slx", "sdm", "sdem", "sac"}),
                 {"spatial_weights", "id"} \cup {"weights", "spatial_id", "rowstd"}
                   \cup {"model"},
                 {"spatial_weights", "id"} \cup {} \cup {})
      BY <2>3, <2>4, Both DEF @@
    <2>6. Offers(Must({"spatial_weights", "id"}) @@ Free({"weights", "spatial_id", "rowstd"})
                   @@ OneOf("model", {"lag", "error", "sar", "sem", "slx", "sdm", "sdem", "sac"}),
                 {"spatial_weights", "id", "weights", "spatial_id", "rowstd", "model"},
                 {"spatial_weights", "id"})
      BY <2>5 DEF Offers
    <2>7. Grammars["spreg"] = Model(Must({"spatial_weights", "id"})
                @@ Free({"weights", "spatial_id", "rowstd"})
                @@ OneOf("model", {"lag", "error", "sar", "sem", "slx", "sdm", "sdem", "sac"}))
      BY GrammarRows, VerbsOfTables DEF Holds, SpatialVerbs, @@
    <2>8. Offers(Model(Must({"spatial_weights", "id"})
                @@ Free({"weights", "spatial_id", "rowstd"})
                @@ OneOf("model", {"lag", "error", "sar", "sem", "slx", "sdm", "sdem", "sac"})).options,
                {"spatial_weights", "id", "weights", "spatial_id", "rowstd", "model"} \cup {"robust", "cluster"}, {"spatial_weights", "id"})
      BY <2>6, ModelOffers DEF @@
    <2>9. QED
      BY <2>7, <2>8 DEF Offers, @@
  <1>29. Offers(Grammars["svy"].options, {"strata", "psu", "weights"}, {})
    <2>1. Offers(Free({"strata", "psu", "weights"}), {"strata", "psu", "weights"}, {})
      BY Leaves DEF Choices
    <2>2. Grammars["svy"].options = Free({"strata", "psu", "weights"})
      BY GrammarRows, VerbsOfTables DEF Holds, OtherModels, Data, Verb, @@
    <2>3. QED
      BY <2>1, <2>2 DEF @@
  <1>30. QED
    BY <1>1, <1>2, <1>3, <1>4, <1>5, <1>6, <1>7, <1>8, <1>9, <1>10, <1>11, <1>12, <1>13, <1>14, <1>15,
       <1>16, <1>17, <1>18, <1>19, <1>20, <1>21, <1>22, <1>23, <1>24, <1>25, <1>26, <1>27, <1>28, <1>29

LEMMA OptionsOfDiscrete ==
  ASSUME NEW verb \in {"logit", "probit", "poisson", "ologit", "mlogit", "nbreg"}
  PROVE  Offers(Grammars[verb].options, {"robust", "cluster"}, {})
  <1>1. Grammars[verb] = Model(NoOptions)
    BY GrammarRows, VerbsOfTables DEF Holds, DiscreteVerbs
  <1>2. Offers(NoOptions, {}, {})
    BY Leaves DEF NoOptions
  <1>3. Offers(Model(NoOptions).options, {} \cup {"robust", "cluster"}, {})
    BY <1>2, ModelOffers
  <1>4. QED
    BY <1>1, <1>3 DEF Offers

LEMMA OptionsOfStcox == Offers(Grammars["stcox"].options, {}, {})
  <1>1. Grammars["stcox"].options = NoOptions
    BY GrammarRows, VerbsOfTables DEF Holds, OtherModels, Verb
  <1>2. QED
    BY <1>1, Leaves DEF NoOptions, Offers

-----------------------------------------------------------------------------
(* What completion calls missing.                                          *)
Needed ==
  {"id", "time", "start", "qvar", "grid", "arch", "endogenous", "instruments", "spatial_weights",
   "value", "if", "on", "by", "stats"}

LEMMA NeededIsNoValue ==
  ASSUME LineInv, NEW names, NEW required,
         Offers(Grammars[line.verb].options, names, required),
         NEW o \in DOMAIN line.options, line.options[o] # "id"
  PROVE  line.options[o] \notin Needed
  <1> DEFINE value == line.options[o]
             chosen == IF o \in Offered(line.verb) THEN Grammars[line.verb].options[o].values ELSE {}
  <1>1. value \in ValuesFor(line.verb, o) \cup {Bare}
    BY DEF LineInv, ValueOk
  <1>2. chosen \subseteq Choices
    BY DEF Offers, Offered
  <1> HIDE DEF value, chosen
  <1>3. \/ value \in {Bare, "c", "4", "2 4", "5 4", "c c", "0", "3000000000"}
        \/ \E p \in DOMAIN Values : value \in Values[p]
        \/ value \in chosen
    BY <1>1 DEF ValuesFor, chosen
  <1>4. \A p \in DOMAIN Values : Values[p] \cap (Needed \ {"id"}) = {}
    <2> DEFINE Texts == {"0", "0.5", "1", "4", "13", "5 4", "c c", "0 1 5", "1 0 5", "c", "c|c", "id",
                         "3000000000", "1e16 10000000000000002 5", "-1e308 1e308 5"}
    <2>1. DOMAIN Values = {"quantile", "start", "grid", "trim", "maxiter", "tol", "arch", "garch", "ar",
                           "i", "ma", "endogenous", "instruments", "cluster"}
      BY DEF Values
    <2>2. /\ Values["quantile"] \subseteq Texts /\ Values["start"] \subseteq Texts
          /\ Values["grid"] \subseteq Texts /\ Values["trim"] \subseteq Texts
          /\ Values["maxiter"] \subseteq Texts /\ Values["tol"] \subseteq Texts
          /\ Values["arch"] \subseteq Texts /\ Values["garch"] \subseteq Texts
      BY DEF Values
    <2>3. /\ Values["ar"] \subseteq Texts /\ Values["i"] \subseteq Texts /\ Values["ma"] \subseteq Texts
          /\ Values["endogenous"] \subseteq Texts /\ Values["instruments"] \subseteq Texts
          /\ Values["cluster"] \subseteq Texts
      BY DEF Values
    <2>4. Texts \cap (Needed \ {"id"}) = {}
      BY DEF Needed
    <2> HIDE DEF Texts
    <2>5. QED
      BY <2>1, <2>2, <2>3, <2>4
  <1>5. {Bare, "c", "4", "2 4", "5 4", "c c", "0", "3000000000"} \cap Needed = {} /\ Choices \cap Needed = {}
    BY DEF Bare, Needed, Choices
  <1>6. value # "id"
    BY DEF value
  <1>7. value \notin Needed
    BY <1>2, <1>3, <1>4, <1>5, <1>6
  <1>8. QED
    BY <1>7 DEF value

LEMMA Hinted ==
  ASSUME LineInv, NEW names, NEW required, required \subseteq names,
         Offers(Grammars[line.verb].options, names, required),
         \A o \in DOMAIN line.options : line.options[o] \notin {Bare, "id"},
         NEW name \in required, name \in Needed, ~Given(line, name)
  PROVE  MissingOptions(line) # {}
  <1>1. name \notin DOMAIN line.options
    BY DEF Given, Has
  <1>2. name \in Required(line.verb)
    BY DEF Offers, Required, Offered
  <1>3. name \notin {line.options[o] : o \in DOMAIN line.options}
    BY NeededIsNoValue
  <1>4. QED
    BY <1>1, <1>2, <1>3 DEF MissingOptions

LEMMA MissingData ==
  ASSUME NEW c, DataOp(c) = Refused("missing")
  PROVE  /\ c.verb \in {"replace", "merge", "reshape", "collapse"}
         /\ \E o \in DataOpNeeds[c.verb] : ~Given(c, o)
  BY DEF DataOp, Refused, DataOpNeeds

LEMMA MissingOfType ==
  ASSUME NEW c, NEW type, Missing(c, type) # {}
  PROVE  \/ type = "dynamic_panel_gmm" /\ \E o \in {"id", "time"} : ~Given(c, o)
         \/ type = "nls" /\ ~Given(c, "start")
         \/ type = "threshold" /\ \E o \in {"qvar", "grid"} : ~Given(c, o)
         \/ type = "arch" /\ ~Given(c, "arch")
  BY DEF Missing, Given

LEMMA VerbOfType ==
  ASSUME NEW verb \in PlainVerbs
  PROVE  /\ ModelType(verb) = "dynamic_panel_gmm" => verb = "xtabond"
         /\ ModelType(verb) = "nls" => verb = "nls"
         /\ ModelType(verb) = "threshold" => verb = "threg"
         /\ ModelType(verb) = "arch" => verb = "arch"
  BY DEF PlainVerbs, ModelVerbs, ModelType, TypeTable

LEMMA MissingModel ==
  ASSUME NEW c, ModelSpec(c) = Refused("missing")
  PROVE  \/ c.verb = "reg3" /\ \E o \in {"endogenous", "instruments"} : ~Given(c, o)
         \/ c.verb = "spreg" /\ \E o \in {"spatial_weights", "id"} : ~Given(c, o)
         \/ c.verb = "xtabond" /\ \E o \in {"id", "time"} : ~Given(c, o)
         \/ c.verb = "nls" /\ ~Given(c, "start")
         \/ c.verb = "threg" /\ \E o \in {"qvar", "grid"} : ~Given(c, o)
         \/ c.verb = "arch" /\ ~Given(c, "arch")
  <1>1. c.verb \in ModelVerbs
    BY DEF ModelSpec, Refused
  <1>2. CASE c.verb \in PlainVerbs /\ ModelSpec(c) = Plain(c)
    <2>1. Missing(c, ModelType(c.verb)) # {}
      <3> SUFFICES ASSUME Missing(c, ModelType(c.verb)) = {} PROVE FALSE
        OBVIOUS
      <3>1. Plain(c) = Thrown \/ Plain(c) = Refused("value") \/ Plain(c).kind = "spec"
        BY DEF Plain, Fit
      <3>2. QED
        BY <1>2, <3>1 DEF Refused, Thrown
    <2>2. QED
      BY <1>2, <2>1, MissingOfType, VerbOfType
  <1>3. CASE c.verb = "sur" /\ ModelSpec(c) = Sur(c)
    BY <1>3 DEF Sur, Refused, Fit
  <1>4. CASE c.verb = "reg3" /\ ModelSpec(c) = Reg3(c)
    <2> SUFFICES ASSUME Given(c, "endogenous"), Given(c, "instruments") PROVE FALSE
      BY <1>4
    <2>1. Reg3(c) = Refused("words") \/ Reg3(c) = Refused("value") \/ Reg3(c).kind = "spec"
      BY DEF Reg3, Fit
    <2>2. QED
      BY <1>4, <2>1 DEF Refused
  <1>5. CASE c.verb = "svy" /\ ModelSpec(c) = Svy(c)
    <2>1. Svy(c) = Refused("words") \/ Svy(c).kind = "spec"
      BY DEF Svy, Fit
    <2>2. QED
      BY <1>5, <2>1 DEF Refused
  <1>6. CASE c.verb = "stcox" /\ ModelSpec(c) = Stcox(c)
    BY <1>6 DEF Stcox, Refused, Fit
  <1>7. CASE c.verb = "spreg" /\ ModelSpec(c) = Spreg(c)
    <2>1. \/ ~Given(c, Either(c, "spatial_weights", "weights"))
          \/ ~Given(c, Either(c, "id", "spatial_id"))
      BY <1>7 DEF Spreg, Refused, Fit
    <2>2. QED
      BY <1>7, <2>1 DEF Either
  <1>8. QED
    BY <1>1, <1>2, <1>3, <1>4, <1>5, <1>6, <1>7, ByVerb

(* Where completion names no missing option and every option has a value,  *)
(* no handler refuses for want of one: what parseToModelSpec and           *)
(* parseToDataOp insist on is required in the grammar, so                  *)
(* getMissingRequiredOptions has named it, and none of the values of such  *)
(* a verb is the name of an option it needs.                               *)
THEOREM CompletionIsRight == Spec => []HintIsRight
  <1>1. Answers => HintIsRight
    <2> SUFFICES ASSUME Answers, outcome = Refused("missing"),
                        \A o \in DOMAIN line.options : line.options[o] \notin {Bare, "id"}
                 PROVE  MissingOptions(line) # {}
      BY DEF HintIsRight
    <2>1. LineInv /\ (ModelSpec(line) = Refused("missing") \/ DataOp(line) = Refused("missing"))
      BY DEF Answers, WithoutOption
    <2>2. CASE DataOp(line) = Refused("missing")
      <3>1. PICK o \in DataOpNeeds[line.verb] : ~Given(line, o)
        BY <2>2, MissingData
      <3>2. CASE line.verb = "replace"
        BY <2>1, <3>1, <3>2, OptionsOf, Hinted DEF DataOpNeeds, Needed
      <3>3. CASE line.verb = "merge"
        BY <2>1, <3>1, <3>3, OptionsOf, Hinted DEF DataOpNeeds, Needed
      <3>4. CASE line.verb = "reshape"
        BY <2>1, <3>1, <3>4, OptionsOf, Hinted DEF DataOpNeeds, Needed
      <3>5. CASE line.verb = "collapse"
        BY <2>1, <3>1, <3>5, OptionsOf, Hinted DEF DataOpNeeds, Needed
      <3>6. QED
        BY <2>2, <3>2, <3>3, <3>4, <3>5, MissingData
    <2>3. CASE ModelSpec(line) = Refused("missing")
      <3>1. CASE line.verb = "reg3" /\ \E o \in {"endogenous", "instruments"} : ~Given(line, o)
        BY <2>1, <3>1, OptionsOf, Hinted DEF Needed
      <3>2. CASE line.verb = "spreg" /\ \E o \in {"spatial_weights", "id"} : ~Given(line, o)
        BY <2>1, <3>2, OptionsOf, Hinted DEF Needed
      <3>3. CASE line.verb = "xtabond" /\ \E o \in {"id", "time"} : ~Given(line, o)
        BY <2>1, <3>3, OptionsOf, Hinted DEF Needed
      <3>4. CASE line.verb = "nls" /\ ~Given(line, "start")
        BY <2>1, <3>4, OptionsOf, Hinted DEF Needed
      <3>5. CASE line.verb = "threg" /\ \E o \in {"qvar", "grid"} : ~Given(line, o)
        BY <2>1, <3>5, OptionsOf, Hinted DEF Needed
      <3>6. CASE line.verb = "arch" /\ ~Given(line, "arch")
        BY <2>1, <3>6, OptionsOf, Hinted DEF Needed
      <3>7. QED
        BY <2>3, <3>1, <3>2, <3>3, <3>4, <3>5, <3>6, MissingModel
    <2>4. QED
      BY <2>1, <2>2, <2>3
  <1>2. QED
    BY <1>1, AnswersInit, AnswersStep, PTL DEF Spec

-----------------------------------------------------------------------------
(* What was given arrives.  A parameter of the specification that its type *)
(* copies and that is neither empty lags nor the default terms is sent.    *)
Reaches(c, o) ==
  Arrives(c, Request(ModelSpec(c)), o) \/ LeftOut(c, ModelSpec(c).type, o)

LEMMA Carried ==
  ASSUME NEW spec, NEW p \in DOMAIN spec.params, p \in Copied(spec.type), p \notin NotHandedOn,
         p = "lags" => spec.params[p].is[1] > 0,
         p = "deterministic" => spec.params[p].text # "constant"
  PROVE  p \in DOMAIN Request(spec).params /\ Request(spec).params[p] = spec.params[p]
  <1> DEFINE type == spec.type
             handed == HandedOn(spec)
             copies == [q \in DOMAIN handed \cap Copied(type) |-> handed[q]]
             all == copies @@ FilledIn(type)
  <1>1. Request(spec).params = FamilyParams(type, handed)
    BY DEF Request
  <1>2. p \in DOMAIN copies /\ copies[p] = spec.params[p]
    BY DEF HandedOn
  <1>3. FamilyParams(type, handed)
          = [q \in {r \in DOMAIN all : /\ r = "lags" => all[r].is[1] > 0
                                       /\ r = "deterministic" => all[r].text # "constant"} |-> all[q]]
    BY DEF FamilyParams, @@
  <1> HIDE DEF copies
  <1>4. p \in DOMAIN all /\ all[p] = spec.params[p]
    BY <1>2, Upper DEF Same
  <1> HIDE DEF all, handed
  <1>5. QED
    BY <1>1, <1>3, <1>4

LEMMA ArrivesAs ==
  ASSUME NEW c, NEW o, NEW p \in DOMAIN ModelSpec(c).params, ModelSpec(c).params[p].of = o,
         p \in Copied(ModelSpec(c).type), p \notin NotHandedOn \cup {"lags", "deterministic"}
  PROVE  Reaches(c, o)
  <1>1. /\ p \in DOMAIN Request(ModelSpec(c)).params
        /\ Request(ModelSpec(c)).params[p] = ModelSpec(c).params[p]
    BY Carried
  <1>2. QED
    BY <1>1 DEF Reaches, Arrives

(* What a type reads for itself, and what all share where it does not.     *)
LEMMA FromOwn ==
  ASSUME NEW c, NEW o, NEW type \in PlainTypes, ModelSpec(c).kind = "spec", ModelSpec(c).type = type,
         NEW p \in DOMAIN OwnParams(c, type), OwnParams(c, type)[p].of = o,
         p \in Copied(type), p \notin NotHandedOn \cup {"lags", "deterministic"}
  PROVE  Reaches(c, o)
  <1> DEFINE own == OwnParams(c, type)
             general == General(c, type)
  <1>1. ModelSpec(c).params = own @@ general
    BY PlainByType, PlainSpec
  <1> HIDE DEF own, general
  <1>2. Same(own @@ general, own, p)
    BY Upper DEF own
  <1>3. p \in DOMAIN ModelSpec(c).params /\ ModelSpec(c).params[p].of = o
    BY <1>1, <1>2 DEF Same, own
  <1>4. QED
    BY <1>3, ArrivesAs

LEMMA FromShared ==
  ASSUME NEW c, NEW o, NEW type \in PlainTypes, ModelSpec(c).kind = "spec", ModelSpec(c).type = type,
         NEW p \in DOMAIN General(c, type), General(c, type)[p].of = o, p \notin DOMAIN OwnParams(c, type),
         p \in Copied(type), p \notin NotHandedOn \cup {"lags", "deterministic"}
  PROVE  Reaches(c, o)
  <1> DEFINE own == OwnParams(c, type)
             general == General(c, type)
  <1>1. ModelSpec(c).params = own @@ general
    BY PlainByType, PlainSpec
  <1> HIDE DEF own, general
  <1>2. Same(own @@ general, general, p)
    BY Lower DEF own
  <1>3. p \in DOMAIN ModelSpec(c).params /\ ModelSpec(c).params[p].of = o
    BY <1>1, <1>2 DEF Same, general
  <1>4. QED
    BY <1>3, ArrivesAs

LEMMA SharedRead ==
  ASSUME NEW c, NEW type
  PROVE  /\ Given(c, "id") => "panel_id" \in DOMAIN General(c, type)
                              /\ General(c, type)["panel_id"].of = "id"
         /\ Given(c, "time") => "panel_time" \in DOMAIN General(c, type)
                                /\ General(c, type)["panel_time"].of = "time"
         /\ Given(c, "endogenous") => "endog_columns" \in DOMAIN General(c, type)
                                      /\ General(c, type)["endog_columns"].of = "endogenous"
         /\ Given(c, "instruments") => "instruments" \in DOMAIN General(c, type)
                                       /\ General(c, type)["instruments"].of = "instruments"
         /\ Given(c, "method") /\ UsesMethod(type) => "panel_method" \in DOMAIN General(c, type)
                                       /\ General(c, type)["panel_method"].of = "method"
         /\ Given(c, "weight") /\ type = "gmm_linear" => "gmm_weight" \in DOMAIN General(c, type)
                                       /\ General(c, type)["gmm_weight"].of = "weight"
  <1> DEFINE table == [panel_id |-> "id", panel_time |-> "time", endog_columns |-> "endogenous",
                       instruments |-> "instruments"]
             method == [panel_method |-> "method"]
             weight == [gmm_weight |-> "weight"]
             a == Read(c, table)
             b == When(UsesMethod(type), Read(c, method))
             d == When(type = "gmm_linear", Read(c, weight))
             ab == a @@ b
             general == General(c, type)
  <1>1. general = ab @@ d
    BY DEF General, @@
  <1>2. /\ DOMAIN table = {"panel_id", "panel_time", "endog_columns", "instruments"}
        /\ table["panel_id"] = "id" /\ table["panel_time"] = "time"
        /\ table["endog_columns"] = "endogenous" /\ table["instruments"] = "instruments"
        /\ DOMAIN method = {"panel_method"} /\ method["panel_method"] = "method"
        /\ DOMAIN weight = {"gmm_weight"} /\ weight["gmm_weight"] = "weight"
    OBVIOUS
  <1> HIDE DEF table, method, weight
  <1>3. /\ Given(c, "id") => "panel_id" \in DOMAIN a /\ a["panel_id"] = From(c, "id")
        /\ Given(c, "time") => "panel_time" \in DOMAIN a /\ a["panel_time"] = From(c, "time")
        /\ Given(c, "endogenous") => "endog_columns" \in DOMAIN a
                                     /\ a["endog_columns"] = From(c, "endogenous")
        /\ Given(c, "instruments") => "instruments" \in DOMAIN a
                                     /\ a["instruments"] = From(c, "instruments")
        /\ "panel_method" \notin DOMAIN a /\ "gmm_weight" \notin DOMAIN a
    BY <1>2, ReadOf
  <1>4. /\ Given(c, "method") /\ UsesMethod(type)
             => "panel_method" \in DOMAIN b /\ b["panel_method"] = From(c, "method")
        /\ "gmm_weight" \notin DOMAIN b
    BY <1>2, ReadOf, WhenOf
  <1>5. Given(c, "weight") /\ type = "gmm_linear"
          => "gmm_weight" \in DOMAIN d /\ d["gmm_weight"] = From(c, "weight")
    <2>1. type = "gmm_linear" => d = Read(c, weight)
      BY WhenOf
    <2> HIDE DEF d
    <2>2. QED
      BY <1>2, <2>1, ReadOf
  <1> HIDE DEF a, b, d, general
  <1>6. /\ \A p \in DOMAIN a : Same(ab, a, p)
        /\ Same(ab, b, "panel_method") /\ "gmm_weight" \notin DOMAIN ab
    BY <1>3, <1>4, Upper, Lower DEF Same
  <1> HIDE DEF ab
  <1>7. /\ \A p \in DOMAIN ab : Same(ab @@ d, ab, p)
        /\ Same(ab @@ d, d, "gmm_weight")
    BY <1>6, Upper, Lower
  <1>8. \A o : From(c, o).of = o
    BY DEF From
  <1>9. general = ab @@ d
    BY <1>1
  <1>10. QED
    BY <1>3, <1>4, <1>5, <1>6, <1>7, <1>8, <1>9 DEF Same, general

(* When an option is left out, and what the types copy.                    *)
LEMMA WhatIsLeftOut ==
  ASSUME NEW c, NEW type
  PROVE  /\ type \in NoVcov => LeftOut(c, type, "robust")
         /\ Len(c.words) < 2 => LeftOut(c, type, "noconstant")
         /\ FirstInt(c.options["lags"]) <= 0 => LeftOut(c, type, "lags")
         /\ c.options["deterministic"] = "constant" => LeftOut(c, type, "deterministic")
         /\ FirstInt(c.options["maxiter"]) <= 0 \/ type = "arch" => LeftOut(c, type, "maxiter")
         /\ FirstInt(c.options["tol"]) <= 0 \/ type = "arch" => LeftOut(c, type, "tol")
         /\ type \in Weighted /\ Given(c, "spatial_weights") => LeftOut(c, type, "weights")
         /\ Given(c, "id") => LeftOut(c, type, "spatial_id")
         /\ type = "panel_iv" => LeftOut(c, type, "method")
         /\ type \in {"sur", "quantile", "nls", "threshold"} \cup Weighted => LeftOut(c, type, "cluster")
  BY DEF LeftOut

LEMMA WhatIsCopied ==
  ASSUME NEW type
  PROVE  /\ type \in Panels \cup Events \cup {"dynamic_panel_gmm"}
              => {"panel_id", "panel_time"} \subseteq Copied(type)
         /\ type \in {"iv", "gmm_linear", "panel_iv"} => IvParams \subseteq Copied(type)
         /\ type = "panel" => "panel_method" \in Copied(type)
         /\ type = "gmm_linear" => "gmm_weight" \in Copied(type)
         /\ type = "dynamic_panel_gmm"
              => {"instrument_lags", "gmm_weight", "dpgmm_style", "collapse_instruments"}
                   \subseteq Copied(type)
         /\ type \in Events
              => {"treated_column", "post_column", "event_time_column"} \subseteq Copied(type)
         /\ type \in Causal
              => {"treatment_column", "outcome_column", "propensity_formula", "outcome_formula"}
                   \subseteq Copied(type)
         /\ type = "quantile" => "quantile_tau" \in Copied(type)
         /\ type = "nls" => {"nls_family", "nls_start", "nls_max_iter", "nls_tol"} \subseteq Copied(type)
         /\ type = "threshold"
              => {"threshold_variable", "threshold_grid", "threshold_trim_frac"} \subseteq Copied(type)
         /\ type = "sur" => {"sur_max_iter", "sur_tol"} \subseteq Copied(type)
         /\ type \in {"system_2sls", "system_3sls"}
              => {"system_endogenous", "system_instruments"} \subseteq Copied(type)
         /\ type \in Surveys => SurveyCopied \subseteq Copied(type)
         /\ type \in Weighted
              => {"spatial_weights_path", "spatial_id_column", "spatial_row_standardize"}
                   \subseteq Copied(type)
  <1> USE DEF Copied, Panels, Events, Surveys, Weighted, Locals, Durations, Asymmetric, Systems,
      IvParams, Causal, TimeSeries
  <1>1. CASE type \in Panels
    BY <1>1
  <1>2. CASE type \in Events
    BY <1>2
  <1>3. CASE type = "dynamic_panel_gmm"
    BY <1>3
  <1>4. CASE type \in {"iv", "gmm_linear"}
    BY <1>4
  <1>5. CASE type \in Causal
    BY <1>5
  <1>6. CASE type \in {"quantile", "nls", "threshold"}
    BY <1>6
  <1>7. CASE type \in Systems
    BY <1>7
  <1>8. CASE type \in Surveys
    BY <1>8
  <1>9. CASE type \in Weighted
    BY <1>9
  <1> HIDE DEF Copied
  <1>10. QED
    BY <1>1, <1>2, <1>3, <1>4, <1>5, <1>6, <1>7, <1>8, <1>9

LEMMA WhatSeriesCopy ==
  ASSUME NEW type \in TimeSeries
  PROVE  /\ TimeCopied \subseteq Copied(type)
         /\ type = "arima" => "order" \in Copied(type)
         /\ type \notin {"arch", "garch"} => {"lags", "deterministic", "ts_method"} \subseteq Copied(type)
         /\ type = "arch" => "arch_order" \in Copied(type)
         /\ type = "garch"
              => {"garch_p", "garch_q", "garch_max_iter", "garch_tol"} \subseteq Copied(type)
  BY DEF Copied, Panels, Events, Surveys, Weighted, Locals, Durations, Asymmetric, Systems,
         IvParams, Causal, TimeSeries

(* What every type that shares the common translation is fitted with.      *)
LEMMA FitOptions ==
  ASSUME NEW c, NEW type \in PlainTypes, ModelSpec(c).kind = "spec", ModelSpec(c).type = type,
         Len(c.words) \in Nat
  PROVE  /\ Has(c, "robust") => Reaches(c, "robust")
         /\ Given(c, "cluster") => Reaches(c, "cluster")
         /\ Has(c, "noconstant") => Reaches(c, "noconstant")
         /\ Given(c, "weights") /\ type \notin Unweighted => Reaches(c, "weights")
  <1> DEFINE spec == ModelSpec(c)
             request == Request(spec)
  <1>1. /\ spec.type = type /\ spec.formula = Formula(c, c.words)
        /\ spec.robust = (Has(c, "robust") /\ type \notin Unweighted)
        /\ spec.cluster = (Given(c, "cluster") /\ type \notin Unweighted)
        /\ spec.weights = (Given(c, "weights") /\ type \notin Unweighted)
    BY PlainByType, PlainSpec
  <1> HIDE DEF spec
  <1>2. /\ request.formula = Formula(c, c.words) /\ request.cluster = spec.cluster
        /\ request.robust = (spec.robust /\ NeedsVcov(type))
        /\ spec.weights => request.weights
    BY <1>1 DEF Request
  <1> HIDE DEF request
  <1>3. Has(c, "robust") => Reaches(c, "robust")
    <2>1. (NeedsVcov(type) /\ type \notin Unweighted) \/ type \in NoVcov
      BY DEF NeedsVcov, NoVcov, PlainTypes, Unweighted, Panels, Events, Causal, TimeSeries, Asymmetric,
             Systems, Weighted, Locals, Durations, Discrete, Surveys
    <2>2. Has(c, "robust") => request.robust \/ LeftOut(c, type, "robust")
      BY <1>1, <1>2, <2>1, WhatIsLeftOut
    <2>3. QED
      BY <1>1, <2>2 DEF Reaches, Arrives, request, spec
  <1>4. Given(c, "cluster") => Reaches(c, "cluster")
    <2>1. Given(c, "cluster") => request.cluster \/ LeftOut(c, type, "cluster")
      BY <1>1, <1>2, WhatIsLeftOut DEF Unweighted
    <2>2. QED
      BY <1>1, <2>1 DEF Reaches, Arrives, request, spec
  <1>5. Has(c, "noconstant") => Reaches(c, "noconstant")
    <2>1. Has(c, "noconstant") => request.formula = "without constant" \/ LeftOut(c, type, "noconstant")
      <3>1. Len(c.words) < 2 => LeftOut(c, type, "noconstant")
        BY WhatIsLeftOut
      <3>2. ASSUME ~(Len(c.words) < 2), Has(c, "noconstant")
            PROVE  Formula(c, c.words) = "without constant"
        <4>1. \A n \in Nat : ~(n < 2) => n # 0 /\ n # 1
          OBVIOUS
        <4>2. Len(c.words) # 0 /\ Len(c.words) # 1
          BY <3>2, <4>1
        <4>3. QED
          BY <3>2, <4>2 DEF Formula
      <3>3. QED
        BY <1>2, <3>1, <3>2
    <2>2. QED
      BY <1>1, <2>1 DEF Reaches, Arrives, request, spec
  <1>6. Given(c, "weights") /\ type \notin Unweighted => Reaches(c, "weights")
    BY <1>1, <1>2 DEF Reaches, Arrives, request, spec
  <1>7. QED
    BY <1>3, <1>4, <1>5, <1>6

(* The names a type reads for itself.                                      *)
LEMMA OwnNames ==
  ASSUME NEW c, NEW type
  PROVE  /\ type \in {"iv", "gmm_linear", "panel", "panel_iv"} => DOMAIN OwnParams(c, type) = {}
         /\ type \in Events
              => DOMAIN OwnParams(c, type) \subseteq {"treated_column", "post_column", "event_time_column"}
         /\ type = "dynamic_panel_gmm"
              => DOMAIN OwnParams(c, type) \cap {"panel_id", "panel_time"} = {}
  <1> USE DEF Events, Causal, TimeSeries
  <1>1. type \in {"iv", "gmm_linear", "panel", "panel_iv"} => DOMAIN OwnParams(c, type) = {}
    BY DEF OwnParams, CausalParams, NoParams
  <1>2. type \in Events
          => DOMAIN OwnParams(c, type) \subseteq {"treated_column", "post_column", "event_time_column"}
    BY DEF OwnParams, CausalParams, Read
  <1>3. ASSUME type = "dynamic_panel_gmm", NEW p \in {"panel_id", "panel_time"}
        PROVE  p \notin DOMAIN OwnParams(c, type)
    <2> DEFINE a == Read(c, [instrument_lags |-> "lags", gmm_weight |-> "weight", dpgmm_style |-> "style"])
               b == [instrument_lags |-> Default("2 4")]
               d == When(Has(c, "collapse"), [collapse_instruments |-> From(c, "collapse")])
               ab == a @@ b
    <2>1. OwnParams(c, type) = ab @@ d
      BY <1>3 DEF OwnParams, @@
    <2>2. p \notin DOMAIN a /\ p \notin DOMAIN b /\ p \notin DOMAIN d
      BY DEF Read, When, NoParams
    <2> HIDE DEF a, b, d
    <2>3. p \notin DOMAIN ab
      BY <2>2, Lower DEF Same
    <2> HIDE DEF ab
    <2>4. p \notin DOMAIN (ab @@ d)
      BY <2>2, <2>3, Lower DEF Same
    <2>5. QED
      BY <2>1, <2>4
  <1>4. QED
    BY <1>1, <1>2, <1>3

(* The panel and the instruments, which all types read the same way.       *)
LEMMA SharedOptions ==
  ASSUME NEW c, NEW type \in PlainTypes, ModelSpec(c).kind = "spec", ModelSpec(c).type = type
  PROVE  /\ type \in Panels \cup Events \cup {"dynamic_panel_gmm"}
              => /\ Given(c, "id") => Reaches(c, "id")
                 /\ Given(c, "time") => Reaches(c, "time")
         /\ type \in {"iv", "gmm_linear", "panel_iv"}
              => /\ Given(c, "endogenous") => Reaches(c, "endogenous")
                 /\ Given(c, "instruments") => Reaches(c, "instruments")
         /\ type \in Panels => (Given(c, "method") => Reaches(c, "method"))
         /\ type = "gmm_linear" => (Given(c, "weight") => Reaches(c, "weight"))
  <1> DEFINE general == General(c, type)
             own == OwnParams(c, type)
             Free2 == {"panel_id", "panel_time", "endog_columns", "instruments", "panel_method", "gmm_weight"}
  <1>1. ASSUME NEW p \in Free2, NEW o, p \in DOMAIN general, general[p].of = o, p \notin DOMAIN own,
               p \in Copied(type)
        PROVE  Reaches(c, o)
    BY <1>1, FromShared DEF NotHandedOn
  <1> HIDE DEF general, own
  <1>2. CASE type \in Panels \cup Events \cup {"dynamic_panel_gmm"}
    <2>1. {"panel_id", "panel_time"} \subseteq Copied(type)
      BY <1>2, WhatIsCopied
    <2>2. {"panel_id", "panel_time"} \cap DOMAIN own = {}
      BY <1>2, OwnNames DEF own, Panels
    <2>3. /\ Given(c, "id") => Reaches(c, "id")
          /\ Given(c, "time") => Reaches(c, "time")
      BY <1>1, <2>1, <2>2, SharedRead DEF general
    <2>4. type \in Panels => (Given(c, "method") => Reaches(c, "method"))
      <3>1. CASE type = "panel"
        <4>1. "panel_method" \in Copied(type) /\ UsesMethod(type) /\ "panel_method" \notin DOMAIN own
          BY <3>1, OwnNames, WhatIsCopied DEF UsesMethod, Unweighted, own
        <4>2. QED
          BY <1>1, <4>1, SharedRead DEF general
      <3>2. CASE type = "panel_iv"
        BY <3>2, WhatIsLeftOut DEF Reaches
      <3>3. QED
        BY <3>1, <3>2 DEF Panels
    <2>5. type = "panel_iv" => /\ Given(c, "endogenous") => Reaches(c, "endogenous")
                               /\ Given(c, "instruments") => Reaches(c, "instruments")
      <3>1. type = "panel_iv" => IvParams \subseteq Copied(type) /\ DOMAIN own = {}
        BY OwnNames, WhatIsCopied DEF own
      <3>2. QED
        BY <1>1, <3>1, SharedRead DEF general, IvParams
    <2>6. type \notin {"iv", "gmm_linear"}
      BY <1>2 DEF Panels, Events
    <2>7. QED
      BY <2>3, <2>4, <2>5, <2>6
  <1>3. CASE type \in {"iv", "gmm_linear"}
    <2>1. /\ IvParams \subseteq Copied(type) /\ DOMAIN own = {}
          /\ type = "gmm_linear" => "gmm_weight" \in Copied(type)
      BY <1>3, OwnNames, WhatIsCopied DEF own
    <2>2. type \notin Panels \cup Events \cup {"dynamic_panel_gmm"}
      BY <1>3 DEF Panels, Events
    <2>3. QED
      BY <1>1, <2>1, <2>2, SharedRead DEF general, IvParams
  <1>4. QED
    BY <1>2, <1>3 DEF Panels

(* What a type reads for itself.                                           *)
LEMMA CausalOptions ==
  ASSUME NEW c, NEW type \in Events \cup Causal, ModelSpec(c).kind = "spec", ModelSpec(c).type = type
  PROVE  /\ Given(c, "treat") => Reaches(c, "treat")
         /\ type \in Events => /\ Given(c, "post") => Reaches(c, "post")
                               /\ Given(c, "eventtime") => Reaches(c, "eventtime")
         /\ type \in Causal => /\ Given(c, "outcome") => Reaches(c, "outcome")
                               /\ Given(c, "propensity") => Reaches(c, "propensity")
                               /\ Given(c, "outcome_model") => Reaches(c, "outcome_model")
  <1> DEFINE own == OwnParams(c, type)
             events == [treated_column |-> "treat", post_column |-> "post",
                        event_time_column |-> "eventtime"]
             causal == [treatment_column |-> "treat", outcome_column |-> "outcome",
                        propensity_formula |-> "propensity", outcome_formula |-> "outcome_model"]
  <1>1. type \in PlainTypes
    BY DEF PlainTypes, Events, Causal
  <1>2. \A o : From(c, o).of = o
    BY DEF From
  <1>3. /\ type \in Events => own = Read(c, events)
        /\ type \in Causal => own = Read(c, causal)
    BY DEF OwnParams, CausalParams, TimeSeries, Events, Causal
  <1>4. /\ DOMAIN events = {"treated_column", "post_column", "event_time_column"}
        /\ events["treated_column"] = "treat" /\ events["post_column"] = "post"
        /\ events["event_time_column"] = "eventtime"
        /\ DOMAIN causal = {"treatment_column", "outcome_column", "propensity_formula", "outcome_formula"}
        /\ causal["treatment_column"] = "treat" /\ causal["outcome_column"] = "outcome"
        /\ causal["propensity_formula"] = "propensity" /\ causal["outcome_formula"] = "outcome_model"
    OBVIOUS
  <1> HIDE DEF own, events, causal
  <1>5. ASSUME NEW p, p \in DOMAIN events \/ p \in DOMAIN causal, p \in DOMAIN own,
               NEW o, own[p].of = o, p \in Copied(type)
        PROVE  Reaches(c, o)
    <2>1. p \notin NotHandedOn \cup {"lags", "deterministic"}
      BY <1>4, <1>5 DEF NotHandedOn
    <2>2. QED
      BY <1>1, <1>5, <2>1, FromOwn DEF own
  <1>6. CASE type \in Events
    <2>1. \A p \in DOMAIN events : Given(c, events[p]) => Reaches(c, events[p])
      BY <1>2, <1>3, <1>4, <1>5, <1>6, ReadOf, WhatIsCopied
    <2>2. type \notin Causal
      BY <1>6 DEF Events, Causal
    <2>3. QED
      BY <1>4, <2>1, <2>2
  <1>7. CASE type \in Causal
    <2>1. \A p \in DOMAIN causal : Given(c, causal[p]) => Reaches(c, causal[p])
      BY <1>2, <1>3, <1>4, <1>5, <1>7, ReadOf, WhatIsCopied
    <2>2. type \notin Events
      BY <1>7 DEF Events, Causal
    <2>3. QED
      BY <1>4, <2>1, <2>2
  <1>8. QED
    BY <1>6, <1>7

LEMMA QuantileOptions ==
  ASSUME NEW c, ModelSpec(c).kind = "spec", ModelSpec(c).type = "quantile", Has(c, "quantile")
  PROVE  Reaches(c, "quantile")
  <1> DEFINE asked == [quantile_tau |-> From(c, "quantile")]
             default == [quantile_tau |-> Default("0.5")]
  <1>1. OwnParams(c, "quantile") = asked @@ default
    BY DEF OwnParams, When, TimeSeries, @@
  <1>2. "quantile_tau" \in DOMAIN asked /\ asked["quantile_tau"].of = "quantile"
    BY DEF From
  <1> HIDE DEF asked, default
  <1>3. Same(asked @@ default, asked, "quantile_tau")
    BY <1>2, Upper
  <1>4. "quantile" \in PlainTypes /\ "quantile_tau" \notin NotHandedOn \cup {"lags", "deterministic"}
    BY DEF PlainTypes, NotHandedOn
  <1>5. QED
    BY <1>1, <1>2, <1>3, <1>4, FromOwn, WhatIsCopied DEF Same

LEMMA NlsOptions ==
  ASSUME NEW c, ModelSpec(c).kind = "spec", ModelSpec(c).type = "nls"
  PROVE  /\ Given(c, "family") => Reaches(c, "family")
         /\ Given(c, "start") => Reaches(c, "start")
         /\ Given(c, "maxiter") => Reaches(c, "maxiter")
         /\ Given(c, "tol") => Reaches(c, "tol")
  <1> DEFINE table == [nls_family |-> "family", nls_start |-> "start", nls_max_iter |-> "maxiter",
                       nls_tol |-> "tol"]
             asked == Read(c, table)
             default == [nls_family |-> Default("exp_growth")]
  <1>1. OwnParams(c, "nls") = asked @@ default
    BY DEF OwnParams, TimeSeries, @@
  <1>2. /\ DOMAIN table = {"nls_family", "nls_start", "nls_max_iter", "nls_tol"}
        /\ table["nls_family"] = "family" /\ table["nls_start"] = "start"
        /\ table["nls_max_iter"] = "maxiter" /\ table["nls_tol"] = "tol"
    OBVIOUS
  <1>3. \A o : From(c, o).of = o
    BY DEF From
  <1> HIDE DEF table
  <1>4. \A p \in DOMAIN table : Given(c, table[p]) => p \in DOMAIN asked /\ asked[p].of = table[p]
    BY <1>3, ReadOf
  <1> HIDE DEF asked, default
  <1>5. \A p \in DOMAIN asked : Same(asked @@ default, asked, p)
    BY Upper
  <1>6. /\ "nls" \in PlainTypes
        /\ \A p \in DOMAIN table : p \notin NotHandedOn \cup {"lags", "deterministic"}
    BY <1>2 DEF PlainTypes, NotHandedOn
  <1>7. \A p \in DOMAIN table : p \in Copied("nls")
    BY <1>2, WhatIsCopied
  <1>8. \A p \in DOMAIN table : Given(c, table[p]) => Reaches(c, table[p])
    BY <1>1, <1>4, <1>5, <1>6, <1>7, FromOwn DEF Same
  <1>9. QED
    BY <1>2, <1>8

LEMMA ThresholdOptions ==
  ASSUME NEW c, ModelSpec(c).kind = "spec", ModelSpec(c).type = "threshold"
  PROVE  /\ Reaches(c, "qvar") /\ Reaches(c, "grid")
         /\ Given(c, "trim") => Reaches(c, "trim")
  <1> DEFINE both == [threshold_variable |-> From(c, "qvar"), threshold_grid |-> From(c, "grid")]
             table == [threshold_trim_frac |-> "trim"]
             trim == Read(c, table)
             all == both @@ trim
             Own == {"threshold_variable", "threshold_grid", "threshold_trim_frac"}
  <1>1. OwnParams(c, "threshold") = all
    BY DEF OwnParams, TimeSeries, @@
  <1>2. /\ "threshold_variable" \in DOMAIN both /\ both["threshold_variable"].of = "qvar"
        /\ "threshold_grid" \in DOMAIN both /\ both["threshold_grid"].of = "grid"
        /\ "threshold_trim_frac" \notin DOMAIN both
    BY DEF From
  <1>3. DOMAIN table = {"threshold_trim_frac"} /\ table["threshold_trim_frac"] = "trim"
    OBVIOUS
  <1>4. Given(c, "trim") => /\ "threshold_trim_frac" \in DOMAIN trim
                            /\ trim["threshold_trim_frac"].of = "trim"
    <2>1. From(c, "trim").of = "trim"
      BY DEF From
    <2> HIDE DEF table
    <2>2. QED
      BY <1>3, <2>1, ReadOf
  <1> HIDE DEF both, table, trim
  <1>5. \A p \in DOMAIN both : Same(all, both, p)
    BY Upper
  <1>6. Same(all, trim, "threshold_trim_frac")
    BY <1>2, Lower
  <1> HIDE DEF all
  <1>7. /\ "threshold" \in PlainTypes
        /\ \A p \in Own : p \notin NotHandedOn \cup {"lags", "deterministic"}
    BY DEF PlainTypes, NotHandedOn
  <1>8. Own \subseteq Copied("threshold")
    BY WhatIsCopied
  <1>9. ASSUME NEW p \in Own, p \in DOMAIN all, NEW o, all[p].of = o PROVE Reaches(c, o)
    BY <1>1, <1>7, <1>8, <1>9, FromOwn
  <1>10. QED
    BY <1>2, <1>4, <1>5, <1>6, <1>9 DEF Same

LEMMA PanelGmmOptions ==
  ASSUME NEW c, ModelSpec(c).kind = "spec", ModelSpec(c).type = "dynamic_panel_gmm"
  PROVE  /\ Given(c, "lags") => Reaches(c, "lags")
         /\ Given(c, "weight") => Reaches(c, "weight")
         /\ Given(c, "style") => Reaches(c, "style")
         /\ Has(c, "collapse") => Reaches(c, "collapse")
  <1> DEFINE table == [instrument_lags |-> "lags", gmm_weight |-> "weight", dpgmm_style |-> "style"]
             asked == Read(c, table)
             default == [instrument_lags |-> Default("2 4")]
             collapse == When(Has(c, "collapse"), [collapse_instruments |-> From(c, "collapse")])
             two == asked @@ default
             all == two @@ collapse
             Own == {"instrument_lags", "gmm_weight", "dpgmm_style", "collapse_instruments"}
  <1>1. OwnParams(c, "dynamic_panel_gmm") = all
    BY DEF OwnParams, TimeSeries, @@
  <1>2. /\ DOMAIN table = {"instrument_lags", "gmm_weight", "dpgmm_style"}
        /\ table["instrument_lags"] = "lags" /\ table["gmm_weight"] = "weight"
        /\ table["dpgmm_style"] = "style"
    OBVIOUS
  <1>3. \A o : From(c, o).of = o
    BY DEF From
  <1>4. Has(c, "collapse") => /\ "collapse_instruments" \in DOMAIN collapse
                              /\ collapse["collapse_instruments"].of = "collapse"
    BY <1>3 DEF When
  <1>5. "collapse_instruments" \notin DOMAIN default
    OBVIOUS
  <1> HIDE DEF table, collapse
  <1>6. \A p \in DOMAIN table : Given(c, table[p]) => p \in DOMAIN asked /\ asked[p].of = table[p]
    BY <1>3, ReadOf
  <1>7. "collapse_instruments" \notin DOMAIN asked
    BY <1>2, ReadOf
  <1> HIDE DEF asked, default
  <1>8. /\ \A p \in DOMAIN asked : Same(two, asked, p)
        /\ "collapse_instruments" \notin DOMAIN two
    BY <1>5, <1>7, Upper, Lower DEF Same
  <1> HIDE DEF two
  <1>9. /\ \A p \in DOMAIN two : Same(all, two, p)
        /\ Same(all, collapse, "collapse_instruments")
    BY <1>8, Upper, Lower
  <1> HIDE DEF all
  <1>10. /\ "dynamic_panel_gmm" \in PlainTypes
         /\ \A p \in Own : p \notin NotHandedOn \cup {"lags", "deterministic"}
    BY DEF PlainTypes, NotHandedOn
  <1>11. Own \subseteq Copied("dynamic_panel_gmm")
    BY WhatIsCopied
  <1>12. ASSUME NEW p \in Own, p \in DOMAIN all, NEW o, all[p].of = o PROVE Reaches(c, o)
    BY <1>1, <1>10, <1>11, <1>12, FromOwn
  <1>13. \A p \in DOMAIN table : Given(c, table[p]) => Reaches(c, table[p])
    BY <1>2, <1>6, <1>8, <1>9, <1>12 DEF Same
  <1>14. Has(c, "collapse") => Reaches(c, "collapse")
    BY <1>4, <1>9, <1>12 DEF Same
  <1>15. QED
    BY <1>2, <1>13, <1>14

LEMMA FirstIntIs ==
  ASSUME NEW value
  PROVE  FirstInt(value) \in Int /\ (FirstInt(value) <= 0 \/ FirstInt(value) >= 1)
  <1>1. \A x \in Read1 : TruncInt(x) \in Int
    BY DEF TruncInt, Read1, NaN
  <1>2. FirstInt(value) \in Int
    BY <1>1, FloatIs DEF FirstInt
  <1>3. QED
    BY <1>2

LEMMA SeriesOwn ==
  ASSUME NEW c, NEW type \in TimeSeries, ModelSpec(c).kind = "spec", ModelSpec(c).type = type
  PROVE  /\ type \in PlainTypes /\ OwnParams(c, type) = TimeParams(c, type)
         /\ \A p : p \notin Shared => Same(ModelSpec(c).params, TimeParams(c, type), p)
  <1>1. type \in PlainTypes
    BY DEF PlainTypes, TimeSeries
  <1>2. OwnParams(c, type) = TimeParams(c, type)
    BY DEF OwnParams, TimeSeries
  <1>3. QED
    BY <1>1, <1>2, PlainByType, OwnFirst

LEMMA SeriesArrives ==
  ASSUME NEW c, NEW type \in TimeSeries, ModelSpec(c).kind = "spec", ModelSpec(c).type = type,
         NEW o, NEW p \in DOMAIN TimeParams(c, type), TimeParams(c, type)[p].of = o,
         p \in Copied(type) \cap TimeSeriesSpec, p \notin {"lags", "deterministic"}
  PROVE  Reaches(c, o)
  <1>1. p \notin NotHandedOn
    BY DEF NotHandedOn, TimeSeriesSpec
  <1>2. QED
    BY <1>1, SeriesOwn, FromOwn

(* Lags that are no positive number and the default terms are left out.    *)
LEMMA LagsAndTerms ==
  ASSUME NEW c, NEW type \in TimeSeries \ {"arch", "garch"}, ModelSpec(c).kind = "spec",
         ModelSpec(c).type = type
  PROVE  /\ Has(c, "lags") => Reaches(c, "lags")
         /\ Given(c, "deterministic") => Reaches(c, "deterministic")
  <1> DEFINE spec == ModelSpec(c)
             own == TimeParams(c, type)
             terms == [time_column |-> "time", deterministic |-> "deterministic"]
  <1>1. /\ {"lags", "deterministic"} \subseteq Copied(type)
        /\ "lags" \notin NotHandedOn \cup Shared /\ "deterministic" \notin NotHandedOn \cup Shared
    BY WhatSeriesCopy DEF NotHandedOn, Shared
  <1>2. Same(spec.params, own, "lags") /\ Same(spec.params, own, "deterministic")
    BY <1>1, SeriesOwn
  <1>3. Same(own, TimeP2(c), "lags") /\ Same(own, TimeP1(c), "deterministic")
    BY TimeParts
  <1>4. Has(c, "lags") => Reaches(c, "lags")
    <2> SUFFICES ASSUME Has(c, "lags") PROVE Reaches(c, "lags")
      OBVIOUS
    <2>1. "lags" \in DOMAIN TimeP2(c) /\ TimeP2(c)["lags"] = From(c, "lags")
      BY DEF TimeP2, When
    <2>2. "lags" \in DOMAIN spec.params /\ spec.params["lags"] = From(c, "lags")
      BY <1>2, <1>3, <2>1 DEF Same
    <2>3. From(c, "lags").of = "lags" /\ From(c, "lags").is[1] = FirstInt(c.options["lags"])
      BY IntsAre, NumbersAre, FloatIs DEF FirstInt, IsNumbers, From
    <2>4. FirstInt(c.options["lags"]) > 0 \/ FirstInt(c.options["lags"]) <= 0
      BY FirstIntIs
    <2>5. CASE FirstInt(c.options["lags"]) > 0
      <3>1. /\ "lags" \in DOMAIN Request(spec).params
            /\ Request(spec).params["lags"].of = "lags"
        BY <1>1, <2>2, <2>3, <2>5, Carried
      <3>2. QED
        BY <3>1 DEF Reaches, Arrives
    <2>6. CASE FirstInt(c.options["lags"]) <= 0
      BY <2>6, WhatIsLeftOut DEF Reaches
    <2>7. QED
      BY <2>4, <2>5, <2>6
  <1>5. Given(c, "deterministic") => Reaches(c, "deterministic")
    <2> SUFFICES ASSUME Given(c, "deterministic") PROVE Reaches(c, "deterministic")
      OBVIOUS
    <2>1. "deterministic" \in DOMAIN terms /\ terms["deterministic"] = "deterministic"
      OBVIOUS
    <2>2. TimeP1(c) = Read(c, terms)
      BY DEF TimeP1
    <2> HIDE DEF terms
    <2>3. "deterministic" \in DOMAIN spec.params /\ spec.params["deterministic"] = From(c, "deterministic")
      BY <1>2, <1>3, <2>1, <2>2, ReadOf DEF Same
    <2>4. /\ From(c, "deterministic").of = "deterministic"
          /\ From(c, "deterministic").text = c.options["deterministic"]
      BY DEF From
    <2>5. CASE c.options["deterministic"] # "constant"
      <3>1. /\ "deterministic" \in DOMAIN Request(spec).params
            /\ Request(spec).params["deterministic"].of = "deterministic"
        BY <1>1, <2>3, <2>4, <2>5, Carried
      <3>2. QED
        BY <3>1 DEF Reaches, Arrives
    <2>6. CASE c.options["deterministic"] = "constant"
      BY <2>6, WhatIsLeftOut DEF Reaches
    <2>7. QED
      BY <2>5, <2>6
  <1>6. QED
    BY <1>4, <1>5

LEMMA SeriesOptions ==
  ASSUME NEW c, NEW type \in TimeSeries, ModelSpec(c).kind = "spec", ModelSpec(c).type = type
  PROVE  /\ Given(c, "time") => Reaches(c, "time")
         /\ type = "cointegration" => (Given(c, "method") => Reaches(c, "method"))
         /\ type = "arima" => \A o \in {"ar", "i", "ma"} : Has(c, o) => Reaches(c, o)
         /\ type = "arch" => Reaches(c, "arch")
  <1> DEFINE own == TimeParams(c, type)
             columns == [time_column |-> "time", deterministic |-> "deterministic"]
             method == [ts_method |-> "method"]
  <1>1. /\ Same(own, TimeP1(c), "time_column") /\ Same(own, TimeP3(c, type), "ts_method")
        /\ Same(own, TimeP4(c, type), "order") /\ Same(own, TimeP6(c, type), "arch_order")
    BY TimeParts
  <1>2. \A o : From(c, o).of = o
    BY DEF From
  <1>3. {"time_column", "ts_method", "order", "arch_order"} \subseteq TimeSeriesSpec
    BY DEF TimeSeriesSpec
  <1>4. Given(c, "time") => Reaches(c, "time")
    <2>1. "time_column" \in DOMAIN columns /\ columns["time_column"] = "time" /\ TimeP1(c) = Read(c, columns)
      BY DEF TimeP1
    <2> HIDE DEF columns
    <2>2. Given(c, "time") => "time_column" \in DOMAIN own /\ own["time_column"].of = "time"
      BY <1>1, <1>2, <2>1, ReadOf DEF Same
    <2>3. "time_column" \in Copied(type)
      BY WhatSeriesCopy DEF TimeCopied
    <2>4. QED
      BY <1>3, <2>2, <2>3, SeriesArrives
  <1>5. type = "cointegration" => (Given(c, "method") => Reaches(c, "method"))
    <2>1. /\ "ts_method" \in DOMAIN method /\ method["ts_method"] = "method"
          /\ type = "cointegration" => TimeP3(c, type) = Read(c, method)
      BY DEF TimeP3, When
    <2> HIDE DEF method
    <2>2. type = "cointegration" /\ Given(c, "method")
            => "ts_method" \in DOMAIN own /\ own["ts_method"].of = "method"
      BY <1>1, <1>2, <2>1, ReadOf DEF Same
    <2>3. type = "cointegration" => "ts_method" \in Copied(type)
      BY WhatSeriesCopy
    <2>4. QED
      BY <1>3, <2>2, <2>3, SeriesArrives
  <1>6. ASSUME type = "arima", NEW o \in {"ar", "i", "ma"}, Has(c, o) PROVE Reaches(c, o)
    <2>1. "order" \in DOMAIN TimeP4(c, type) /\ TimeP4(c, type)["order"].of = "ar i ma"
      BY <1>6 DEF TimeP4, When
    <2>2. "order" \notin NotHandedOn \cup Shared
      BY DEF NotHandedOn, Shared
    <2>3. "order" \in DOMAIN ModelSpec(c).params /\ ModelSpec(c).params["order"].of = "ar i ma"
      <3>1. Same(ModelSpec(c).params, own, "order")
        BY <2>2, SeriesOwn
      <3> HIDE DEF own
      <3>2. QED
        BY <1>1, <2>1, <3>1 DEF Same
    <2>4. "order" \in Copied(type)
      BY <1>6, WhatSeriesCopy
    <2>5. /\ "order" \in DOMAIN Request(ModelSpec(c)).params
          /\ Request(ModelSpec(c)).params["order"].of = "ar i ma"
      BY <2>2, <2>3, <2>4, Carried
    <2>6. QED
      BY <2>5 DEF Reaches, Arrives
  <1>7. type = "arch" => Reaches(c, "arch")
    <2>1. type = "arch" => "arch_order" \in DOMAIN own /\ own["arch_order"].of = "arch"
      <3>1. type = "arch" => /\ "arch_order" \in DOMAIN TimeP6(c, type)
                             /\ TimeP6(c, type)["arch_order"].of = "arch"
        BY <1>2 DEF TimeP6, When
      <3>2. QED
        BY <1>1, <3>1 DEF Same
    <2>2. type = "arch" => "arch_order" \in Copied(type)
      BY WhatSeriesCopy
    <2>3. QED
      BY <1>3, <2>1, <2>2, SeriesArrives
  <1>8. QED
    BY <1>4, <1>5, <1>6, <1>7

LEMMA GarchOptions ==
  ASSUME NEW c, ModelSpec(c).kind = "spec", ModelSpec(c).type = "garch"
  PROVE  /\ Has(c, "arch") => Reaches(c, "arch")
         /\ Has(c, "garch") => Reaches(c, "garch")
         /\ Given(c, "maxiter") => Reaches(c, "maxiter")
         /\ Given(c, "tol") => Reaches(c, "tol")
  <1> DEFINE own == TimeParams(c, "garch")
             orders == GarchParams(c)
             Own == {"garch_p", "garch_q", "garch_max_iter", "garch_tol"}
             maxiter == c.options["maxiter"]
             tol == c.options["tol"]
  <1>1. "garch" \in TimeSeries /\ Own \subseteq Copied("garch") /\ Own \subseteq TimeSeriesSpec
    BY WhatSeriesCopy DEF TimeSeries, TimeSeriesSpec
  <1>2. \A p \in Own : Same(own, orders, p)
    <2>1. TimeP7(c, "garch") = orders
      BY DEF TimeP7, When
    <2>2. QED
      BY <2>1, TimeParts
  <1>3. ASSUME NEW p \in Own, p \in DOMAIN orders, NEW o, orders[p].of = o PROVE Reaches(c, o)
    <2>1. p \in DOMAIN own /\ own[p].of = o
      BY <1>2, <1>3 DEF Same
    <2>2. p \notin {"lags", "deterministic"}
      OBVIOUS
    <2>3. QED
      BY <1>1, <2>1, <2>2, SeriesArrives
  <1>4. Has(c, "arch") => "garch_p" \in DOMAIN GarchP1(c) /\ GarchP1(c)["garch_p"].of = "arch"
    BY DEF GarchP1, When
  <1>5. Has(c, "garch") => "garch_q" \in DOMAIN GarchP2(c) /\ GarchP2(c)["garch_q"].of = "garch"
    BY DEF GarchP2, When
  <1>6. Given(c, "maxiter") /\ FirstInt(maxiter) >= 1
          => "garch_max_iter" \in DOMAIN GarchP3(c) /\ GarchP3(c)["garch_max_iter"].of = "maxiter"
    BY DEF GarchP3, When, From
  <1>7. Given(c, "tol") /\ Float(tol) > 0
          => "garch_tol" \in DOMAIN GarchP4(c) /\ GarchP4(c)["garch_tol"].of = "tol"
    BY DEF GarchP4, When, From
  <1>8. FirstInt(maxiter) >= 1 \/ FirstInt(maxiter) <= 0
    BY FirstIntIs
  <1>9. Float(tol) > 0 \/ FirstInt(tol) <= 0
    BY FloatIs DEF FirstInt, TruncInt, Read1, NaN
  <1>10. FirstInt(maxiter) <= 0 => Reaches(c, "maxiter")
    BY WhatIsLeftOut DEF Reaches
  <1>11. FirstInt(tol) <= 0 => Reaches(c, "tol")
    BY WhatIsLeftOut DEF Reaches
  <1> HIDE DEF orders, maxiter, tol
  <1>12. /\ Same(orders, GarchP1(c), "garch_p") /\ Same(orders, GarchP2(c), "garch_q")
         /\ Same(orders, GarchP3(c), "garch_max_iter") /\ Same(orders, GarchP4(c), "garch_tol")
    BY GarchParts DEF orders
  <1>13. Has(c, "arch") => Reaches(c, "arch")
    BY <1>3, <1>4, <1>12 DEF Same
  <1>14. Has(c, "garch") => Reaches(c, "garch")
    BY <1>3, <1>5, <1>12 DEF Same
  <1>15. Given(c, "maxiter") => Reaches(c, "maxiter")
    BY <1>3, <1>6, <1>8, <1>10, <1>12 DEF Same
  <1>16. Given(c, "tol") => Reaches(c, "tol")
    BY <1>3, <1>7, <1>9, <1>11, <1>12 DEF Same
  <1>17. QED
    BY <1>13, <1>14, <1>15, <1>16

(* The verbs with a translation of their own.                              *)
LEMMA SurOptions ==
  ASSUME NEW c, ModelSpec(c).kind = "spec", ModelSpec(c) = Sur(c)
  PROVE  /\ Reaches(c, "robust") /\ Reaches(c, "cluster")
         /\ Given(c, "maxiter") => Reaches(c, "maxiter")
         /\ Given(c, "tol") => Reaches(c, "tol")
  <1> DEFINE blocks == [equations |-> Equations(c)]
             Names == {p \in {"sur_max_iter", "sur_tol"} :
                         LET o == IF p = "sur_tol" THEN "tol" ELSE "maxiter"
                         IN Given(c, o) /\ Float(c.options[o]) # NaN}
             read == [p \in Names |-> From(c, IF p = "sur_tol" THEN "tol" ELSE "maxiter")]
             all == blocks @@ read
  <1>1. ModelSpec(c).type = "sur" /\ ModelSpec(c).params = all
    BY DEF Sur, Fit, Refused, @@
  <1>2. Reaches(c, "robust") /\ Reaches(c, "cluster")
    BY <1>1, WhatIsLeftOut DEF Reaches, NoVcov
  <1>3. /\ FirstInt(c.options["maxiter"]) <= 0 => Reaches(c, "maxiter")
        /\ FirstInt(c.options["tol"]) <= 0 => Reaches(c, "tol")
    BY WhatIsLeftOut DEF Reaches
  <1>4. /\ Float(c.options["maxiter"]) = NaN => FirstInt(c.options["maxiter"]) <= 0
        /\ Float(c.options["tol"]) = NaN => FirstInt(c.options["tol"]) <= 0
    BY DEF FirstInt, TruncInt, NaN
  <1>5. \A o : From(c, o).of = o
    BY DEF From
  <1>6. /\ Given(c, "maxiter") /\ Float(c.options["maxiter"]) # NaN
             => "sur_max_iter" \in DOMAIN read /\ read["sur_max_iter"].of = "maxiter"
        /\ Given(c, "tol") /\ Float(c.options["tol"]) # NaN
             => "sur_tol" \in DOMAIN read /\ read["sur_tol"].of = "tol"
    BY <1>5
  <1>7. DOMAIN blocks = {"equations"}
    OBVIOUS
  <1> HIDE DEF blocks, read
  <1>8. Same(all, read, "sur_max_iter") /\ Same(all, read, "sur_tol")
    BY <1>7, Lower
  <1> HIDE DEF all
  <1>9. /\ {"sur_max_iter", "sur_tol"} \subseteq Copied("sur")
        /\ {"sur_max_iter", "sur_tol"} \cap (NotHandedOn \cup {"lags", "deterministic"}) = {}
    BY WhatIsCopied DEF NotHandedOn
  <1>10. /\ Given(c, "maxiter") /\ Float(c.options["maxiter"]) # NaN => Reaches(c, "maxiter")
         /\ Given(c, "tol") /\ Float(c.options["tol"]) # NaN => Reaches(c, "tol")
    BY <1>1, <1>6, <1>8, <1>9, ArrivesAs DEF Same
  <1>11. QED
    BY <1>2, <1>3, <1>4, <1>10

LEMMA Reg3Options ==
  ASSUME NEW c, ModelSpec(c).kind = "spec", ModelSpec(c) = Reg3(c)
  PROVE  Reaches(c, "endogenous") /\ Reaches(c, "instruments") /\ Reaches(c, "method")
  <1> DEFINE blocks == [equations |-> Equations(c)]
             table == [system_endogenous |-> "endogenous", system_instruments |-> "instruments"]
             read == Read(c, table)
             all == blocks @@ read
  <1>1. /\ ModelSpec(c).type \in {"system_2sls", "system_3sls"} /\ ModelSpec(c).params = all
        /\ Given(c, "endogenous") /\ Given(c, "instruments")
    BY DEF Reg3, Fit, Refused, @@
  <1>2. Reaches(c, "method")
    BY <1>1 DEF Reaches, Arrives, Request, Systems
  <1>3. \A o : From(c, o).of = o
    BY DEF From
  <1>4. /\ DOMAIN table = {"system_endogenous", "system_instruments"}
        /\ table["system_endogenous"] = "endogenous" /\ table["system_instruments"] = "instruments"
        /\ DOMAIN blocks = {"equations"}
    OBVIOUS
  <1> HIDE DEF blocks, table
  <1>5. /\ "system_endogenous" \in DOMAIN read /\ read["system_endogenous"].of = "endogenous"
        /\ "system_instruments" \in DOMAIN read /\ read["system_instruments"].of = "instruments"
    BY <1>1, <1>3, <1>4, ReadOf
  <1> HIDE DEF read
  <1>6. Same(all, read, "system_endogenous") /\ Same(all, read, "system_instruments")
    BY <1>4, Lower
  <1> HIDE DEF all
  <1>7. {"system_endogenous", "system_instruments"} \subseteq Copied(ModelSpec(c).type)
    BY <1>1, WhatIsCopied
  <1>8. {"system_endogenous", "system_instruments"} \cap (NotHandedOn \cup {"lags", "deterministic"}) = {}
    BY DEF NotHandedOn
  <1>9. QED
    BY <1>1, <1>2, <1>5, <1>6, <1>7, <1>8, ArrivesAs DEF Same

LEMMA SvyOptions ==
  ASSUME NEW c, ModelSpec(c).kind = "spec", ModelSpec(c) = Svy(c)
  PROVE  /\ Has(c, "robust") => Reaches(c, "robust")
         /\ \A o \in {"weights", "strata", "psu", "fpc"} : Given(c, o) => Reaches(c, o)
  <1> DEFINE spec == ModelSpec(c)
             table == [weights_column |-> "weights", strata_column |-> "strata",
                       psu_column |-> "psu", fpc_column |-> "fpc"]
  <1>1. /\ c.words[1] \in DOMAIN SurveyTypes /\ spec.type = SurveyTypes[c.words[1]]
        /\ spec.params = Read(c, table) /\ spec.robust = Has(c, "robust")
    BY DEF Svy, Fit, Refused
  <1>2. spec.type \in Surveys
    BY <1>1 DEF SurveyTypes, Surveys
  <1>3. Has(c, "robust") => Reaches(c, "robust")
    BY <1>1, <1>2 DEF Reaches, Arrives, Request, NeedsVcov
  <1>4. /\ DOMAIN table = {"weights_column", "strata_column", "psu_column", "fpc_column"}
        /\ table["weights_column"] = "weights" /\ table["strata_column"] = "strata"
        /\ table["psu_column"] = "psu" /\ table["fpc_column"] = "fpc"
    OBVIOUS
  <1> HIDE DEF table, spec
  <1>5. DOMAIN table \subseteq Copied(spec.type)
    BY <1>2, <1>4, WhatIsCopied DEF SurveyCopied
  <1>6. DOMAIN table \cap (NotHandedOn \cup {"lags", "deterministic"}) = {}
    BY <1>4 DEF NotHandedOn
  <1>7. \A o : From(c, o).of = o
    BY DEF From
  <1>8. \A p \in DOMAIN table : Given(c, table[p]) => Reaches(c, table[p])
    BY <1>1, <1>5, <1>6, <1>7, ReadOf, ArrivesAs DEF spec
  <1>9. QED
    BY <1>3, <1>4, <1>8

LEMMA SpregOptions ==
  ASSUME NEW c, ModelSpec(c).kind = "spec", ModelSpec(c) = Spreg(c)
  PROVE  /\ Has(c, "robust") => Reaches(c, "robust")
         /\ Reaches(c, "cluster") /\ Reaches(c, "model")
         /\ Has(c, "rowstd") => Reaches(c, "rowstd")
         /\ \A o \in {"spatial_weights", "weights", "id", "spatial_id"} : Given(c, o) => Reaches(c, o)
  <1> DEFINE spec == ModelSpec(c)
             model == ValueOr(c, "model", "lag")
             w == Either(c, "spatial_weights", "weights")
             id == Either(c, "id", "spatial_id")
             table == [spatial_weights_path |-> w, spatial_id_column |-> id]
             columns == Read(c, table)
             rowstd == When(Has(c, "rowstd"), [spatial_row_standardize |-> From(c, "rowstd")])
             all == columns @@ rowstd
  <1>1. /\ model \in DOMAIN SpatialType /\ spec.type = SpatialType[model]
        /\ spec.robust = Has(c, "robust")
        /\ spec.params = all /\ Given(c, w) /\ Given(c, id)
    <2>1. /\ model \in DOMAIN SpatialType /\ Given(c, w) /\ Given(c, id)
          /\ spec = [Fit(SpatialType[model], Formula(c, c.words), all) EXCEPT !.robust = Has(c, "robust")]
      BY DEF Spreg, Refused, @@
    <2> HIDE DEF all, w, id, model
    <2>2. QED
      BY <2>1 DEF Fit
  <1> HIDE DEF model, spec
  <1>2. spec.type \in Weighted \ {"spatial_probit"}
    BY <1>1 DEF SpatialType, Weighted
  <1>3. Has(c, "robust") => Reaches(c, "robust")
    <2>1. NeedsVcov(spec.type) \/ spec.type \in NoVcov
      BY <1>2 DEF NeedsVcov, NoVcov, Weighted
    <2>2. spec.type \in NoVcov => Reaches(c, "robust")
      BY WhatIsLeftOut DEF Reaches, spec
    <2>3. Has(c, "robust") /\ NeedsVcov(spec.type) => Reaches(c, "robust")
      BY <1>1 DEF Reaches, Arrives, Request, spec
    <2>4. QED
      BY <2>1, <2>2, <2>3
  <1>4. Reaches(c, "cluster")
    BY <1>2, WhatIsLeftOut DEF Reaches, spec
  <1>5. Reaches(c, "model")
    BY <1>2 DEF Reaches, Arrives, Request, spec
  <1>6. \A o : From(c, o).of = o
    BY DEF From
  <1>7. /\ DOMAIN table = {"spatial_weights_path", "spatial_id_column"}
        /\ table["spatial_weights_path"] = w /\ table["spatial_id_column"] = id
    OBVIOUS
  <1>8. Has(c, "rowstd") => /\ "spatial_row_standardize" \in DOMAIN rowstd
                            /\ rowstd["spatial_row_standardize"].of = "rowstd"
    BY <1>6 DEF When
  <1> HIDE DEF table, rowstd, w, id
  <1>9. /\ \A p \in DOMAIN table : p \in DOMAIN columns /\ columns[p].of = table[p]
        /\ "spatial_row_standardize" \notin DOMAIN columns
    BY <1>1, <1>6, <1>7, ReadOf
  <1> HIDE DEF columns
  <1>10. /\ \A p \in DOMAIN columns : Same(all, columns, p)
         /\ Same(all, rowstd, "spatial_row_standardize")
    BY <1>9, Upper, Lower
  <1> HIDE DEF all
  <1>11. {"spatial_weights_path", "spatial_id_column", "spatial_row_standardize"} \subseteq Copied(spec.type)
    BY <1>2, WhatIsCopied
  <1>12. {"spatial_weights_path", "spatial_id_column", "spatial_row_standardize"}
           \cap (NotHandedOn \cup {"lags", "deterministic"}) = {}
    BY DEF NotHandedOn
  <1>13. Has(c, "rowstd") => Reaches(c, "rowstd")
    BY <1>1, <1>8, <1>10, <1>11, <1>12, ArrivesAs DEF Same, spec
  <1>14. Reaches(c, w) /\ Reaches(c, id)
    BY <1>1, <1>7, <1>9, <1>10, <1>11, <1>12, ArrivesAs DEF Same, spec
  <1>15. /\ Given(c, "spatial_weights") => Reaches(c, "spatial_weights")
         /\ Given(c, "weights") => Reaches(c, "weights")
    <2>1. Given(c, "spatial_weights") => Reaches(c, "weights")
      BY <1>2, WhatIsLeftOut DEF Reaches, spec
    <2>2. w = IF Given(c, "spatial_weights") THEN "spatial_weights" ELSE "weights"
      BY DEF w, Either
    <2>3. QED
      BY <1>14, <2>1, <2>2
  <1>16. /\ Given(c, "id") => Reaches(c, "id")
         /\ Given(c, "spatial_id") => Reaches(c, "spatial_id")
    <2>1. Given(c, "id") => Reaches(c, "spatial_id")
      BY WhatIsLeftOut DEF Reaches
    <2>2. id = IF Given(c, "id") THEN "id" ELSE "spatial_id"
      BY DEF id, Either
    <2>3. QED
      BY <1>14, <2>1, <2>2
  <1>17. QED
    BY <1>3, <1>4, <1>5, <1>13, <1>15, <1>16

-----------------------------------------------------------------------------
(* Verb by verb, what was given of what the grammar offers reaches the     *)
(* request.                                                                *)
LEMMA OptionNames ==
  ASSUME LineInv, NEW names, NEW required, Offers(Grammars[line.verb].options, names, required),
         NEW o \in DOMAIN line.options
  PROVE  o \in names \/ (line.verb = "svy" /\ o \in {"fpc", "robust"})
  BY DEF LineInv, OptionsFor, Offered, Offers

LEMMA PlainArrives ==
  ASSUME LineInv, ModelSpec(line).kind = "spec", line.verb \in PlainVerbs, ModelSpec(line) = Plain(line),
         NEW o \in DOMAIN line.options, o \in {"robust", "noconstant"} \/ Given(line, o)
  PROVE  Reaches(line, o)
  <1> DEFINE type == ModelSpec(line).type
  <1>1. type = ModelType(line.verb) /\ type \in PlainTypes
    BY PlainSpec, TypesOfPlainVerbs
  <1>2. Has(line, o)
    BY DEF Has
  <1>3. Len(line.words) \in Nat
    <2> DEFINE words == line.words
               all == Words
    <2>1. words \in Seq(all)
      BY DEF LineInv
    <2> HIDE DEF words, all
    <2>2. Len(words) \in Nat
      BY <2>1
    <2>3. QED
      BY <2>2 DEF words
  <1> HIDE DEF type
  <1>4. /\ o = "robust" => Reaches(line, o)
        /\ o = "cluster" => Reaches(line, o)
        /\ o = "noconstant" => Reaches(line, o)
        /\ o = "weights" /\ type \notin Unweighted => Reaches(line, o)
    BY <1>1, <1>2, <1>3, FitOptions DEF type
  <1>5. CASE line.verb = "regress"
    <2>1. o \in {"noconstant", "weights", "robust", "cluster"}
      BY <1>5, OptionsOf, OptionNames
    <2>2. type = "ols"
      BY <1>1, <1>5 DEF ModelType, TypeTable
    <2>3. QED
      BY <1>4, <2>1, <2>2 DEF Unweighted
  <1>6. CASE line.verb = "qreg"
    <2>1. o \in {"quantile", "noconstant", "robust", "cluster"}
      BY <1>6, OptionsOf, OptionNames
    <2>2. type = "quantile"
      BY <1>1, <1>6 DEF ModelType, TypeTable
    <2>3. o \in {"quantile"} => Reaches(line, o)
      BY <1>2, <2>2, QuantileOptions DEF type
    <2>4. QED
      BY <1>4, <2>1, <2>3
  <1>7. CASE line.verb = "nls"
    <2>1. o \in {"family", "start", "maxiter", "tol", "noconstant", "robust", "cluster"}
      BY <1>7, OptionsOf, OptionNames
    <2>2. type = "nls"
      BY <1>1, <1>7 DEF ModelType, TypeTable
    <2>3. o \in {"family", "start", "maxiter", "tol"} => Reaches(line, o)
      BY <1>2, <2>2, NlsOptions DEF type
    <2>4. QED
      BY <1>4, <2>1, <2>3
  <1>8. CASE line.verb = "threg"
    <2>1. o \in {"qvar", "grid", "trim", "noconstant", "robust", "cluster"}
      BY <1>8, OptionsOf, OptionNames
    <2>2. type = "threshold"
      BY <1>1, <1>8 DEF ModelType, TypeTable
    <2>3. o \in {"qvar", "grid", "trim"} => Reaches(line, o)
      BY <1>2, <2>2, ThresholdOptions DEF type
    <2>4. QED
      BY <1>4, <2>1, <2>3
  <1>9. CASE line.verb = "ivregress"
    <2>1. o \in {"endogenous", "instruments", "robust", "cluster"}
      BY <1>9, OptionsOf, OptionNames
    <2>2. type = "iv"
      BY <1>1, <1>9 DEF ModelType, TypeTable
    <2>3. o \in {"endogenous", "instruments"} => Reaches(line, o)
      BY <1>2, <2>2, SharedOptions DEF type, PlainTypes, Panels, Events
    <2>4. QED
      BY <1>4, <2>1, <2>3
  <1>10. CASE line.verb = "gmm"
    <2>1. o \in {"endogenous", "instruments", "weight", "robust", "cluster"}
      BY <1>10, OptionsOf, OptionNames
    <2>2. type = "gmm_linear"
      BY <1>1, <1>10 DEF ModelType, TypeTable
    <2>3. o \in {"endogenous", "instruments", "weight"} => Reaches(line, o)
      BY <1>2, <2>2, SharedOptions DEF type, PlainTypes, Panels, Events
    <2>4. QED
      BY <1>4, <2>1, <2>3
  <1>11. CASE line.verb = "gls"
    <2>1. o \in {"weights", "robust", "cluster"}
      BY <1>11, OptionsOf, OptionNames
    <2>2. type = "gls"
      BY <1>1, <1>11 DEF ModelType, TypeTable
    <2>3. QED
      BY <1>4, <2>1, <2>2 DEF Unweighted
  <1>12. CASE line.verb = "xtreg"
    <2>1. o \in {"id", "time", "method", "robust", "cluster"}
      BY <1>12, OptionsOf, OptionNames
    <2>2. type = "panel"
      BY <1>1, <1>12 DEF ModelType, TypeTable
    <2>3. o \in {"id", "time", "method"} => Reaches(line, o)
      BY <1>2, <2>2, SharedOptions DEF type, PlainTypes, Panels, Events
    <2>4. QED
      BY <1>4, <2>1, <2>3
  <1>13. CASE line.verb = "xtivreg"
    <2>1. o \in {"id", "time", "method", "endogenous", "instruments", "robust", "cluster"}
      BY <1>13, OptionsOf, OptionNames
    <2>2. type = "panel_iv"
      BY <1>1, <1>13 DEF ModelType, TypeTable
    <2>3. o \in {"id", "time", "method", "endogenous", "instruments"} => Reaches(line, o)
      BY <1>2, <2>2, SharedOptions DEF type, PlainTypes, Panels, Events
    <2>4. QED
      BY <1>4, <2>1, <2>3
  <1>14. CASE line.verb = "xtabond"
    <2>1. o \in {"id", "time", "lags", "weight", "style", "collapse", "robust", "cluster"}
      BY <1>14, OptionsOf, OptionNames
    <2>2. type = "dynamic_panel_gmm"
      BY <1>1, <1>14 DEF ModelType, TypeTable
    <2>3. o \in {"id", "time", "lags", "weight", "style", "collapse"} => Reaches(line, o)
      BY <1>2, <2>2, SharedOptions, PanelGmmOptions DEF type, PlainTypes, Panels, Events
    <2>4. QED
      BY <1>4, <2>1, <2>3
  <1>15. CASE line.verb = "did"
    <2>1. o \in {"id", "time", "treat", "post", "robust", "cluster"}
      BY <1>15, OptionsOf, OptionNames
    <2>2. type = "did"
      BY <1>1, <1>15 DEF ModelType, TypeTable
    <2>3. o \in {"id", "time", "treat", "post"} => Reaches(line, o)
      BY <1>2, <2>2, SharedOptions, CausalOptions DEF type, PlainTypes, Panels, Events, Causal
    <2>4. QED
      BY <1>4, <2>1, <2>3
  <1>16. CASE line.verb = "eventstudy"
    <2>1. o \in {"id", "time", "treat", "eventtime", "robust", "cluster"}
      BY <1>16, OptionsOf, OptionNames
    <2>2. type = "event_study"
      BY <1>1, <1>16 DEF ModelType, TypeTable
    <2>3. o \in {"id", "time", "treat", "eventtime"} => Reaches(line, o)
      BY <1>2, <2>2, SharedOptions, CausalOptions DEF type, PlainTypes, Panels, Events, Causal
    <2>4. QED
      BY <1>4, <2>1, <2>3
  <1>17. CASE line.verb = "ipw"
    <2>1. o \in {"treat", "outcome", "propensity", "robust", "cluster"}
      BY <1>17, OptionsOf, OptionNames
    <2>2. type = "ipw"
      BY <1>1, <1>17 DEF ModelType, TypeTable
    <2>3. o \in {"treat", "outcome", "propensity"} => Reaches(line, o)
      BY <1>2, <2>2, CausalOptions DEF type, Events, Causal
    <2>4. QED
      BY <1>4, <2>1, <2>3
  <1>18. CASE line.verb = "psm"
    <2>1. o \in {"treat", "outcome", "propensity", "robust", "cluster"}
      BY <1>18, OptionsOf, OptionNames
    <2>2. type = "psm"
      BY <1>1, <1>18 DEF ModelType, TypeTable
    <2>3. o \in {"treat", "outcome", "propensity"} => Reaches(line, o)
      BY <1>2, <2>2, CausalOptions DEF type, Events, Causal
    <2>4. QED
      BY <1>4, <2>1, <2>3
  <1>19. CASE line.verb = "aipw"
    <2>1. o \in {"treat", "outcome", "propensity", "outcome_model", "robust", "cluster"}
      BY <1>19, OptionsOf, OptionNames
    <2>2. type = "aipw"
      BY <1>1, <1>19 DEF ModelType, TypeTable
    <2>3. o \in {"treat", "outcome", "propensity", "outcome_model"} => Reaches(line, o)
      BY <1>2, <2>2, CausalOptions DEF type, Events, Causal
    <2>4. QED
      BY <1>4, <2>1, <2>3
  <1>20. CASE line.verb = "arima"
    <2>1. o \in {"time", "ar", "i", "ma", "robust", "cluster"}
      BY <1>20, OptionsOf, OptionNames
    <2>2. type = "arima"
      BY <1>1, <1>20 DEF ModelType, TypeTable
    <2>3. o \in {"time", "ar", "i", "ma"} => Reaches(line, o)
      BY <1>2, <2>2, SeriesOptions DEF type, TimeSeries
    <2>4. QED
      BY <1>4, <2>1, <2>3
  <1>21. CASE line.verb = "var"
    <2>1. o \in {"time", "lags", "robust", "cluster"}
      BY <1>21, OptionsOf, OptionNames
    <2>2. type = "var"
      BY <1>1, <1>21 DEF ModelType, TypeTable
    <2>3. o \in {"time", "lags"} => Reaches(line, o)
      BY <1>2, <2>2, SeriesOptions, LagsAndTerms DEF type, TimeSeries
    <2>4. QED
      BY <1>4, <2>1, <2>3
  <1>22. CASE line.verb = "dfuller"
    <2>1. o \in {"time", "deterministic", "robust", "cluster"}
      BY <1>22, OptionsOf, OptionNames
    <2>2. type = "unitroot"
      BY <1>1, <1>22 DEF ModelType, TypeTable
    <2>3. o \in {"time", "deterministic"} => Reaches(line, o)
      BY <1>2, <2>2, SeriesOptions, LagsAndTerms DEF type, TimeSeries
    <2>4. QED
      BY <1>4, <2>1, <2>3
  <1>23. CASE line.verb = "arch"
    <2>1. o \in {"time", "maxiter", "tol", "arch", "robust", "cluster"}
      BY <1>23, OptionsOf, OptionNames
    <2>2. type = "arch"
      BY <1>1, <1>23 DEF ModelType, TypeTable
    <2>3. o \in {"time", "maxiter", "tol", "arch"} => Reaches(line, o)
      BY <1>2, <2>2, SeriesOptions, WhatIsLeftOut DEF type, TimeSeries, Reaches
    <2>4. QED
      BY <1>4, <2>1, <2>3
  <1>24. CASE line.verb = "garch"
    <2>1. o \in {"time", "arch", "garch", "maxiter", "tol", "robust", "cluster"}
      BY <1>24, OptionsOf, OptionNames
    <2>2. type = "garch"
      BY <1>1, <1>24 DEF ModelType, TypeTable
    <2>3. o \in {"time", "arch", "garch", "maxiter", "tol"} => Reaches(line, o)
      BY <1>2, <2>2, SeriesOptions, GarchOptions DEF type, TimeSeries
    <2>4. QED
      BY <1>4, <2>1, <2>3
  <1>25. CASE line.verb = "coint"
    <2>1. o \in {"time", "lags", "deterministic", "method", "robust", "cluster"}
      BY <1>25, OptionsOf, OptionNames
    <2>2. type = "cointegration"
      BY <1>1, <1>25 DEF ModelType, TypeTable
    <2>3. o \in {"time", "lags", "deterministic", "method"} => Reaches(line, o)
      BY <1>2, <2>2, SeriesOptions, LagsAndTerms DEF type, TimeSeries
    <2>4. QED
      BY <1>4, <2>1, <2>3
  <1>26. CASE line.verb \in {"logit", "probit", "poisson", "ologit", "mlogit", "nbreg"}
    <2>1. o \in {"robust", "cluster"}
      BY <1>26, OptionsOfDiscrete, OptionNames
    <2>2. QED
      BY <1>4, <2>1
  <1>27. QED
    BY <1>5, <1>6, <1>7, <1>8, <1>9, <1>10, <1>11, <1>12, <1>13, <1>14, <1>15, <1>16, <1>17, <1>18,
       <1>19, <1>20, <1>21, <1>22, <1>23, <1>24, <1>25, <1>26 DEF PlainVerbs, ModelVerbs

LEMMA OwnArrives ==
  ASSUME LineInv, ModelSpec(line).kind = "spec", line.verb \notin PlainVerbs,
         NEW o \in DOMAIN line.options, o \in {"robust", "noconstant"} \/ Given(line, o)
  PROVE  Reaches(line, o)
  <1>1. Has(line, o)
    BY DEF Has
  <1>2. CASE line.verb = "sur" /\ ModelSpec(line) = Sur(line)
    <2>1. o \in {"robust", "cluster", "maxiter", "tol"}
      BY <1>2, OptionsOf, OptionNames
    <2>2. QED
      BY <1>2, <2>1, SurOptions
  <1>3. CASE line.verb = "reg3" /\ ModelSpec(line) = Reg3(line)
    <2>1. o \in {"endogenous", "instruments", "method"}
      BY <1>3, OptionsOf, OptionNames
    <2>2. QED
      BY <1>3, <2>1, Reg3Options
  <1>4. CASE line.verb = "svy" /\ ModelSpec(line) = Svy(line)
    <2>1. o \in {"strata", "psu", "weights", "fpc", "robust"}
      BY <1>4, OptionsOf, OptionNames
    <2>2. QED
      BY <1>1, <1>4, <2>1, SvyOptions
  <1>5. CASE line.verb = "stcox"
    BY <1>5, OptionsOfStcox, OptionNames
  <1>6. CASE line.verb = "spreg" /\ ModelSpec(line) = Spreg(line)
    <2>1. o \in {"spatial_weights", "id", "weights", "spatial_id", "rowstd", "model", "robust", "cluster"}
      BY <1>6, OptionsOf, OptionNames
    <2>2. QED
      BY <1>1, <1>6, <2>1, SpregOptions
  <1>7. QED
    BY <1>2, <1>3, <1>4, <1>5, <1>6, ModelSpecCases

(* Every option that was given reaches the request, whatever else is on    *)
(* the line: as a parameter, as the vcov, cluster or weights of the fit,   *)
(* in its formula or in the type of the model.  Only what LeftOut names is *)
(* not sent.                                                               *)
THEOREM GivenOptionsArrive == Spec => []OptionsArrive
  <1>1. Answers => OptionsArrive
    <2> SUFFICES ASSUME Answers, Sent,
                        NEW o \in DOMAIN line.options, o \in {"robust", "noconstant"} \/ Given(line, o)
                 PROVE  Arrives(line, outcome.request, o) \/ LeftOut(line, outcome.request.type, o)
      BY DEF OptionsArrive
    <2>1. LineInv /\ ModelSpec(line).kind = "spec" /\ outcome.request = Request(ModelSpec(line))
      BY DEF Answers, Modelled
    <2>2. outcome.request.type = ModelSpec(line).type
      BY <2>1 DEF Request
    <2>3. Reaches(line, o)
      <3>1. CASE line.verb \in PlainVerbs
        <4>1. ModelSpec(line) = Plain(line)
          BY <2>1, <3>1, ModelSpecCases DEF PlainVerbs
        <4>2. QED
          BY <2>1, <3>1, <4>1, PlainArrives
      <3>2. CASE line.verb \notin PlainVerbs
        BY <2>1, <3>2, OwnArrives
      <3>3. QED
        BY <3>1, <3>2
    <2>4. QED
      BY <2>1, <2>2, <2>3 DEF Reaches
  <1>2. QED
    BY <1>1, AnswersInit, AnswersStep, PTL DEF Spec

=============================================================================
