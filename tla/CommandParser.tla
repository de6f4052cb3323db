---------------------------- MODULE CommandParser ----------------------------
(***************************************************************************)
(* services/commandParser.ts and commandDataOps.ts: what a line means.     *)
(*                                                                         *)
(* A command is its verb, its words and its options; an option repeated on *)
(* the line counts once, with its last value.  A value is one of a few     *)
(* texts.  Numbers are in hundredths, so that 0.5 and 1 differ.  Three     *)
(* bounds stand for those of the machine, which TLC's integers do not      *)
(* reach: only the order of the numbers about them matters.                *)
(***************************************************************************)
EXTENDS CommandGrammar, Integers

(* parseFloat of each white-space separated part of a value; a word gives  *)
(* NaN.  Bare is an option written without parentheses: its value is       *)
(* undefined, which String() makes the word "undefined".                   *)
Bare == "bare"
NaN == -1
LargestI32 == 2000              \* stands for 2^31 - 1
OnesApart == 300000             \* from here on neighbouring doubles are a unit apart
LargestDouble == 400000         \* stands for 1.8e308
Numbers(value) ==
  CASE value = "0" -> <<0>>
    [] value = "0.5" -> <<50>>
    [] value = "1" -> <<100>>
    [] value = "2" -> <<200>>
    [] value = "4" -> <<400>>
    [] value = "13" -> <<1300>>
    [] value = "2 4" -> <<200, 400>>
    [] value = "5 4" -> <<500, 400>>
    [] value = "0 1 5" -> <<0, 100, 500>>
    [] value = "1 0 5" -> <<100, 0, 500>>
    [] value = "c c" -> <<NaN, NaN>>
    [] value = "3000000000" -> <<100 * (LargestI32 + 1)>>
    [] value = "1e16 10000000000000002 5" -> <<OnesApart, OnesApart + 1, 500>>
    [] value = "-1e308 1e308 5" -> <<-LargestDouble, LargestDouble, 500>>
    [] OTHER -> <<NaN>>
Float(value) == Head(Numbers(value))
TruncInt(x) == IF x = NaN THEN NaN ELSE x \div 100     \* parseInt
Ints(value) == [i \in DOMAIN Numbers(value) |-> TruncInt(Numbers(value)[i])]
FirstInt(value) == TruncInt(Float(value))
Segments(value) == IF value = "c|c" THEN 2 ELSE 1       \* split('|')

Has(c, o) == o \in DOMAIN c.options
Given(c, o) == Has(c, o) /\ c.options[o] # Bare
ValueOr(c, o, default) == IF Given(c, o) THEN c.options[o] ELSE default

(* What translating a command ends in.                                     *)
Refused(why) == [kind |-> "refused", why |-> why]
Thrown == [kind |-> "thrown"]

(* parse: an unknown verb is the only error of a line that has one.        *)
Verbs(verb) == IF verb = "import" THEN "use" ELSE verb
Parsed(line) ==
  IF Verbs(line.verb) \in CommandList
  THEN [kind |-> "command", command |-> [line EXCEPT !.verb = Verbs(line.verb)]]
  ELSE Refused("verb")

-----------------------------------------------------------------------------
(* Parameters carry the option (or "words") they were read from, its text  *)
(* and the integers read from it.                                          *)
IntOf(c, o, default) == IF Has(c, o) THEN FirstInt(c.options[o]) ELSE default
From(c, o) == [of |-> o, text |-> c.options[o], is |-> Ints(c.options[o])]
OfWords == [of |-> "words", text |-> "", is |-> << >>]
Default(text) == [of |-> "default", text |-> text, is |-> Ints(text)]
Read(c, table) == [p \in {q \in DOMAIN table : Given(c, table[q])} |-> From(c, table[p])]
NoParams == [p \in {} |-> OfWords]
When(condition, params) == IF condition THEN params ELSE NoParams

Fit(type, formula, params) ==
  [kind |-> "spec", type |-> type, formula |-> formula, robust |-> FALSE,
   cluster |-> FALSE, weights |-> FALSE, params |-> params]

(* y ~ x, y ~ 0 + x, y alone, or nothing.                                  *)
Formula(c, words) ==
  IF Len(words) = 0 THEN "none"
  ELSE IF Len(words) = 1 THEN "name"
  ELSE IF Has(c, "noconstant") THEN "without constant" ELSE "full"

ModelVerbs ==
  {"regress", "ivregress", "gmm", "qreg", "nls", "threg", "gls", "xtreg", "xtivreg", "xtabond",
   "logit", "probit", "poisson", "ologit", "mlogit", "nbreg", "did", "eventstudy", "ipw", "psm",
   "aipw", "arima", "var", "dfuller", "coint", "svy", "sur", "reg3", "garch", "arch", "spreg",
   "stcox"}

TypeTable ==
  [regress |-> "ols", ivregress |-> "iv", gmm |-> "gmm_linear", qreg |-> "quantile",
   threg |-> "threshold", xtreg |-> "panel", xtivreg |-> "panel_iv",
   xtabond |-> "dynamic_panel_gmm", ologit |-> "ordered_logit", mlogit |-> "multinomial_logit",
   nbreg |-> "negbin", eventstudy |-> "event_study", dfuller |-> "unitroot",
   coint |-> "cointegration"]
ModelType(verb) == IF verb \in DOMAIN TypeTable THEN TypeTable[verb] ELSE verb

Causal == {"ipw", "psm", "aipw"}
TimeSeries == {"arima", "var", "unitroot", "cointegration", "arch", "garch"}
Unweighted == {"quantile", "nls", "threshold"}

-----------------------------------------------------------------------------
(* One block of a system of equations: "(y x)"; "(y)" has no regressor.    *)
BlocksOf(words) ==
  IF words = << >> \/ \E i \in DOMAIN words : words[i] # "(y x)" THEN {} ELSE {Len(words)}

Equations(c) == [of |-> "words", text |-> "", is |-> <<Len(c.words)>>]
Sur(c) ==
  IF BlocksOf(c.words) = {} THEN Refused("words")
  ELSE Fit("sur", "none", [equations |-> Equations(c)]
         @@ [p \in {q \in {"sur_max_iter", "sur_tol"} :
                      LET o == IF q = "sur_tol" THEN "tol" ELSE "maxiter"
                      IN Given(c, o) /\ Float(c.options[o]) # NaN} |->
               From(c, IF p = "sur_tol" THEN "tol" ELSE "maxiter")])

Reg3(c) ==
  IF BlocksOf(c.words) = {} THEN Refused("words")
  ELSE IF ~Given(c, "endogenous") \/ ~Given(c, "instruments") THEN Refused("missing")
  ELSE IF {Segments(c.options["endogenous"]), Segments(c.options["instruments"])} # BlocksOf(c.words)
  THEN Refused("value")
  ELSE Fit(IF ValueOr(c, "method", "twostep") = "3sls" THEN "system_3sls" ELSE "system_2sls",
            "none", [equations |-> Equations(c)]
            @@ Read(c, [system_endogenous |-> "endogenous", system_instruments |-> "instruments"]))

Stcox(c) ==
  IF Len(c.words) < 3 THEN Refused("words")
  ELSE Fit("duration_cox", "full",
            [duration_time_column |-> OfWords, duration_event_column |-> OfWords])

SpatialType ==
  [lag |-> "spatial_lag", sar |-> "spatial_lag", error |-> "spatial_error",
   sem |-> "spatial_error", slx |-> "spatial_slx", sdm |-> "spatial_sdm",
   sdem |-> "spatial_sdem", sac |-> "spatial_sac"]
(* a ?? b: the first of two options that has a value.                      *)
Either(c, a, b) == IF Given(c, a) THEN a ELSE b
Spreg(c) ==
  LET w == Either(c, "spatial_weights", "weights")
      id == Either(c, "id", "spatial_id")
  IN IF Len(c.words) < 2 THEN Refused("words")
     ELSE IF ~Given(c, w) \/ ~Given(c, id) THEN Refused("missing")
     ELSE IF ValueOr(c, "model", "lag") \notin DOMAIN SpatialType THEN Refused("value")
     ELSE [Fit(SpatialType[ValueOr(c, "model", "lag")], Formula(c, c.words),
                Read(c, [spatial_weights_path |-> w, spatial_id_column |-> id])
                @@ When(Has(c, "rowstd"), [spatial_row_standardize |-> From(c, "rowstd")]))
           EXCEPT !.robust = Has(c, "robust")]

(* gwr, gtwr, spprobit and bayesreg: parseToModelSpec refuses their verbs  *)
(* before it comes to them.                                                *)
Gwr(c) ==
  IF Len(c.words) < 2 THEN Refused("words")
  ELSE IF c.verb = "gtwr" /\ ~Given(c, "time") THEN Refused("missing")
  ELSE Fit(IF c.verb = "gtwr" THEN "spatial_gtwr" ELSE "spatial_gwr", Formula(c, c.words),
         Read(c, [spatial_coord_columns |-> "coords", spatial_distance |-> "distance",
                  gwr_kernel |-> "kernel", gwr_bandwidth |-> "bandwidth",
                  gwr_adaptive |-> "adaptive"])
         @@ When(c.verb = "gtwr",
                 Read(c, [gtwr_time_column |-> "time", gtwr_time_scale |-> "time_scale"]))
         @@ [p \in {"spatial_coord_columns", "spatial_distance", "gwr_kernel", "gwr_adaptive"} |->
               Default("")])
Spprobit(c) ==
  IF Len(c.words) < 2 THEN Refused("words")
  ELSE Fit("spatial_probit", Formula(c, c.words),
         Read(c, [spatial_weights_path |-> Either(c, "spatial_weights", "weights"),
                  spatial_id_column |-> Either(c, "spatial_id", "id")])
         @@ [spatial_weights_path |-> Default(""), spatial_id_column |-> Default("")])
Bayesreg(c) ==
  IF Len(c.words) < 2 THEN Refused("words")
  ELSE Fit("bayes_linear", "full",
         When(Has(c, "seed"), [bayes_seed |-> From(c, "seed")])
         @@ When(Has(c, "prior_scale"), [bayes_prior_scale |-> From(c, "prior_scale")]))

SurveyTypes ==
  [ols |-> "survey_ols", logit |-> "survey_logit", probit |-> "survey_probit",
   poisson |-> "survey_poisson"]
Svy(c) ==
  IF c.words = << >> THEN Refused("words")
  ELSE IF c.words[1] \notin DOMAIN SurveyTypes THEN Refused("words")
  ELSE [Fit(SurveyTypes[c.words[1]],
             Formula([c EXCEPT !.options = NoOptions], Tail(c.words)),
             Read(c, [weights_column |-> "weights", strata_column |-> "strata",
                      psu_column |-> "psu", fpc_column |-> "fpc"]))
        EXCEPT !.robust = Has(c, "robust"), !.cluster = Given(c, "cluster")]

-----------------------------------------------------------------------------
(* The options every other verb shares.  split() of an undefined value     *)
(* throws.                                                                 *)
UsesMethod(type) ==
  type \notin Unweighted \cup {"panel_iv", "dynamic_panel_gmm", "arch", "garch"}
General(c, type) ==
  Read(c, [panel_id |-> "id", panel_time |-> "time", endog_columns |-> "endogenous",
           instruments |-> "instruments"])
  @@ When(UsesMethod(type), Read(c, [panel_method |-> "method"]))
  @@ When(type = "gmm_linear", Read(c, [gmm_weight |-> "weight"]))
SplitThrows(c) == \E o \in {"endogenous", "instruments"} : Has(c, o) /\ ~Given(c, o)

FamilyOk(c) == Has(c, "family") => c.options["family"] = "exp_growth"

(* Per type: the options without which it refuses, a value it refuses, and *)
(* the parameters it adds.                                                 *)
Missing(c, type) ==
  CASE type = "dynamic_panel_gmm" -> {o \in {"id", "time"} : ~Given(c, o)}
    [] type = "nls" -> {o \in {"start"} : ~Has(c, o) /\ FamilyOk(c)}
    [] type = "threshold" -> {o \in {"qvar", "grid"} : ~Has(c, o)}
    [] type = "arch" -> {o \in {"arch"} : ~Has(c, o)}
    [] OTHER -> {}

TauOk(value) == Float(value) # NaN /\ Float(value) > 0 /\ Float(value) < 100
StartOk(value) == Len(Numbers(value)) = 3 /\ \A i \in 1..3 : Numbers(value)[i] # NaN
GridOk(value) ==
  LET g == Numbers(value)
  IN Len(g) = 3 /\ g[1] # NaN /\ g[2] # NaN /\ TruncInt(g[3]) \in 2..500 /\ g[2] > g[1]

(* The points it is expanded to, the two ends alone when there are two:    *)
(* the step overflows between ends further apart than the largest double,  *)
(* and points that fall between neighbouring doubles round to one another. *)
Overflows(g) == TruncInt(g[3]) > 2 /\ g[2] - g[1] > LargestDouble
TooFine(g) ==
  /\ g[1] >= OnesApart \/ g[2] <= -OnesApart
  /\ g[2] - g[1] < TruncInt(g[3]) - 1
Expanded(value) ==
  LET g == Numbers(value)
  IN IF Overflows(g) THEN "not finite"
     ELSE IF g[2] <= g[1] \/ TooFine(g) THEN "not increasing" ELSE "increasing"
TrimOk(value) == Float(value) \in 0..44
LagsOk(value) == Len(Ints(value)) = 2 /\ NaN \notin {Ints(value)[1], Ints(value)[2]}
ArchOk(value) == FirstInt(value) \in 1..12

(* garch(p q), garch(q), and arch(p), which goes before the p of garch.    *)
GarchP(c) ==
  IF Has(c, "arch") THEN FirstInt(c.options["arch"])
  ELSE IF Has(c, "garch") /\ Len(Ints(c.options["garch"])) = 2 THEN Ints(c.options["garch"])[1]
  ELSE 1
GarchQ(c) ==
  IF Has(c, "garch") THEN Ints(c.options["garch"])[Len(Ints(c.options["garch"]))] ELSE 1
GarchEachOk(c) == GarchP(c) \in 1..5 /\ GarchQ(c) \in 1..5   \* mutant: the sum is not checked
GarchOk(c) ==
  /\ Has(c, "garch") => Len(Ints(c.options["garch"])) \in {1, 2}
                        /\ \A i \in DOMAIN Ints(c.options["garch"]) : Ints(c.options["garch"])[i] # NaN
  /\ GarchP(c) \in 1..5 /\ GarchQ(c) \in 1..5 /\ GarchP(c) + GarchQ(c) <= 8

Checks(c, o, Ok(_)) == Has(c, o) => Ok(c.options[o])
ValuesOk(c, type) ==
  CASE type = "dynamic_panel_gmm" -> Checks(c, "lags", LagsOk)
    [] type = "quantile" -> Checks(c, "quantile", TauOk)
    [] type = "nls" ->
         /\ FamilyOk(c) /\ Checks(c, "start", StartOk)
         /\ Checks(c, "maxiter", LAMBDA v : FirstInt(v) >= 1) /\ Checks(c, "tol", LAMBDA v : Float(v) > 0)
    [] type = "threshold" -> Checks(c, "grid", GridOk) /\ Checks(c, "trim", TrimOk)
    [] type = "arch" -> Checks(c, "arch", ArchOk)
    [] type = "garch" -> GarchOk(c)
    [] OTHER -> TRUE
LagsThrow(c, type) == type = "dynamic_panel_gmm" /\ Has(c, "lags") /\ ~Given(c, "lags")

CausalParams(c, type) ==
  CASE type \in {"did", "event_study"} ->
         Read(c, [treated_column |-> "treat", post_column |-> "post",
                  event_time_column |-> "eventtime"])
    [] type \in Causal ->
         Read(c, [treatment_column |-> "treat", outcome_column |-> "outcome",
                  propensity_formula |-> "propensity", outcome_formula |-> "outcome_model"])
    [] OTHER -> NoParams

GarchParams(c) ==
  When(Has(c, "arch") \/ Has(c, "garch"),
       [garch_p |-> [of |-> IF Has(c, "arch") THEN "arch" ELSE "garch", text |-> "",
                     is |-> <<GarchP(c)>>]])
  @@ When(Has(c, "garch"), [garch_q |-> [of |-> "garch", text |-> "", is |-> <<GarchQ(c)>>]])
  @@ When(Given(c, "maxiter") /\ FirstInt(c.options["maxiter"]) >= 1,
          [garch_max_iter |-> From(c, "maxiter")])
  @@ When(Given(c, "tol") /\ Float(c.options["tol"]) > 0, [garch_tol |-> From(c, "tol")])

TimeParams(c, type) ==
  Read(c, [time_column |-> "time", deterministic |-> "deterministic"])
  @@ When(Has(c, "lags"), [lags |-> From(c, "lags")])
  @@ When(type = "cointegration", Read(c, [ts_method |-> "method"]))
  @@ When(type = "arima" /\ \E o \in {"ar", "i", "ma"} : Has(c, o),
          [order |-> [of |-> "ar i ma", text |-> "",
                      is |-> <<IntOf(c, "ar", 1), IntOf(c, "i", 0), IntOf(c, "ma", 0)>>]])
  @@ When(c.words # << >>, IF type \in {"var", "cointegration"} THEN [variables |-> OfWords]
                           ELSE [variable |-> OfWords])
  @@ When(type = "arch", [arch_order |-> From(c, "arch")])
  @@ When(type = "garch", GarchParams(c))

OwnParams(c, type) ==
  CASE type = "dynamic_panel_gmm" ->
         Read(c, [instrument_lags |-> "lags", gmm_weight |-> "weight", dpgmm_style |-> "style"])
         @@ [instrument_lags |-> Default("2 4")]
         @@ When(Has(c, "collapse"), [collapse_instruments |-> From(c, "collapse")])
    [] type = "quantile" ->
         When(Has(c, "quantile"), [quantile_tau |-> From(c, "quantile")])
         @@ [quantile_tau |-> Default("0.5")]
    [] type = "nls" ->
         Read(c, [nls_family |-> "family", nls_start |-> "start", nls_max_iter |-> "maxiter",
                  nls_tol |-> "tol"])
         @@ [nls_family |-> Default("exp_growth")]
    [] type = "threshold" ->
         [threshold_variable |-> From(c, "qvar"), threshold_grid |-> From(c, "grid")]
         @@ Read(c, [threshold_trim_frac |-> "trim"])
    [] type \in TimeSeries -> TimeParams(c, type)
    [] OTHER -> CausalParams(c, type)

Plain(c) ==
  LET type == ModelType(c.verb)
  IN IF SplitThrows(c) THEN Thrown
     ELSE IF Missing(c, type) # {} THEN Refused("missing")
     ELSE IF LagsThrow(c, type) THEN Thrown
     ELSE IF ~ValuesOk(c, type) THEN Refused("value")
     ELSE [Fit(type, Formula(c, c.words), OwnParams(c, type) @@ General(c, type))
           EXCEPT !.robust = Has(c, "robust") /\ type \notin Unweighted,
                  !.cluster = Given(c, "cluster") /\ type \notin Unweighted,
                  !.weights = Given(c, "weights") /\ type \notin Unweighted]

(* parseToModelSpec.                                                       *)
ModelSpec(c) ==
  IF c.verb \notin ModelVerbs THEN Refused("verb")
  ELSE CASE c.verb = "sur" -> Sur(c)
         [] c.verb = "reg3" -> Reg3(c)
         [] c.verb = "svy" -> Svy(c)
         [] c.verb = "stcox" -> Stcox(c)
         [] c.verb = "spreg" -> Spreg(c)
         [] c.verb \in {"gwr", "gtwr"} -> Gwr(c)
         [] c.verb = "spprobit" -> Spprobit(c)
         [] c.verb = "bayesreg" -> Bayesreg(c)
         [] OTHER -> Plain(c)

-----------------------------------------------------------------------------
(* parseToDiagnosticSpec.                                                  *)
DiagnosticTest ==
  [ovtest |-> "reset", hettest |-> "bp", vif |-> "vif", dwstat |-> "dw", bgodfrey |-> "bg"]
IsDiagnosticVerb(verb) == verb \in DOMAIN DiagnosticTest \cup {"diagnostic", "hausman"}
DiagnosticSpec(c) ==
  IF c.verb = "diagnostic"
  THEN IF c.words # << >> /\ c.words[1] \in Tests
       THEN [kind |-> "diagnostic", test |-> c.words[1]] ELSE Refused("words")
  ELSE IF c.verb \in DOMAIN DiagnosticTest
       THEN [kind |-> "diagnostic", test |-> DiagnosticTest[c.verb]] ELSE Refused("verb")

(* parseToDataOp.                                                          *)
DataOpVerbs ==
  {"filter", "impute_missing", "generate", "replace", "rename", "drop", "keep", "sort",
   "merge", "reshape", "collapse"}
DataOpNeedsHow ==     \* mutant: the way of merging has no default
  [replace |-> {"value", "if"}, merge |-> {"on", "how"}, reshape |-> {"id", "time"},
   collapse |-> {"by", "stats"}]
DataOpNeeds ==
  [replace |-> {"value", "if"}, merge |-> {"on"}, reshape |-> {"id", "time"},
   collapse |-> {"by", "stats"}]
(* generate name = expression, where the = may be left out.                *)
NamesAndDefines(words) ==
  IF \E i \in DOMAIN words : words[i] = "="
  THEN LET eq == CHOOSE i \in DOMAIN words : words[i] = "=" /\ \A j \in 1..(i - 1) : words[j] # "="
       IN eq > 1 /\ eq < Len(words)
  ELSE Len(words) >= 2
WordsOk(c) ==
  CASE c.verb = "impute_missing" -> TRUE
    [] c.verb = "generate" -> NamesAndDefines(c.words)
    [] c.verb = "rename" -> Len(c.words) >= 2
    [] c.verb = "reshape" -> c.words # << >> /\ c.words[1] \in {"long", "wide"}
    [] OTHER -> c.words # << >>
DataOp(c) ==
  IF ~WordsOk(c) THEN Refused("words")
  ELSE IF c.verb \in DOMAIN DataOpNeeds /\ \E o \in DataOpNeeds[c.verb] : ~Given(c, o)
  THEN Refused("missing")
  ELSE IF c.verb = "reshape" /\ Len(c.words) < 2 THEN Refused("words")
  ELSE [kind |-> "operation",
        op |-> IF c.verb = "reshape"
               THEN IF c.words[1] = "long" THEN "reshape_long" ELSE "reshape_wide"
               ELSE c.verb]

=============================================================================
